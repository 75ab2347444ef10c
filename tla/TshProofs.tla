------------------------------ MODULE TshProofs ------------------------------
(***************************************************************************)
(* The safety of the shell, for every number of slots, every set of        *)
(* processes and every set of commands.  First the facts about the job     *)
(* list's helpers that the rest builds on.                                 *)
(***************************************************************************)
EXTENDS Tsh, FiniteSetTheorems, TLAPS

(***************************************************************************)
(* Smallest and largest elements.  Both follow from strict inclusion being *)
(* well founded on the subsets of a finite set: the set of elements beyond *)
(* x is smallest, that is empty, for some x.                               *)
(***************************************************************************)

\* A finite set of integers that is not empty has a smallest element, which
\* is what First returns for the C lookup loops.
LEMMA SmallestExists ==
    ASSUME NEW S, S \subseteq Int, IsFiniteSet(S), S # {}
    PROVE  \E x \in S : \A y \in S : x <= y
<1> DEFINE Below(x) == {y \in S : y < x}
           T == {Below(x) : x \in S}
<1>1. IsWellFoundedOn(StrictSubsetOrdering(S), FiniteSubsetsOf(S))
  BY FS_StrictSubsetOrderingWellFounded
<1>2. T \subseteq FiniteSubsetsOf(S)
  BY FS_FiniteSubsetsOfFinite
<1>3. T # {}
  OBVIOUS
<1>4. \E X \in T : \A Y \in T : <<Y, X>> \notin StrictSubsetOrdering(S)
  <2> HIDE DEF T
  <2> QED  BY <1>1, <1>2, <1>3, WFMin
<1>5. PICK x \in S : \A y \in S : <<Below(y), Below(x)>> \notin StrictSubsetOrdering(S)
  BY <1>4
<1>6. ASSUME NEW y \in S, ~(x <= y) PROVE FALSE
  <2>0. x \in Int /\ y \in Int /\ y < x /\ ~(y < y)
    BY <1>6
  <2>1. Below(y) \subseteq Below(x) /\ Below(y) # Below(x)
    <3>1. \A z \in S : z < y => z < x
      BY <2>0
    <3>2. Below(y) \subseteq Below(x)
      BY <3>1
    <3>3. y \in Below(x) /\ y \notin Below(y)
      BY <2>0
    <3> QED  BY <3>2, <3>3
  <2>2. <<Below(y), Below(x)>> \in StrictSubsetOrdering(S)
    BY <2>1 DEF StrictSubsetOrdering
  <2> QED  BY <2>2, <1>5
<1> QED  BY <1>6

\* The same for the largest element.
LEMMA LargestExists ==
    ASSUME NEW S, S \subseteq Int, IsFiniteSet(S), S # {}
    PROVE  \E x \in S : \A y \in S : x >= y
<1> DEFINE Above(x) == {y \in S : y > x}
           T == {Above(x) : x \in S}
<1>1. IsWellFoundedOn(StrictSubsetOrdering(S), FiniteSubsetsOf(S))
  BY FS_StrictSubsetOrderingWellFounded
<1>2. T \subseteq FiniteSubsetsOf(S)
  BY FS_FiniteSubsetsOfFinite
<1>3. T # {}
  OBVIOUS
<1>4. \E X \in T : \A Y \in T : <<Y, X>> \notin StrictSubsetOrdering(S)
  <2> HIDE DEF T
  <2> QED  BY <1>1, <1>2, <1>3, WFMin
<1>5. PICK x \in S : \A y \in S : <<Above(y), Above(x)>> \notin StrictSubsetOrdering(S)
  BY <1>4
<1>6. ASSUME NEW y \in S, ~(x >= y) PROVE FALSE
  <2>0. x \in Int /\ y \in Int /\ y > x /\ ~(y > y)
    BY <1>6
  <2>1. Above(y) \subseteq Above(x) /\ Above(y) # Above(x)
    <3>1. \A z \in S : z > y => z > x
      BY <2>0
    <3>2. Above(y) \subseteq Above(x)
      BY <3>1
    <3>3. y \in Above(x) /\ y \notin Above(y)
      BY <2>0
    <3> QED  BY <3>2, <3>3
  <2>2. <<Above(y), Above(x)>> \in StrictSubsetOrdering(S)
    BY <2>1 DEF StrictSubsetOrdering
  <2> QED  BY <2>2, <1>5
<1> QED  BY <1>6

LEMMA SlotFinite == Slot \subseteq Int /\ IsFiniteSet(Slot) /\ NULL \notin Slot
BY FS_Interval, MaxJobsAssumption DEF Slot, NULL

\* A lookup returns NULL when no slot matches, and a slot that matches
\* otherwise.
LEMMA FirstFinds ==
    ASSUME NEW S, S \subseteq Slot
    PROVE  /\ S = {} => First(S) = NULL
           /\ S # {} => First(S) \in S
           /\ First(S) \in Slot \cup {NULL}
<1>1. IsFiniteSet(S) /\ S \subseteq Int
  BY SlotFinite, FS_Subset
<1>2. S # {} => \E x \in S : \A y \in S : x <= y
  BY <1>1, SmallestExists
<1> QED  BY <1>2 DEF First

\* maxjid is a number at least as large as every number on the list.
LEMMA MaxjidBounds ==
    ASSUME NEW list, \A i \in Slot : list[i].jid \in Nat
    PROVE  /\ maxjid(list) \in Nat
           /\ \A i \in Slot : list[i].jid <= maxjid(list)
           /\ \/ maxjid(list) = 0
              \/ \E i \in Slot : list[i].jid = maxjid(list)
<1> DEFINE J == {list[i].jid : i \in Slot}
           f == [i \in Slot |-> list[i].jid]
<1>1. IsFiniteSet(J)
  <2>1. f \in Surjection(Slot, J)
    BY DEF Surjection
  <2> QED  BY <2>1, SlotFinite, FS_Surjection
<1>2. IsFiniteSet({0} \cup J)
  BY <1>1, FS_AddElement
<1>3. {0} \cup J \subseteq Int /\ {0} \cup J # {}
  OBVIOUS
<1>4. \E x \in {0} \cup J : \A y \in {0} \cup J : x >= y
  BY <1>2, <1>3, LargestExists
<1>5. /\ maxjid(list) \in {0} \cup J
      /\ \A y \in {0} \cup J : maxjid(list) >= y
  BY <1>4 DEF maxjid, Max
<1> QED  BY <1>5

(***************************************************************************)
(* What each helper returns and does.                                      *)
(***************************************************************************)

\* getjobpid returns a slot of the process, or NULL when it is not listed.
LEMMA GetjobpidFinds ==
    ASSUME NEW p \in Pid
    PROVE  \/ getjobpid(p) = NULL /\ \A i \in Slot : jobs[i].pid # p
           \/ getjobpid(p) \in Slot /\ jobs[getjobpid(p)].pid = p
<1> DEFINE S == {i \in Slot : jobs[i].pid = p}
<1>1. getjobpid(p) = First(S)
  BY DEF getjobpid
<1>2. CASE S = {}
  BY <1>1, <1>2, FirstFinds
<1>3. CASE S # {}
  BY <1>1, <1>3, FirstFinds
<1> QED  BY <1>2, <1>3

\* The slot addjob takes is an empty one.
LEMMA FreeslotIsFree ==
    freeslot # NULL => freeslot \in Slot /\ jobs[freeslot].pid = NoPid
<1> DEFINE S == {i \in Slot : jobs[i].pid = NoPid}
<1>1. freeslot = First(S)
  BY DEF freeslot
<1>2. S # {} => First(S) \in S
  BY FirstFinds
<1>3. S = {} => First(S) = NULL
  BY FirstFinds
<1> QED  BY <1>1, <1>2, <1>3

\* addjob gives the job the first empty slot and the next number.
LEMMA AddjobKeepsType ==
    ASSUME ListTypeOK, NEW p, NEW state \in JobState, addjob(p, state)
    PROVE  ListTypeOK'
<1>1. CASE p \in Pid /\ freeslot # NULL
  <2>1. [pid |-> p, jid |-> nextjid, state |-> state] \in Job
    BY <1>1 DEF Job, ListTypeOK
  <2>2. jobs' \in [Slot -> Job]
    BY <1>1, <2>1, FreeslotIsFree DEF addjob, ListTypeOK
  <2>3. nextjid' \in Nat \ {0}
    BY <1>1 DEF addjob, ListTypeOK
  <2> QED  BY <2>2, <2>3 DEF ListTypeOK
<1>2. CASE ~(p \in Pid /\ freeslot # NULL)
  BY <1>2 DEF addjob, ListTypeOK
<1> QED  BY <1>1, <1>2

\* deletejob empties one slot and restarts the numbering above the rest.
LEMMA DeletejobKeepsType ==
    ASSUME ListTypeOK, NEW p \in Pid, deletejob(p)
    PROVE  ListTypeOK'
<1>1. CASE getjobpid(p) # NULL
  <2>1. cleared \in Job
    BY DEF cleared, Job, JobState
  <2>2. jobs' \in [Slot -> Job]
    BY <1>1, <2>1, GetjobpidFinds DEF deletejob, ListTypeOK
  <2>3. maxjid(jobs') \in Nat
    BY <2>2, MaxjidBounds DEF Job
  <2>4. nextjid' \in Nat \ {0}
    BY <1>1, <2>3 DEF deletejob
  <2> QED  BY <2>2, <2>4 DEF ListTypeOK
<1>2. CASE getjobpid(p) = NULL
  BY <1>2 DEF deletejob, ListTypeOK
<1> QED  BY <1>1, <1>2

\* A write of a state keeps the rest of the slot.
LEMMA SetstateKeepsType ==
    ASSUME ListTypeOK, NEW i \in Slot, NEW state \in JobState, setstate(i, state)
    PROVE  ListTypeOK'
BY DEF setstate, ListTypeOK, Job

(***************************************************************************)
(* The numbering.  deletejob renumbers above what is left, so only the     *)
(* wrap-around in addjob can put the next number below one in use, and the *)
(* job that made it wrap is then the witness.                              *)
(***************************************************************************)
LEMMA AddjobNumbers ==
    ASSUME ListTypeOK, \A i \in Slot \ live : jobs[i].jid = 0, NextAboveUnlessWrapped,
           NEW p, NEW state \in JobState, addjob(p, state)
    PROVE  NextAboveUnlessWrapped'
<1>1. CASE ~(p \in Pid /\ freeslot # NULL)
  BY <1>1 DEF addjob, NextAboveUnlessWrapped, maxjid
<1>2. CASE p \in Pid /\ freeslot # NULL
  <2>0. /\ \A i \in Slot : jobs[i].jid \in Nat
        /\ \A i \in Slot : jobs'[i].jid \in Nat
        /\ maxjid(jobs) \in Nat /\ \A i \in Slot : jobs[i].jid <= maxjid(jobs)
        /\ maxjid(jobs') \in Nat /\ \A i \in Slot : jobs'[i].jid <= maxjid(jobs')
        /\ maxjid(jobs') = 0 \/ \E i \in Slot : jobs'[i].jid = maxjid(jobs')
        /\ nextjid \in Nat \ {0} /\ MAXJOBS \in Nat
    <3>1. \A i \in Slot : jobs[i].jid \in Nat
      BY DEF ListTypeOK, Job
    <3>2. \A i \in Slot : jobs'[i].jid \in Nat
      BY AddjobKeepsType DEF ListTypeOK, Job
    <3> QED  BY <3>1, <3>2, MaxjidBounds, MaxJobsAssumption DEF ListTypeOK
  <2>1. freeslot \in Slot
    BY <1>2, FreeslotIsFree
  <2>2. /\ jobs'[freeslot].jid = nextjid
        /\ \A i \in Slot : i # freeslot => jobs'[i] = jobs[i]
    BY <1>2, <2>1 DEF addjob, ListTypeOK
  <2>3. nextjid' = IF nextjid + 1 > MAXJOBS THEN 1 ELSE nextjid + 1
    BY <1>2 DEF addjob
  <2>4. CASE nextjid >= MAXJOBS
    <3>1. maxjid(jobs') >= nextjid
      BY <2>0, <2>1, <2>2
    <3> QED  BY <2>0, <2>4, <3>1 DEF NextAboveUnlessWrapped
  <2>5. CASE nextjid < MAXJOBS /\ nextjid > maxjid(jobs)
    <3>1. \A i \in Slot : jobs'[i].jid <= nextjid
      BY <2>0, <2>2, <2>5
    <3>2. maxjid(jobs') <= nextjid
      BY <2>0, <3>1
    <3> QED  BY <2>0, <2>3, <2>5, <3>2 DEF NextAboveUnlessWrapped
  <2>6. CASE nextjid < MAXJOBS /\ ~(nextjid > maxjid(jobs))
    <3>1. maxjid(jobs) >= MAXJOBS /\ maxjid(jobs) # 0
      BY <2>0, <2>6, MaxJobsAssumption DEF NextAboveUnlessWrapped
    <3>2. PICK i \in Slot : jobs[i].jid = maxjid(jobs)
      BY <2>0, <3>1, MaxjidBounds
    <3>3. i # freeslot
      BY <1>2, <3>1, <3>2, FreeslotIsFree DEF live
    <3> QED  BY <2>0, <2>2, <3>1, <3>2, <3>3 DEF NextAboveUnlessWrapped
  <2> QED  BY <2>0, <2>4, <2>5, <2>6
<1> QED  BY <1>1, <1>2

LEMMA DeletejobNumbers ==
    ASSUME ListTypeOK, NextAboveUnlessWrapped, NEW p \in Pid, deletejob(p)
    PROVE  NextAboveUnlessWrapped'
<1>1. CASE getjobpid(p) = NULL
  BY <1>1 DEF deletejob, NextAboveUnlessWrapped, maxjid
<1>2. CASE getjobpid(p) # NULL
  <2>1. maxjid(jobs') \in Nat
    BY DeletejobKeepsType, MaxjidBounds DEF ListTypeOK, Job
  <2> QED  BY <1>2, <2>1 DEF deletejob, NextAboveUnlessWrapped
<1> QED  BY <1>1, <1>2

LEMMA SetstateNumbers ==
    ASSUME ListTypeOK, NextAboveUnlessWrapped, NEW i, NEW state, setstate(i, state)
    PROVE  NextAboveUnlessWrapped'
<1>1. \A k \in Slot : jobs'[k].jid = jobs[k].jid
  BY DEF setstate, ListTypeOK, Job
<1>2. maxjid(jobs') = maxjid(jobs)
  BY <1>1 DEF maxjid
<1> QED  BY <1>2 DEF setstate, NextAboveUnlessWrapped

-----------------------------------------------------------------------------

(***************************************************************************)
(* Where the main line is, what it is evaluating and whether it has the    *)
(* signals blocked go together.  eval's mask covers fork and addjob, and   *)
(* sigchld_handler is never active under it.                               *)
(***************************************************************************)
Control ==
    /\ blocked <=> pc \in Launching
    /\ pc \in Launching => cmd \in {"fgrun", "bgrun", "pipe"}
    /\ pc \in {"fork2", "add2"} => cmd = "pipe"
    /\ pc \in {"b_test", "b_kill", "b_set"} => cmd \in {"fg", "bg"}
    /\ pc = "fg_ptr" => cmd = "fg"
    /\ pc = "setfg" => cmd = "fgrun"
    /\ pc \in Waiting => cmd \in {"fgrun", "pipe", "pipe2", "fg"}
    /\ blocked => ~inchld

TypeInv == TypeOK /\ Control

LEMMA SignalKeepsType ==
    ASSUME TypeOK, NEW S, S \subseteq Pid, NEW sig \in {INT, TSTP}, Signal(S, sig)
    PROVE  /\ child' \in [Pid -> ChildState]
           /\ cpend' \in [Pid -> SUBSET {INT, TSTP}]
           /\ unseen' \in [Pid -> BOOLEAN]
<1>1. \A p \in Pid : After(p, sig) \in ChildState
  BY DEF TypeOK, After, ChildState
<1>2. child' \in [Pid -> ChildState]
  BY <1>1 DEF Signal, TypeOK
<1>3. cpend' \in [Pid -> SUBSET {INT, TSTP}]
  BY DEF Signal, TypeOK
<1>4. unseen' \in [Pid -> BOOLEAN]
  BY DEF Signal, TypeOK
<1> QED  BY <1>2, <1>3, <1>4

LEMMA GetjobpidType == \A p : getjobpid(p) \in Slot \cup {NULL}
<1> SUFFICES ASSUME NEW p PROVE getjobpid(p) \in Slot \cup {NULL}
  OBVIOUS
<1> DEFINE S == {i \in Slot : jobs[i].pid = p}
<1>1. First(S) \in Slot \cup {NULL}
  BY FirstFinds
<1> QED  BY <1>1 DEF getjobpid

LEMMA GetjobjidType == \A j : getjobjid(j) \in Slot \cup {NULL}
<1> SUFFICES ASSUME NEW j PROVE getjobjid(j) \in Slot \cup {NULL}
  OBVIOUS
<1> DEFINE S == {i \in Slot : jobs[i].jid = j}
<1>1. First(S) \in Slot \cup {NULL}
  BY FirstFinds
<1> QED  BY <1>1 DEF getjobjid

(***************************************************************************)
(* Every action keeps the types and the control.  The actions that change  *)
(* the job list use the lemmas above.                                      *)
(***************************************************************************)
LEMMA TypeStep == TypeInv /\ [Next]_vars => TypeInv'
<1> SUFFICES ASSUME TypeInv, [Next]_vars PROVE TypeInv'
  OBVIOUS
<1> USE DEF TypeInv, Control, Launching, Waiting, Label, PidOf, Ended,
            At, Up, Goto, Prompt, Wake, End, main, kernel, vars
<1>1. ASSUME NEW p \in Pid \cup {ForkFail}, Fork1(p) PROVE TypeInv'
  BY <1>1 DEF Fork1, NewPid, TypeOK, ListTypeOK, ChildState
<1>2. ASSUME NEW p \in Pid \cup {ForkFail}, Fork2(p) PROVE TypeInv'
  BY <1>2 DEF Fork2, NewPid, TypeOK, ListTypeOK, ChildState
<1>3. CASE Add1
  <2>1. ListTypeOK'
    BY <1>3, AddjobKeepsType DEF Add1, TypeOK, JobState
  <2> QED  BY <1>3, <2>1 DEF Add1, TypeOK
<1>4. CASE Add2
  <2>1. ListTypeOK'
    BY <1>4, AddjobKeepsType DEF Add2, TypeOK, JobState
  <2> QED  BY <1>4, <2>1 DEF Add2, TypeOK
<1>5. CASE Unblock
  BY <1>5 DEF Unblock, TypeOK, ListTypeOK
<1>6. CASE SetFg
  BY <1>6 DEF SetFg, TypeOK, ListTypeOK
<1>7. CASE TestStopped
  BY <1>7 DEF TestStopped, TypeOK, ListTypeOK
<1>8. CASE Continue
  <2>1. child' \in [Pid -> ChildState]
    BY <1>8 DEF Continue, Cont, TypeOK, ChildState
  <2>2. cpend' \in [Pid -> SUBSET {INT, TSTP}]
    BY <1>8 DEF Continue, Cont, TypeOK
  <2>3. unseen' \in [Pid -> BOOLEAN]
    BY <1>8 DEF Continue, Cont, TypeOK
  <2>4. pend' \subseteq {INT, TSTP, CHLD}
    BY <1>8 DEF Continue, Cont, TypeOK
  <2> QED  BY <1>8, <2>1, <2>2, <2>3, <2>4 DEF Continue, TypeOK, ListTypeOK
<1>9. CASE SetState
  <2>1. ListTypeOK'
    BY <1>9 DEF SetState, setstate, TypeOK, ListTypeOK, Job, JobState
  <2> QED  BY <1>9, <2>1 DEF SetState, TypeOK
<1>10. CASE SetPtr
  BY <1>10 DEF SetPtr, TypeOK, ListTypeOK
<1>11. CASE WaitGet
  BY <1>11, GetjobpidType DEF WaitGet, TypeOK, ListTypeOK
<1>12. CASE WaitCheck
  BY <1>12 DEF WaitCheck, TypeOK, ListTypeOK
<1>13. CASE WaitLoop
  BY <1>13 DEF WaitLoop, TypeOK, ListTypeOK
<1>14. CASE Suspend
  BY <1>14 DEF Suspend, TypeOK, ListTypeOK
<1>15. CASE WaitReturn
  BY <1>15 DEF WaitReturn, TypeOK, ListTypeOK
<1>16. CASE ChldHandler
  BY <1>16 DEF ChldHandler, Deliverable, TypeOK, ListTypeOK
<1>17. CASE ChldReturn
  <2>1. UNCHANGED <<jobs, nextjid, sh, pc, cmd, pid1, pid2, job, fg_proc,
                    blocked, pend, child, cpend, unseen>>
    BY <1>17 DEF ChldReturn
  <2>2. inchld' \in BOOLEAN
    BY <1>17 DEF ChldReturn
  <2>3. TypeOK'
    BY <2>1, <2>2 DEF TypeOK, ListTypeOK
  <2>4. Control'
    BY <1>17, <2>1 DEF ChldReturn, TypeOK
  <2> QED  BY <2>3, <2>4
<1>18. ASSUME NEW p \in Pid, Reap(p) PROVE TypeInv'
  <2>1. ListTypeOK'
    BY <1>18, DeletejobKeepsType DEF Reap, TypeOK
  <2> QED  BY <1>18, <2>1 DEF Reap, Handling, TypeOK, ChildState
<1>19. ASSUME NEW p \in Pid, NoteStop(p) PROVE TypeInv'
  <2>1. ListTypeOK'
    BY <1>19 DEF NoteStop, setstate, TypeOK, ListTypeOK, Job, JobState
  <2> QED  BY <1>19, <2>1 DEF NoteStop, Handling, TypeOK
<1>20. ASSUME NEW sig \in {INT, TSTP}, TtyHandler(sig) PROVE TypeInv'
  <2>1. CASE fg_proc = NULL
    BY <1>20, <2>1 DEF TtyHandler, TypeOK, ListTypeOK
  <2>2. CASE fg_proc # NULL
    <3>1. PICK S : S \subseteq Pid /\ Signal(S, sig)
                   /\ pend' \subseteq pend \cup {CHLD}
      BY <1>20, <2>2 DEF TtyHandler, ShellGroup, Group, ChldFor
    <3>2. /\ child' \in [Pid -> ChildState]
          /\ cpend' \in [Pid -> SUBSET {INT, TSTP}]
          /\ unseen' \in [Pid -> BOOLEAN]
      BY <3>1, SignalKeepsType
    <3>3. pend' \subseteq {INT, TSTP, CHLD}
      BY <3>1 DEF TypeOK
    <3> QED  BY <1>20, <2>2, <3>2, <3>3 DEF TtyHandler, Deliverable, TypeOK, ListTypeOK
  <2> QED  BY <2>1, <2>2
<1>21. ASSUME NEW c \in Commands, Launch(c) PROVE TypeInv'
  BY <1>21 DEF Launch, TypeOK, ListTypeOK
<1>22. ASSUME NEW c \in Commands, NEW jid, Builtin(c, jid) PROVE TypeInv'
  BY <1>22, GetjobjidType DEF Builtin, TypeOK, ListTypeOK
<1>23. ASSUME NEW sig \in {INT, TSTP}, Type(sig) PROVE TypeInv'
  <2>1. /\ child' \in [Pid -> ChildState]
        /\ cpend' \in [Pid -> SUBSET {INT, TSTP}]
        /\ unseen' \in [Pid -> BOOLEAN]
    BY <1>23, SignalKeepsType DEF Type, ShellGroup
  <2> QED  BY <1>23, <2>1 DEF Type, TypeOK, ListTypeOK
<1>24. CASE Quit
  BY <1>24 DEF Quit, TypeOK, ListTypeOK
<1>25. ASSUME NEW p \in Pid, ChildStart(p) PROVE TypeInv'
  BY <1>25 DEF ChildStart, Setpgid, ChildUnblock, Exec, TypeOK, ListTypeOK, ChildState
<1>26. ASSUME NEW p \in Pid, Die(p) PROVE TypeInv'
  BY <1>26 DEF Die, TypeOK, ListTypeOK, ChildState
<1>27. ASSUME NEW p \in Pid, Stop(p) PROVE TypeInv'
  BY <1>27 DEF Stop, TypeOK, ListTypeOK, ChildState
<1>28. CASE Gone \/ UNCHANGED vars
  BY <1>28 DEF Gone, TypeOK, ListTypeOK
<1> QED
  BY <1>1, <1>2, <1>3, <1>4, <1>5, <1>6, <1>7, <1>8, <1>9, <1>10, <1>11, <1>12,
     <1>13, <1>14, <1>15, <1>16, <1>17, <1>18, <1>19, <1>20, <1>21, <1>22, <1>23,
     <1>24, <1>25, <1>26, <1>27, <1>28
  DEF Next, MainStep, ChldStep, User

LEMMA TypeInvariant == Spec => []TypeInv
<1>1. Init => TypeInv
  <2> SUFFICES ASSUME Init PROVE TypeInv
    OBVIOUS
  <2>1. ListTypeOK
    BY DEF Init, initjobs, ListTypeOK, Job, cleared, JobState
  <2>2. blocked \in BOOLEAN /\ inchld \in BOOLEAN /\ unseen \in [Pid -> BOOLEAN]
    BY DEF Init
  <2>3. TypeOK
    BY <2>1, <2>2 DEF Init, TypeOK, Label, PidOf, ChildState
  <2>4. Control
    BY DEF Init, Control, Launching, Waiting
  <2> QED  BY <2>3, <2>4 DEF TypeInv
<1> QED  BY <1>1, TypeStep, PTL DEF Spec

\* The types of every variable of the shell, in every reachable state.
THEOREM TypeCorrect == Spec => []TypeOK
BY TypeInvariant, PTL DEF TypeInv

(***************************************************************************)
(* The job list and the kernel.  What the mask buys: between fork and      *)
(* addjob sigchld_handler cannot run, so the child is still there, and not *)
(* yet listed, when addjob lists it.                                       *)
(***************************************************************************)
Fresh ==
    /\ pc \in {"fork2", "add1"} /\ pid1 \in Pid =>
          child[pid1] # "none" /\ ~Listed(pid1)
    /\ pc = "add2" \/ (pc = "add1" /\ cmd = "pipe") =>
          (pid2 \in Pid => child[pid2] # "none" /\ ~Listed(pid2))
    /\ pc = "add1" /\ cmd = "pipe" /\ pid1 \in Pid => pid1 # pid2

ChildInv == JobsAreChildren /\ Fresh

\* Processes are neither made nor reaped, and no slot changes hands.
Quiet ==
    /\ \A i \in Slot : jobs'[i].pid = jobs[i].pid
    /\ \A p \in Pid : child'[p] = "none" <=> child[p] = "none"
    /\ \/ UNCHANGED <<pc, cmd, pid1, pid2>>
       \/ pc' \notin {"fork2", "add1", "add2"}

LEMMA QuietKeeps == TypeOK /\ ChildInv /\ Quiet => ChildInv'
<1> SUFFICES ASSUME TypeOK, ChildInv, Quiet PROVE ChildInv'
  OBVIOUS
<1>0. \A i \in live : jobs[i].pid \in Pid
  BY DEF live, TypeOK, ListTypeOK, Job
<1>1. live' = live
  BY DEF Quiet, live
<1>2. JobsAreChildren'
  BY <1>0, <1>1 DEF ChildInv, JobsAreChildren, Quiet, live
<1>3. \A p : Listed(p)' <=> Listed(p)
  BY DEF Quiet, Listed
<1>4. Fresh'
  BY <1>3 DEF ChildInv, Fresh, Quiet
<1> QED  BY <1>2, <1>4 DEF ChildInv

\* A signal neither makes nor reaps a process.
LEMMA SignalIsQuiet ==
    ASSUME TypeOK, NEW S, NEW sig, Signal(S, sig)
    PROVE  \A p \in Pid : child'[p] = "none" <=> child[p] = "none"
<1>1. \A p \in Pid : After(p, sig) = "none" <=> child[p] = "none"
  BY DEF After
<1> QED  BY <1>1 DEF Signal, TypeOK

\* addjob lists the process it is given, or changes nothing.
LEMMA AddjobLists ==
    ASSUME TypeOK, ChildInv, NEW p \in Pid, NEW state, addjob(p, state),
           UNCHANGED child, child[p] # "none", ~Listed(p)
    PROVE  /\ JobsAreChildren'
           /\ \A q : Listed(q)' /\ q # p => Listed(q) \/ q = NoPid
<1>1. CASE freeslot # NULL
  <2>1. freeslot \in Slot
    BY <1>1, FreeslotIsFree
  <2>2. /\ jobs'[freeslot].pid = p
        /\ \A i \in Slot : i # freeslot => jobs'[i] = jobs[i]
    BY <1>1, <2>1 DEF addjob, TypeOK, ListTypeOK
  <2> QED  BY <2>1, <2>2 DEF ChildInv, JobsAreChildren, Listed, live
<1>2. CASE freeslot = NULL
  BY <1>2 DEF addjob, ChildInv, JobsAreChildren, Listed, live
<1> QED  BY <1>1, <1>2

\* deletejob takes the process off the list and leaves the others.
LEMMA DeletejobUnlists ==
    ASSUME TypeOK, JobsAreChildren, NEW p \in Pid, deletejob(p)
    PROVE  /\ ~Listed(p)'
           /\ \A i \in Slot : jobs'[i] = jobs[i] \/ jobs'[i] = cleared
           /\ \A i \in Slot : jobs[i].pid # p => jobs'[i] = jobs[i]
<1>1. CASE getjobpid(p) # NULL
  <2>1. getjobpid(p) \in Slot /\ jobs[getjobpid(p)].pid = p
    BY <1>1, GetjobpidFinds
  <2>2. \A i \in Slot : jobs'[i] = IF i = getjobpid(p) THEN cleared ELSE jobs[i]
    BY <1>1, <2>1 DEF deletejob, TypeOK, ListTypeOK
  <2>3. \A i \in Slot : jobs[i].pid = p => i = getjobpid(p)
    BY <2>1, PidAssumption DEF JobsAreChildren, live
  <2>4. cleared.pid # p
    BY PidAssumption DEF cleared
  <2> QED  BY <2>1, <2>2, <2>3, <2>4 DEF Listed
<1>2. CASE getjobpid(p) = NULL
  BY <1>2, GetjobpidFinds, SlotFinite DEF deletejob, Listed
<1> QED  BY <1>1, <1>2

LEMMA ChildInvStep == TypeInv /\ ChildInv /\ [Next]_vars => ChildInv'
<1> SUFFICES ASSUME TypeInv, ChildInv, [Next]_vars PROVE ChildInv'
  OBVIOUS
<1>0. TypeOK /\ Control /\ JobsAreChildren
  BY DEF TypeInv, ChildInv
<1>q. ASSUME Quiet PROVE ChildInv'
  BY <1>0, <1>q, QuietKeeps
<1> USE DEF At, Goto, Prompt, Wake, End, main, kernel
<1>1. ASSUME NEW p \in Pid \cup {ForkFail}, Fork1(p) PROVE ChildInv'
  <2>1. jobs' = jobs /\ pid1' = p /\ pc' # "add2" /\ (pc' = "add1" => cmd' # "pipe")
    BY <1>1 DEF Fork1
  <2>2. CASE p \in Pid
    <3>1. child[p] = "none" /\ child' = [child EXCEPT ![p] = "forked"]
      BY <1>1, <2>2, PidAssumption DEF Fork1, NewPid
    <3>2. \A i \in live : child[jobs[i].pid] # "none" /\ jobs[i].pid # p
      BY <3>1, <1>0 DEF JobsAreChildren
    <3>3. ~Listed(p)
      BY <2>2, <3>2, PidAssumption DEF Listed, live
    <3>4. JobsAreChildren'
      BY <1>0, <2>1, <3>1, <3>2 DEF JobsAreChildren, live, TypeOK
    <3>5. Fresh'
      BY <1>0, <2>1, <2>2, <3>1, <3>3 DEF Fresh, Listed, TypeOK
    <3> QED  BY <3>4, <3>5 DEF ChildInv
  <2>3. CASE p \notin Pid
    <3>1. UNCHANGED child
      BY <1>1, <2>3 DEF Fork1, NewPid
    <3>2. JobsAreChildren'
      BY <1>0, <2>1, <3>1 DEF JobsAreChildren, live
    <3>3. Fresh'
      BY <2>1, <2>3 DEF Fresh
    <3> QED  BY <3>2, <3>3 DEF ChildInv
  <2> QED  BY <2>2, <2>3
<1>2. ASSUME NEW p \in Pid \cup {ForkFail}, Fork2(p) PROVE ChildInv'
  <2>1. jobs' = jobs /\ pid2' = p /\ pid1' = pid1 /\ pc = "fork2" /\ pc' = "add1"
    BY <1>2 DEF Fork2
  <2>2. CASE p \in Pid
    <3>1. child[p] = "none" /\ child' = [child EXCEPT ![p] = "forked"]
      BY <1>2, <2>2, PidAssumption DEF Fork2, NewPid
    <3>2. \A i \in live : child[jobs[i].pid] # "none" /\ jobs[i].pid # p
      BY <3>1, <1>0 DEF JobsAreChildren
    <3>3. ~Listed(p)
      BY <2>2, <3>2, PidAssumption DEF Listed, live
    <3>4. JobsAreChildren'
      BY <1>0, <2>1, <3>1, <3>2 DEF JobsAreChildren, live, TypeOK
    <3>5. pid1 \in Pid => child[pid1] # "none" /\ ~Listed(pid1)
      BY <2>1 DEF ChildInv, Fresh
    <3>6. Fresh'
      BY <1>0, <2>1, <2>2, <3>1, <3>3, <3>5 DEF Fresh, Listed, TypeOK
    <3> QED  BY <3>4, <3>6 DEF ChildInv
  <2>3. CASE p \notin Pid
    <3>1. UNCHANGED child
      BY <1>2, <2>3 DEF Fork2, NewPid
    <3>2. JobsAreChildren'
      BY <1>0, <2>1, <3>1 DEF JobsAreChildren, live
    <3>3. Fresh'
      BY <2>1, <2>3, <3>1 DEF ChildInv, Fresh, Listed
    <3> QED  BY <3>2, <3>3 DEF ChildInv
  <2> QED  BY <2>2, <2>3
<1>3. CASE Add1
  <2>1. /\ addjob(pid1, IF cmd = "bgrun" THEN BG ELSE FG)
        /\ UNCHANGED <<child, cmd, pid1, pid2>>
        /\ pc = "add1"
        /\ pc' = IF cmd = "pipe" THEN "add2" ELSE "unblock"
    BY <1>3 DEF Add1
  <2>2. CASE pid1 \in Pid
    <3>1. child[pid1] # "none" /\ ~Listed(pid1)
      BY <2>1, <2>2 DEF ChildInv, Fresh
    <3>2. /\ JobsAreChildren'
          /\ \A q : Listed(q)' /\ q # pid1 => Listed(q) \/ q = NoPid
      BY <1>0, <2>1, <2>2, <3>1, AddjobLists
    <3>3. Fresh'
      BY <2>1, <2>2, <3>2, PidAssumption DEF ChildInv, Fresh
    <3> QED  BY <3>2, <3>3 DEF ChildInv
  <2>3. CASE pid1 \notin Pid
    <3>1. UNCHANGED jobs
      BY <2>1, <2>3 DEF addjob
    <3> QED  BY <1>0, <2>1, <3>1 DEF ChildInv, JobsAreChildren, Fresh, Listed, live
  <2> QED  BY <2>2, <2>3
<1>4. CASE Add2
  <2>1. addjob(pid2, FG) /\ UNCHANGED child /\ pc = "add2" /\ pc' = "unblock"
    BY <1>4 DEF Add2
  <2>2. Fresh'
    BY <2>1 DEF Fresh
  <2>3. CASE pid2 \in Pid
    <3>1. child[pid2] # "none" /\ ~Listed(pid2)
      BY <2>1, <2>3 DEF ChildInv, Fresh
    <3>2. JobsAreChildren'
      BY <1>0, <2>1, <2>3, <3>1, AddjobLists
    <3> QED  BY <2>2, <3>2 DEF ChildInv
  <2>4. CASE pid2 \notin Pid
    <3>1. UNCHANGED jobs
      BY <2>1, <2>4 DEF addjob
    <3> QED  BY <1>0, <2>1, <2>2, <3>1 DEF ChildInv, JobsAreChildren, live
  <2> QED  BY <2>3, <2>4
<1>5. ASSUME NEW p \in Pid, Reap(p) PROVE ChildInv'
  <2>1. deletejob(p) /\ child' = [child EXCEPT ![p] = "none"] /\ inchld
        /\ UNCHANGED <<pc, cmd, pid1, pid2>>
    BY <1>5 DEF Reap, Handling
  <2>2. pc \notin {"fork2", "add1", "add2"}
    BY <1>0, <2>1 DEF Control, Launching
  <2>3. Fresh'
    BY <2>1, <2>2 DEF Fresh
  <2>4. /\ ~Listed(p)'
        /\ \A i \in Slot : jobs'[i] = jobs[i] \/ jobs'[i] = cleared
    BY <1>0, <2>1, DeletejobUnlists
  <2>5. \A i \in live' : jobs'[i] = jobs[i] /\ jobs'[i].pid # p /\ i \in live
    BY <2>4 DEF live, cleared, Listed
  <2>6. JobsAreChildren'
    BY <1>0, <2>1, <2>5 DEF JobsAreChildren, TypeOK
  <2> QED  BY <2>3, <2>6 DEF ChildInv
<1>6. CASE Unblock \/ SetFg \/ TestStopped \/ SetPtr \/ WaitGet \/ WaitCheck
              \/ WaitLoop \/ Suspend \/ WaitReturn
  <2>1. UNCHANGED <<jobs, child>>
    BY <1>6 DEF Unblock, SetFg, TestStopped, SetPtr, WaitGet, WaitCheck, WaitLoop,
                Suspend, WaitReturn
  <2>2. CASE Unblock
    BY <1>0, <2>1, <2>2, <1>q DEF Quiet, Unblock, Control, Launching
  <2>3. CASE SetFg \/ TestStopped \/ SetPtr \/ WaitGet \/ WaitCheck
    BY <2>1, <2>3, <1>q DEF Quiet, SetFg, TestStopped, SetPtr, WaitGet, WaitCheck
  <2>4. CASE WaitLoop \/ Suspend \/ WaitReturn
    BY <2>1, <2>4, <1>q DEF Quiet, WaitLoop, Suspend, WaitReturn
  <2> QED  BY <1>6, <2>2, <2>3, <2>4
<1>7. CASE Continue
  <2>1. \A p \in Pid : child'[p] = "none" <=> child[p] = "none"
    BY <1>0, <1>7 DEF Continue, Cont, TypeOK
  <2> QED  BY <1>7, <2>1, <1>q DEF Quiet, Continue
<1>8. CASE SetState
  <2>1. \A i \in Slot : jobs'[i].pid = jobs[i].pid
    BY <1>0, <1>8 DEF SetState, setstate, TypeOK, ListTypeOK, Job
  <2> QED  BY <1>8, <2>1, <1>q DEF Quiet, SetState
<1>9. CASE ChldHandler \/ ChldReturn
  BY <1>9, <1>q DEF Quiet, ChldHandler, ChldReturn
<1>10. ASSUME NEW p \in Pid, NoteStop(p) PROVE ChildInv'
  <2>1. \A i \in Slot : jobs'[i].pid = jobs[i].pid
    BY <1>0, <1>10 DEF NoteStop, setstate, TypeOK, ListTypeOK, Job
  <2> QED  BY <1>10, <2>1, <1>q DEF Quiet, NoteStop
<1>11. ASSUME NEW sig \in {INT, TSTP}, TtyHandler(sig) PROVE ChildInv'
  <2>1. jobs' = jobs /\ UNCHANGED <<cmd, pid1, pid2>>
        /\ (pc' = pc \/ pc' = "wf_loop")
    BY <1>11 DEF TtyHandler
  <2>2. \A p \in Pid : child'[p] = "none" <=> child[p] = "none"
    BY <1>0, <1>11, SignalIsQuiet DEF TtyHandler
  <2> QED  BY <2>1, <2>2, <1>q DEF Quiet
<1>12. ASSUME NEW sig \in {INT, TSTP}, Type(sig) PROVE ChildInv'
  <2>1. \A p \in Pid : child'[p] = "none" <=> child[p] = "none"
    BY <1>0, <1>12, SignalIsQuiet DEF Type
  <2> QED  BY <1>12, <2>1, <1>q DEF Quiet, Type
<1>13. ASSUME NEW c \in Commands, Launch(c) PROVE ChildInv'
  BY <1>13, <1>q DEF Quiet, Launch
<1>14. ASSUME NEW c \in Commands, NEW jid, Builtin(c, jid) PROVE ChildInv'
  BY <1>14, <1>q DEF Quiet, Builtin
<1>15. ASSUME NEW p \in Pid, ChildStart(p) \/ Die(p) \/ Stop(p) PROVE ChildInv'
  <2>1. \A r \in Pid : child'[r] = "none" <=> child[r] = "none"
    BY <1>0, <1>15 DEF ChildStart, Setpgid, ChildUnblock, Exec, Die, Stop, TypeOK
  <2>2. jobs' = jobs /\ UNCHANGED <<pc, cmd, pid1, pid2>>
    BY <1>15 DEF ChildStart, Setpgid, ChildUnblock, Exec, Die, Stop
  <2> QED  BY <2>1, <2>2, <1>q DEF Quiet
<1>16. CASE Quit \/ Gone \/ UNCHANGED vars
  BY <1>16, <1>q DEF Quiet, Quit, Gone, vars
<1> QED
  BY <1>1, <1>2, <1>3, <1>4, <1>5, <1>6, <1>7, <1>8, <1>9, <1>10, <1>11, <1>12,
     <1>13, <1>14, <1>15, <1>16
  DEF Next, MainStep, ChldStep, User

LEMMA ChildInvariant == Spec => []ChildInv
<1>1. Init => ChildInv
  BY DEF Init, initjobs, ChildInv, JobsAreChildren, Fresh, live, cleared
<1> QED  BY <1>1, ChildInvStep, TypeInvariant, PTL DEF Spec

\* Every process on the job list exists and is there once.
THEOREM JobsAreChildrenCorrect == Spec => []JobsAreChildren
BY ChildInvariant, PTL DEF ChildInv

(***************************************************************************)
(* No report is lost.  Whatever makes a child a zombie or stops it also    *)
(* raises SIGCHLD, and the handler gives the signal up only by finding     *)
(* nothing left to report.                                                 *)
(***************************************************************************)

\* A signal that gives waitpid something to report raises SIGCHLD.
LEMMA SignalReports ==
    ASSUME TypeOK, NEW S, NEW sig, Signal(S, sig), CHLD \notin ChldFor(S)
    PROVE  ToReport' \subseteq ToReport
<1> SUFFICES ASSUME NEW p \in Pid, child'[p] = "zombie" \/ unseen'[p]
             PROVE  child[p] = "zombie" \/ unseen[p]
  BY DEF ToReport
<1>1. p \in S => child[p] \notin {"open", "run"}
  BY DEF ChldFor
<1>2. child'[p] = child[p]
  BY <1>1 DEF Signal, After, TypeOK
<1>3. unseen'[p] <=> unseen[p]
  BY <1>1 DEF Signal, TypeOK
<1> QED  BY <1>2, <1>3

LEMMA ReportStep == TypeInv /\ NoReportLost /\ [Next]_vars => NoReportLost'
<1> SUFFICES ASSUME TypeInv, NoReportLost, [Next]_vars, Up', ToReport' # {}
             PROVE  CHLD \in pend' \/ inchld'
  BY DEF NoReportLost
<1>0. TypeOK
  BY DEF TypeInv
<1>q. ASSUME ToReport' \subseteq ToReport, Up' => Up, pend \subseteq pend',
             inchld => inchld'
      PROVE  CHLD \in pend' \/ inchld'
  BY <1>q DEF NoReportLost
<1> USE DEF main, kernel, Up
<1>1. ASSUME NEW p \in Pid \cup {ForkFail}, Fork1(p) \/ Fork2(p)
      PROVE  CHLD \in pend' \/ inchld'
  <2>1. ToReport' \subseteq ToReport
    <3>1. \A r \in Pid : child'[r] = child[r] \/ child'[r] = "forked"
      BY <1>0, <1>1 DEF Fork1, Fork2, NewPid, TypeOK
    <3>2. unseen' = unseen
      BY <1>1 DEF Fork1, Fork2, NewPid
    <3> QED  BY <3>1, <3>2 DEF ToReport
  <2>2. UNCHANGED <<sh, pend, inchld>>
    BY <1>1 DEF Fork1, Fork2
  <2> QED  BY <2>1, <2>2, <1>q
<1>2. CASE Add1 \/ Add2 \/ Unblock \/ SetFg \/ TestStopped \/ SetState \/ SetPtr
  <2>1. UNCHANGED <<sh, pend, inchld, child, unseen>>
    BY <1>2 DEF Add1, Add2, Unblock, SetFg, TestStopped, SetState, SetPtr
  <2> QED  BY <2>1, <1>q DEF ToReport
<1>3. CASE WaitGet \/ WaitCheck \/ WaitLoop \/ Suspend \/ WaitReturn
  BY <1>3, <1>q DEF WaitGet, WaitCheck, WaitLoop, Suspend, WaitReturn, End, At, ToReport
<1>4. CASE Continue
  <2>1. UNCHANGED <<sh, inchld>> /\ Cont(jobs[job].pid)
    BY <1>4 DEF Continue
  <2>2. CASE CHLD \in pend'
    BY <2>2
  <2>3. CASE CHLD \notin pend'
    <3>1. {p \in Group(jobs[job].pid) : child[p] = "stopped"} = {} /\ pend' = pend
      BY <2>1, <2>3 DEF Cont
    <3>2. child' = child
      BY <1>0, <2>1, <3>1 DEF Cont, TypeOK
    <3>3. \A p \in Pid : unseen'[p] => unseen[p]
      BY <2>1 DEF Cont
    <3>4. ToReport' \subseteq ToReport
      BY <3>2, <3>3 DEF ToReport
    <3> QED  BY <2>1, <3>1, <3>4, <1>q
  <2> QED  BY <2>2, <2>3
<1>5. CASE ChldHandler
  BY <1>5 DEF ChldHandler
<1>6. CASE ChldReturn
  BY <1>6 DEF ChldReturn, ToReport
<1>7. ASSUME NEW p \in Pid, Reap(p) \/ NoteStop(p) PROVE CHLD \in pend' \/ inchld'
  BY <1>7 DEF Reap, NoteStop, Handling
<1>8. ASSUME NEW sig \in {INT, TSTP}, TtyHandler(sig) PROVE CHLD \in pend' \/ inchld'
  <2>1. fg_proc # NULL
    BY <1>8 DEF TtyHandler, End
  <2>2. PICK S : /\ Signal(S, sig)
                 /\ (pend \ {sig}) \cup ChldFor(S) \subseteq pend'
    BY <1>8, <2>1 DEF TtyHandler
  <2>3. sig # CHLD /\ UNCHANGED <<sh, inchld>>
    BY <1>8, <2>1 DEF TtyHandler, INT, TSTP, CHLD
  <2>4. CASE CHLD \in ChldFor(S)
    BY <2>2, <2>4
  <2>5. CASE CHLD \notin ChldFor(S)
    <3>1. ToReport' \subseteq ToReport
      BY <1>0, <2>2, <2>5, SignalReports
    <3>2. CHLD \in pend \/ inchld
      BY <2>3, <3>1 DEF NoReportLost
    <3> QED  BY <2>2, <2>3, <3>2
  <2> QED  BY <2>4, <2>5
<1>9. ASSUME NEW sig \in {INT, TSTP}, Type(sig) PROVE CHLD \in pend' \/ inchld'
  <2>1. CHLD \notin ChldFor(ShellGroup)
    BY DEF ChldFor, ShellGroup
  <2>2. ToReport' \subseteq ToReport
    BY <1>0, <1>9, <2>1, SignalReports DEF Type
  <2> QED  BY <1>9, <2>2, <1>q DEF Type
<1>10. ASSUME NEW c \in Commands, Launch(c) PROVE CHLD \in pend' \/ inchld'
  BY <1>10, <1>q DEF Launch, ToReport
<1>11. ASSUME NEW c \in Commands, NEW jid, Builtin(c, jid)
       PROVE  CHLD \in pend' \/ inchld'
  BY <1>11, <1>q DEF Builtin, ToReport
<1>12. ASSUME NEW p \in Pid, ChildStart(p) PROVE CHLD \in pend' \/ inchld'
  <2>1. CASE ChildUnblock(p) /\ cpend[p] # {}
    BY <2>1 DEF ChildUnblock
  <2>2. CASE Setpgid(p) \/ Exec(p) \/ (ChildUnblock(p) /\ cpend[p] = {})
    <3>1. \A r \in Pid : child'[r] = child[r] \/ child'[r] \in {"own", "open", "run"}
      BY <1>0, <2>2 DEF Setpgid, Exec, ChildUnblock, TypeOK
    <3>2. UNCHANGED <<sh, inchld, pend, unseen>>
      BY <2>2 DEF Setpgid, Exec, ChildUnblock
    <3>3. ToReport' \subseteq ToReport
      BY <3>1, <3>2 DEF ToReport
    <3> QED  BY <3>2, <3>3, <1>q
  <2> QED  BY <1>12, <2>1, <2>2 DEF ChildStart
<1>13. ASSUME NEW p \in Pid, Die(p) \/ Stop(p) PROVE CHLD \in pend' \/ inchld'
  BY <1>13 DEF Die, Stop
<1>14. CASE Quit \/ Gone \/ UNCHANGED vars
  BY <1>14, <1>q DEF Quit, End, Gone, vars, ToReport
<1> QED
  BY <1>1, <1>2, <1>3, <1>4, <1>5, <1>6, <1>7, <1>8, <1>9, <1>10, <1>11, <1>12,
     <1>13, <1>14
  DEF Next, MainStep, ChldStep, User

\* A child that ended or stopped is always about to be reported: SIGCHLD is
\* pending or its handler is running.
THEOREM NoReportLostCorrect == Spec => []NoReportLost
<1>1. Init => NoReportLost
  BY DEF Init, NoReportLost, ToReport
<1> QED  BY <1>1, ReportStep, TypeInvariant, PTL DEF Spec

(***************************************************************************)
(* A step is one of the main line, one of sigchld_handler's writes to the  *)
(* list, or leaves the main line and the list alone.                       *)
(***************************************************************************)
Aside == /\ UNCHANGED <<jobs, cmd, pid1, pid2, job, fg_proc>>
         /\ pc' = pc \/ (pc = "asleep" /\ pc' = "wf_loop")

MainLine == \/ MainStep
            \/ \E c \in Commands : Launch(c)
            \/ \E c \in Commands : \E jid : Builtin(c, jid)

LEMMA StepKinds ==
    ASSUME [Next]_vars
    PROVE  MainLine \/ Aside \/ \E p \in Pid : Reap(p) \/ NoteStop(p)
<1> USE DEF Wake, End, main, kernel
<1>1. ASSUME ChldHandler \/ ChldReturn \/ Quit \/ Gone \/ UNCHANGED vars PROVE Aside
  BY <1>1 DEF Aside, ChldHandler, ChldReturn, Quit, Gone, vars
<1>2. ASSUME NEW sig \in {INT, TSTP}, TtyHandler(sig) \/ Type(sig) PROVE Aside
  BY <1>2 DEF Aside, TtyHandler, Type
<1>3. ASSUME NEW p \in Pid, ChildStart(p) \/ Die(p) \/ Stop(p) PROVE Aside
  BY <1>3 DEF Aside, ChildStart, Setpgid, ChildUnblock, Exec, Die, Stop
<1> QED  BY <1>1, <1>2, <1>3 DEF Next, ChldStep, User, MainLine

\* What sigchld_handler writes: the slot of a child that ended is cleared, that
\* of one that stopped gets its state.
HandlerWrites(p) ==
    /\ UNCHANGED <<pc, cmd, pid1, pid2, job, fg_proc>>
    /\ \A i \in Slot : \/ jobs'[i] = jobs[i]
                       \/ jobs[i].pid = p /\ jobs'[i] = cleared
                       \/ jobs[i].pid = p /\ jobs'[i].pid = p /\ jobs'[i].state = ST
    /\ (\E i \in Slot : jobs[i].pid = p /\ jobs'[i] = cleared) => ~Listed(p)'

LEMMA HandlerStep ==
    ASSUME TypeInv, ChildInv, NEW p \in Pid, Reap(p) \/ NoteStop(p)
    PROVE  HandlerWrites(p)
<1>0. TypeOK /\ JobsAreChildren
  BY DEF TypeInv, ChildInv
<1>1. UNCHANGED <<pc, cmd, pid1, pid2, job, fg_proc>>
  BY DEF Reap, NoteStop, main
<1>2. CASE Reap(p)
  <2>1. /\ ~Listed(p)'
        /\ \A i \in Slot : jobs'[i] = jobs[i] \/ jobs'[i] = cleared
        /\ \A i \in Slot : jobs[i].pid # p => jobs'[i] = jobs[i]
    BY <1>0, <1>2, DeletejobUnlists DEF Reap
  <2> QED  BY <1>1, <2>1 DEF HandlerWrites
<1>3. CASE NoteStop(p) /\ getjobpid(p) = NULL
  BY <1>1, <1>3, PidAssumption DEF NoteStop, HandlerWrites, cleared
<1>4. CASE NoteStop(p) /\ getjobpid(p) # NULL
  <2>1. getjobpid(p) \in Slot /\ jobs[getjobpid(p)].pid = p
    BY <1>4, GetjobpidFinds
  <2>2. setstate(getjobpid(p), ST)
    BY <1>4 DEF NoteStop
  <2>3. \A i \in Slot : jobs'[i].pid = jobs[i].pid
    BY <1>0, <2>1, <2>2 DEF setstate, TypeOK, ListTypeOK, Job
  <2>4. \A i \in Slot : jobs'[i] = jobs[i] \/ (i = getjobpid(p) /\ jobs'[i].state = ST)
    BY <1>0, <2>1, <2>2 DEF setstate, TypeOK, ListTypeOK, Job
  <2>5. ~\E i \in Slot : jobs[i].pid = p /\ jobs'[i] = cleared
    BY <2>3, PidAssumption DEF cleared
  <2> QED  BY <1>1, <2>1, <2>3, <2>4, <2>5 DEF HandlerWrites
<1> QED  BY <1>2, <1>3, <1>4

(***************************************************************************)
(* The slot waitfg polls holds the process waitfg was called for until     *)
(* sigchld_handler clears it, and then that process is on no other slot.   *)
(***************************************************************************)
Polling == {"wf_chk", "wf_loop", "wf_susp", "asleep", "wf_ret"}

KeepsSlot ==
    /\ pc \in {"b_test", "b_kill", "b_set", "fg_ptr"} => job \in Slot
    /\ pc \in Polling => /\ job \in Slot
                         /\ jobs[job].pid \in {WaitPid, NoPid}
                         /\ Listed(WaitPid) => jobs[job].pid = WaitPid

LEMMA KeepsSlotStep == TypeInv /\ ChildInv /\ KeepsSlot /\ [Next]_vars => KeepsSlot'
<1> SUFFICES ASSUME TypeInv, ChildInv, KeepsSlot, [Next]_vars PROVE KeepsSlot'
  OBVIOUS
<1>0. TypeOK /\ Control
  BY DEF TypeInv
<1>c. pc \in Polling => cmd \in {"fgrun", "pipe", "pipe2", "fg"}
  BY <1>0 DEF Control, Waiting, Polling
<1> DEFINE Bs == {"b_test", "b_kill", "b_set", "fg_ptr"}
<1>q. ASSUME pc \in Polling \/ pc' \notin Polling, pc \in Bs \/ pc' \notin Bs,
             UNCHANGED <<jobs, cmd, pid1, pid2, job>>
      PROVE  KeepsSlot'
  BY <1>q DEF KeepsSlot, WaitPid, Listed
<1>n. ASSUME pc' \notin Polling \cup Bs PROVE KeepsSlot'
  BY <1>n DEF KeepsSlot
<1>1. CASE Aside
  BY <1>1, <1>q DEF Aside, Polling
<1>2. ASSUME NEW p \in Pid, Reap(p) \/ NoteStop(p) PROVE KeepsSlot'
  <2>1. HandlerWrites(p)
    BY <1>2, HandlerStep
  <2> SUFFICES ASSUME pc \in Polling
               PROVE  /\ job \in Slot
                      /\ jobs'[job].pid \in {WaitPid', NoPid}
                      /\ Listed(WaitPid)' => jobs'[job].pid = WaitPid'
    BY <2>1 DEF HandlerWrites, KeepsSlot
  <2>2. job \in Slot /\ jobs[job].pid \in {WaitPid, NoPid}
        /\ (Listed(WaitPid) => jobs[job].pid = WaitPid)
    BY DEF KeepsSlot
  <2>3. CASE cmd = "fg"
    BY <2>1, <2>2, <2>3 DEF HandlerWrites, WaitPid
  <2>4. CASE cmd # "fg"
    <3>1. WaitPid' = WaitPid
      BY <1>c, <2>1, <2>4 DEF HandlerWrites, WaitPid
    <3>2. \A q : Listed(q)' => Listed(q) \/ q = NoPid
      BY <2>1 DEF HandlerWrites, Listed, cleared
    <3>3. CASE jobs[job].pid = p /\ jobs'[job] = cleared
      BY <2>1, <2>2, <3>1, <3>3, PidAssumption DEF HandlerWrites, cleared
    <3>4. CASE jobs'[job].pid = jobs[job].pid
      BY <2>2, <3>1, <3>2, <3>4
    <3> QED  BY <2>1, <2>2, <3>3, <3>4 DEF HandlerWrites
  <2> QED  BY <2>3, <2>4
<1>3. CASE WaitGet
  <2>1. CASE getjobpid(WaitPid) = NULL
    BY <1>3, <2>1, <1>q DEF WaitGet, End, main, At, Polling
  <2>2. CASE getjobpid(WaitPid) # NULL
    <3>1. WaitPid \in Pid
      BY <2>2 DEF getjobpid
    <3>2. getjobpid(WaitPid) \in Slot /\ jobs[getjobpid(WaitPid)].pid = WaitPid
      BY <2>2, <3>1, GetjobpidFinds
    <3>3. job' = getjobpid(WaitPid) /\ UNCHANGED <<jobs, cmd, pid1, pid2>>
      BY <1>3, <2>2 DEF WaitGet
    <3>4. cmd \in {"fgrun", "pipe", "pipe2", "fg"}
      BY <1>0, <1>3 DEF WaitGet, At, Control, Waiting
    <3>5. WaitPid' = WaitPid
      BY <3>2, <3>3, <3>4 DEF WaitPid
    <3> QED  BY <3>2, <3>3, <3>5 DEF KeepsSlot
  <2> QED  BY <2>1, <2>2
<1>4. CASE WaitCheck \/ WaitLoop \/ Suspend
  BY <1>4, <1>q DEF WaitCheck, WaitLoop, Suspend, Goto, End, main, At, Polling
<1>5. CASE WaitReturn \/ SetFg \/ SetPtr
  BY <1>5, <1>n DEF WaitReturn, SetFg, SetPtr, Goto, Prompt, Polling
<1>6. CASE TestStopped \/ Continue \/ SetState
  <2>1. job \in Slot
    BY <1>6 DEF TestStopped, Continue, SetState, At, KeepsSlot
  <2>2. pc' \notin Polling /\ (pc' \in Bs => job' = job)
    BY <1>6 DEF TestStopped, Continue, SetState, Goto, Prompt, Polling
  <2> QED  BY <2>1, <2>2 DEF KeepsSlot
<1>7. CASE Unblock
  BY <1>0, <1>7, <1>n DEF Unblock, At, Goto, Prompt, Control, Launching, Polling
<1>8. CASE Add1 \/ Add2
  BY <1>8, <1>n DEF Add1, Add2, Goto, Polling
<1>9. ASSUME NEW p \in Pid \cup {ForkFail}, Fork1(p) \/ Fork2(p) PROVE KeepsSlot'
  BY <1>9, <1>n DEF Fork1, Fork2, Polling
<1>10. ASSUME NEW c \in Commands, Launch(c) PROVE KeepsSlot'
  BY <1>10, <1>n DEF Launch, Polling
<1>11. ASSUME NEW c \in Commands, NEW jid, Builtin(c, jid) PROVE KeepsSlot'
  BY <1>11, GetjobjidType DEF Builtin, KeepsSlot, Polling
<1> QED
  BY <1>1, <1>2, <1>3, <1>4, <1>5, <1>6, <1>7, <1>8, <1>9, <1>10, <1>11, StepKinds
  DEF MainLine, MainStep

LEMMA KeepsSlotInvariant == Spec => []KeepsSlot
<1>1. Init => KeepsSlot
  BY DEF Init, KeepsSlot, Polling
<1> QED  BY <1>1, KeepsSlotStep, TypeInvariant, ChildInvariant, PTL DEF Spec

\* waitfg never looks at a slot that has gone to another process.
THEOREM WaitsForItsOwnCorrect == Spec => []WaitsForItsOwn
<1>1. KeepsSlot => WaitsForItsOwn
  BY DEF KeepsSlot, WaitsForItsOwn, Polling
<1> QED  BY <1>1, KeepsSlotInvariant, PTL

(***************************************************************************)
(* Stopped jobs.  A stopped child runs again by a SIGCONT of do_bg or      *)
(* do_fg only, and they write the new state next; nothing else can come    *)
(* between but sigchld_handler, for other jobs or a further stop.          *)
(***************************************************************************)

\* Children that have stopped or ended stay so.
Settled == \A p \in Pid : child[p] \in {"stopped", "zombie"} => child'[p] \in {"stopped", "zombie"}

LEMMA SignalSettles ==
    ASSUME TypeOK, NEW S, NEW sig, Signal(S, sig)
    PROVE  Settled
<1>1. \A p \in Pid : child[p] \in {"stopped", "zombie"} => After(p, sig) = child[p]
  BY DEF After
<1> QED  BY <1>1 DEF Signal, Settled, TypeOK

LEMMA SettledStep ==
    ASSUME TypeOK, [Next]_vars
    PROVE  Settled \/ Continue \/ \E p \in Pid : Reap(p)
<1> USE DEF End, main, kernel
<1>1. ASSUME NEW p \in Pid \cup {ForkFail}, Fork1(p) \/ Fork2(p) PROVE Settled
  BY <1>1 DEF Fork1, Fork2, NewPid, Settled, TypeOK
<1>2. CASE Add1 \/ Add2 \/ Unblock \/ SetFg \/ TestStopped \/ SetState \/ SetPtr
  BY <1>2 DEF Add1, Add2, Unblock, SetFg, TestStopped, SetState, SetPtr, Settled
<1>3. CASE WaitGet \/ WaitCheck \/ WaitLoop \/ Suspend \/ WaitReturn
  BY <1>3 DEF WaitGet, WaitCheck, WaitLoop, Suspend, WaitReturn, Settled
<1>4. CASE ChldHandler \/ ChldReturn \/ Quit \/ Gone \/ UNCHANGED vars
  BY <1>4 DEF ChldHandler, ChldReturn, Quit, Gone, vars, Settled
<1>5. ASSUME NEW p \in Pid, NoteStop(p) PROVE Settled
  BY <1>5 DEF NoteStop, Settled
<1>6. ASSUME NEW sig \in {INT, TSTP}, TtyHandler(sig) \/ Type(sig) PROVE Settled
  <2>1. CASE UNCHANGED child
    BY <2>1 DEF Settled
  <2>2. CASE \E S : Signal(S, sig)
    BY <2>2, SignalSettles
  <2> QED  BY <1>6, <2>1, <2>2 DEF TtyHandler, Type
<1>7. ASSUME NEW c \in Commands, NEW jid, Launch(c) \/ Builtin(c, jid) PROVE Settled
  BY <1>7 DEF Launch, Builtin, Settled
<1>8. ASSUME NEW p \in Pid, ChildStart(p) \/ Die(p) \/ Stop(p) PROVE Settled
  BY <1>8 DEF ChildStart, Setpgid, ChildUnblock, Exec, Die, Stop, Settled, TypeOK
<1> QED
  BY <1>1, <1>2, <1>3, <1>4, <1>5, <1>6, <1>7, <1>8
  DEF Next, MainStep, ChldStep, User

\* A call of addjob writes one slot, an empty one, or none.
LEMMA AddjobWrites ==
    ASSUME TypeOK, NEW p, NEW state, addjob(p, state)
    PROVE  \A i \in Slot : \/ jobs'[i] = jobs[i]
                           \/ jobs[i].pid = NoPid /\ jobs'[i].pid = p /\ jobs'[i].state = state
<1>1. CASE freeslot # NULL
  BY <1>1, FreeslotIsFree DEF addjob, TypeOK, ListTypeOK
<1>2. CASE freeslot = NULL
  BY <1>2 DEF addjob
<1> QED  BY <1>1, <1>2

LEMMA StoppedStep ==
    TypeInv /\ ChildInv /\ KeepsSlot /\ StoppedJobsAreStopped /\ [Next]_vars
        => StoppedJobsAreStopped'
<1> SUFFICES ASSUME TypeInv, ChildInv, KeepsSlot, StoppedJobsAreStopped, [Next]_vars,
                    NEW i \in Slot, jobs'[i].state = ST
             PROVE  /\ i \in live'
                    /\ \/ child'[jobs'[i].pid] \in {"stopped", "zombie"}
                       \/ pc' = "b_set" /\ job' = i
  BY DEF StoppedJobsAreStopped, live
<1>0. TypeOK /\ Control /\ JobsAreChildren
  BY DEF TypeInv, ChildInv
<1>s. jobs[i].state = ST => /\ i \in live /\ jobs[i].pid \in Pid
                            /\ \/ child[jobs[i].pid] \in {"stopped", "zombie"}
                               \/ pc = "b_set" /\ job = i
  BY <1>0 DEF StoppedJobsAreStopped, live, TypeOK, ListTypeOK, Job
<1> DEFINE Goal == /\ i \in live'
                   /\ \/ child'[jobs'[i].pid] \in {"stopped", "zombie"}
                      \/ pc' = "b_set" /\ job' = i
<1>q. ASSUME Settled, jobs'[i] = jobs[i], pc = "b_set" /\ job = i => pc' = "b_set" /\ job' = i
      PROVE  Goal
  BY <1>q, <1>s DEF Settled, live
<1>1. CASE Aside /\ Settled
  BY <1>1, <1>q DEF Aside
<1>2. ASSUME NEW p \in Pid, Reap(p) PROVE Goal
  <2>1. /\ ~Listed(p)' /\ child' = [child EXCEPT ![p] = "none"]
        /\ jobs'[i] = jobs[i] \/ jobs'[i] = cleared
    BY <1>0, <1>2, DeletejobUnlists DEF Reap
  <2>2. jobs'[i] = jobs[i]
    BY <2>1 DEF cleared, ST, UNDEF
  <2>3. jobs[i].pid # p
    BY <2>1, <2>2 DEF Listed
  <2>4. child'[jobs[i].pid] = child[jobs[i].pid] /\ UNCHANGED <<pc, job>>
    BY <1>0, <1>2, <1>s, <2>1, <2>2, <2>3 DEF Reap, TypeOK, main
  <2> QED  BY <1>s, <2>2, <2>4 DEF live
<1>3. ASSUME NEW p \in Pid, NoteStop(p) PROVE Goal
  <2>1. UNCHANGED <<child, pc, job>> /\ child[p] = "stopped"
    BY <1>3 DEF NoteStop, main
  <2>2. CASE jobs'[i] = jobs[i]
    BY <1>s, <2>1, <2>2 DEF live
  <2>3. CASE jobs'[i].pid = p
    BY <2>1, <2>3, PidAssumption DEF live
  <2>4. HandlerWrites(p)
    BY <1>3, HandlerStep
  <2> QED  BY <2>2, <2>3, <2>4 DEF HandlerWrites, cleared, ST, UNDEF
<1>4. CASE Continue
  <2>1. /\ UNCHANGED <<jobs, job>> /\ pc = "b_kill" /\ pc' = "b_set" /\ job \in Slot
        /\ Cont(jobs[job].pid)
    BY <1>4 DEF Continue, Goto, At, KeepsSlot
  <2>2. \A p \in Pid : p # jobs[job].pid => child'[p] = child[p]
    BY <2>1 DEF Cont, Group
  <2>3. CASE i = job
    BY <1>s, <2>1, <2>3 DEF live
  <2>4. CASE i # job
    <3>1. jobs[i].pid # jobs[job].pid
      BY <1>0, <1>s, <2>1, <2>4 DEF JobsAreChildren, live
    <3> QED  BY <1>s, <2>1, <2>2, <3>1 DEF live
  <2> QED  BY <2>3, <2>4
<1>5. CASE SetState
  <2>1. job \in Slot /\ UNCHANGED child /\ pc = "b_set"
    BY <1>5 DEF SetState, At, KeepsSlot, kernel
  <2>2. PICK state \in {FG, BG} : setstate(job, state)
    BY <1>5 DEF SetState
  <2>3. i # job
    BY <1>0, <2>1, <2>2 DEF setstate, TypeOK, ListTypeOK, Job, ST, FG, BG
  <2>4. jobs'[i] = jobs[i]
    BY <1>0, <2>2, <2>3 DEF setstate, TypeOK, ListTypeOK
  <2> QED  BY <1>s, <2>1, <2>3, <2>4 DEF live
<1>6. CASE Add1 \/ Add2
  <2>1. ASSUME NEW p, NEW state \in {FG, BG}, addjob(p, state) PROVE jobs'[i] = jobs[i]
    BY <1>0, <2>1, AddjobWrites DEF ST, FG, BG
  <2>2. jobs'[i] = jobs[i]
    BY <1>6, <2>1 DEF Add1, Add2
  <2>3. Settled /\ pc # "b_set"
    BY <1>6 DEF Add1, Add2, Settled, kernel, At
  <2> QED  BY <1>q, <2>2, <2>3
<1>7. CASE MainLine /\ Settled /\ jobs' = jobs /\ pc # "b_set"
  BY <1>7, <1>q
<1>8. MainLine => SetState \/ Continue \/ Add1 \/ Add2 \/ (jobs' = jobs /\ pc # "b_set")
  <2> USE DEF At, End
  <2>1. ASSUME NEW p \in Pid \cup {ForkFail}, Fork1(p) \/ Fork2(p) PROVE jobs' = jobs /\ pc # "b_set"
    BY <2>1 DEF Fork1, Fork2
  <2>2. CASE Unblock \/ SetFg \/ TestStopped \/ SetPtr
    BY <2>2 DEF Unblock, SetFg, TestStopped, SetPtr
  <2>3. CASE WaitGet \/ WaitCheck \/ WaitLoop \/ Suspend \/ WaitReturn
    BY <2>3 DEF WaitGet, WaitCheck, WaitLoop, Suspend, WaitReturn
  <2>4. ASSUME NEW c \in Commands, NEW jid, Launch(c) \/ Builtin(c, jid)
        PROVE  jobs' = jobs /\ pc # "b_set"
    BY <2>4 DEF Launch, Builtin
  <2> QED  BY <2>1, <2>2, <2>3, <2>4 DEF MainLine, MainStep
<1>9. Settled \/ Continue \/ \E p \in Pid : Reap(p)
  BY <1>0, SettledStep
<1> QED
  BY <1>1, <1>2, <1>3, <1>4, <1>5, <1>6, <1>7, <1>8, <1>9, StepKinds

\* A job listed as stopped is stopped, or dead and not yet reaped, or about to
\* be given another state.
THEOREM StoppedJobsAreStoppedCorrect == Spec => []StoppedJobsAreStopped
<1>1. Init => StoppedJobsAreStopped
  BY DEF Init, initjobs, StoppedJobsAreStopped, cleared, ST, UNDEF
<1> QED
  BY <1>1, StoppedStep, KeepsSlotInvariant, TypeInvariant, ChildInvariant, PTL DEF Spec

(***************************************************************************)
(* Every child has a job.  A job leaves the list only with the child that  *)
(* waitpid has returned, and addjob turns one away only when every slot is *)
(* taken.                                                                  *)
(***************************************************************************)
LEMMA FullWithoutFree == freeslot = NULL => live = Slot
<1> DEFINE S == {i \in Slot : jobs[i].pid = NoPid}
<1>1. freeslot = First(S)
  BY DEF freeslot
<1>2. S # {} => First(S) \in S
  BY FirstFinds
<1> QED  BY <1>1, <1>2, SlotFinite DEF live

\* What ChildrenAreJobs says of one step.
Kept == \A p \in Pid :
    child'[p] # "none" /\ (child[p] = "none" \/ Listed(p) \/ Starting(p)) =>
        \/ Listed(p)' \/ Starting(p)'
        \/ live = Slot /\ Add1 /\ p = pid1
        \/ live = Slot /\ Add2 /\ p = pid2

LEMMA KeptStep == TypeInv /\ ChildInv /\ [Next]_vars => Kept
<1> SUFFICES ASSUME TypeInv, ChildInv, [Next]_vars PROVE Kept
  OBVIOUS
<1>0. TypeOK /\ Control /\ JobsAreChildren
  BY DEF TypeInv, ChildInv
<1>q. ASSUME \A i \in Slot : jobs'[i].pid = jobs[i].pid,
             \A p \in Pid : child'[p] = "none" <=> child[p] = "none",
             UNCHANGED <<pc, cmd, pid1, pid2>> \/ pc \notin {"fork2", "add1", "add2"}
      PROVE  Kept
  BY <1>q DEF Kept, Starting, Listed
<1>1. ASSUME NEW p \in Pid \cup {ForkFail}, Fork1(p) PROVE Kept
  <2>1. jobs' = jobs /\ pid1' = p /\ pc = "fork1" /\ pc' \in {"fork2", "add1"}
    BY <1>1 DEF Fork1, At
  <2>2. \A q \in Pid : q # p => child'[q] = child[q]
    BY <1>0, <1>1 DEF Fork1, NewPid, TypeOK, kernel
  <2> QED  BY <2>1, <2>2 DEF Kept, Starting, Listed
<1>2. ASSUME NEW p \in Pid \cup {ForkFail}, Fork2(p) PROVE Kept
  <2>1. jobs' = jobs /\ pid2' = p /\ pid1' = pid1 /\ pc = "fork2" /\ pc' = "add1"
        /\ cmd = "pipe" /\ cmd' = "pipe"
    BY <1>0, <1>2 DEF Fork2, At, Control
  <2>2. \A q \in Pid : q # p => child'[q] = child[q]
    BY <1>0, <1>2 DEF Fork2, NewPid, TypeOK, kernel
  <2> QED  BY <2>1, <2>2 DEF Kept, Starting, Listed
<1>a. ASSUME NEW p, NEW state, addjob(p, state), UNCHANGED child,
             p \in Pid => child[p] # "none" /\ ~Listed(p)
      PROVE  /\ p \in Pid => live = Slot \/ \E i \in Slot : jobs'[i].pid = p
             /\ \A q \in Pid : Listed(q) => \E i \in Slot : jobs'[i].pid = q
  <2>1. CASE p \notin Pid
    BY <1>a, <2>1 DEF addjob, Listed
  <2>f. CASE freeslot = NULL
    <3>1. live = Slot
      BY <2>f, FullWithoutFree
    <3> QED  BY <1>a, <2>f, <3>1 DEF addjob, Listed
  <2>2. CASE p \in Pid /\ freeslot # NULL
    <3>1. freeslot \in Slot /\ jobs[freeslot].pid = NoPid
      BY <2>2, FreeslotIsFree
    <3>2. /\ jobs'[freeslot].pid = p
          /\ \A i \in Slot : i # freeslot => jobs'[i] = jobs[i]
      BY <1>0, <1>a, <2>2, <3>1, SlotFinite DEF addjob, TypeOK, ListTypeOK
    <3> QED  BY <3>1, <3>2, PidAssumption DEF Listed
  <2> QED  BY <2>1, <2>2, <2>f
<1>3. CASE Add1
  <2>1. /\ UNCHANGED child /\ UNCHANGED <<cmd, pid1, pid2>>
        /\ pc = "add1" /\ pc' = IF cmd = "pipe" THEN "add2" ELSE "unblock"
    BY <1>3 DEF Add1, At, Goto, kernel
  <2>2. pid1 \in Pid => child[pid1] # "none" /\ ~Listed(pid1)
    BY <2>1 DEF ChildInv, Fresh
  <2>3. addjob(pid1, BG) \/ addjob(pid1, FG)
    BY <1>3 DEF Add1
  <2>4. /\ pid1 \in Pid => live = Slot \/ \E i \in Slot : jobs'[i].pid = pid1
        /\ \A q \in Pid : Listed(q) => \E i \in Slot : jobs'[i].pid = q
    BY <1>a, <2>1, <2>2, <2>3
  <2> QED  BY <1>3, <2>1, <2>4 DEF Kept, Starting, Listed
<1>4. CASE Add2
  <2>1. addjob(pid2, FG) /\ UNCHANGED child /\ pc = "add2"
    BY <1>4 DEF Add2, At, kernel
  <2>2. pid2 \in Pid => child[pid2] # "none" /\ ~Listed(pid2)
    BY <2>1 DEF ChildInv, Fresh
  <2>3. /\ pid2 \in Pid => live = Slot \/ \E i \in Slot : jobs'[i].pid = pid2
        /\ \A q \in Pid : Listed(q) => \E i \in Slot : jobs'[i].pid = q
    BY <1>a, <2>1, <2>2
  <2> QED  BY <1>4, <2>1, <2>3 DEF Kept, Starting, Listed
<1>5. ASSUME NEW p \in Pid, Reap(p) PROVE Kept
  <2>1. /\ child' = [child EXCEPT ![p] = "none"] /\ inchld
        /\ \A i \in Slot : jobs[i].pid # p => jobs'[i] = jobs[i]
    BY <1>0, <1>5, DeletejobUnlists DEF Reap, Handling
  <2>2. pc \notin {"fork2", "add1", "add2"}
    BY <1>0, <2>1 DEF Control, Launching
  <2> QED  BY <1>0, <2>1, <2>2 DEF Kept, Starting, Listed, TypeOK
<1>6. ASSUME NEW p \in Pid, NoteStop(p) PROVE Kept
  <2>1. \A i \in Slot : jobs'[i].pid = jobs[i].pid
    BY <1>0, <1>6 DEF NoteStop, setstate, TypeOK, ListTypeOK, Job
  <2> QED  BY <1>6, <2>1, <1>q DEF NoteStop, main
<1>7. ASSUME UNCHANGED child, jobs' = jobs, pc \notin {"fork2", "add1", "add2"} PROVE Kept
  BY <1>7, <1>q
<1>8. CASE Unblock \/ SetFg \/ TestStopped \/ SetPtr \/ WaitGet \/ WaitCheck
              \/ WaitLoop \/ Suspend \/ WaitReturn
  BY <1>7, <1>8 DEF Unblock, SetFg, TestStopped, SetPtr, WaitGet, WaitCheck, WaitLoop,
                    Suspend, WaitReturn, At, End, kernel
<1>9. CASE Continue
  <2>1. \A p \in Pid : child'[p] = "none" <=> child[p] = "none"
    BY <1>0, <1>9 DEF Continue, Cont, TypeOK
  <2> QED  BY <1>9, <2>1, <1>q DEF Continue, At
<1>10. CASE SetState
  <2>1. \A i \in Slot : jobs'[i].pid = jobs[i].pid
    BY <1>0, <1>10 DEF SetState, setstate, TypeOK, ListTypeOK, Job
  <2> QED  BY <1>10, <2>1, <1>q DEF SetState, At, kernel
<1>11. ASSUME NEW c \in Commands, NEW jid, Launch(c) \/ Builtin(c, jid) PROVE Kept
  BY <1>7, <1>11 DEF Launch, Builtin, At, kernel
<1>12. CASE Aside
  <2>1. ASSUME \A p \in Pid : child'[p] = "none" <=> child[p] = "none" PROVE Kept
    <3>1. UNCHANGED <<pc, cmd, pid1, pid2>> \/ pc \notin {"fork2", "add1", "add2"}
      BY <1>12 DEF Aside
    <3> QED  BY <1>12, <2>1, <3>1, <1>q DEF Aside
  <2>2. ASSUME NEW sig \in {INT, TSTP}, TtyHandler(sig) \/ Type(sig) PROVE Kept
    <3>1. \A p \in Pid : child'[p] = "none" <=> child[p] = "none"
      BY <1>0, <2>2, SignalIsQuiet DEF TtyHandler, Type, End, kernel
    <3> QED  BY <2>1, <3>1
  <2>3. ASSUME NEW p \in Pid, ChildStart(p) \/ Die(p) \/ Stop(p) PROVE Kept
    BY <1>0, <2>1, <2>3 DEF ChildStart, Setpgid, ChildUnblock, Exec, Die, Stop, TypeOK
  <2>4. CASE ChldHandler \/ ChldReturn \/ Quit \/ Gone \/ UNCHANGED vars
    BY <2>1, <2>4 DEF ChldHandler, ChldReturn, Quit, Gone, vars, End, kernel
  <2> QED
    BY <2>2, <2>3, <2>4, <1>1, <1>2, <1>3, <1>4, <1>5, <1>6, <1>8, <1>9, <1>10, <1>11
    DEF Next, MainStep, ChldStep, User
<1> QED
  BY <1>1, <1>2, <1>3, <1>4, <1>5, <1>6, <1>8, <1>9, <1>10, <1>11, <1>12, StepKinds
  DEF MainLine, MainStep

\* A child gets a job and keeps it until it is reaped, unless every slot was
\* taken when eval added it; for every number of slots and of processes.
THEOREM ChildrenAreJobsCorrect == Spec => ChildrenAreJobs
<1>1. TypeInv /\ ChildInv /\ [Next]_vars => Kept
  BY KeptStep
<1>2. Spec => [][Kept]_vars
  BY <1>1, TypeInvariant, ChildInvariant, PTL DEF Spec
<1> QED  BY <1>2 DEF ChildrenAreJobs, Kept

(***************************************************************************)
(* Whole slots.  Every write to the list is addjob's, deletejob's or that  *)
(* of a state through a pointer to a slot.                                 *)
(***************************************************************************)
LEMMA ListSteps ==
    ASSUME TypeInv, KeepsSlot, [Next]_vars
    PROVE  \/ UNCHANGED <<jobs, nextjid>>
           \/ \E p \in PidOf, s \in {FG, BG} : addjob(p, s)
           \/ \E p \in Pid : deletejob(p)
           \/ \E i \in Slot, s \in {FG, BG, ST} : setstate(i, s)
<1> DEFINE Goal == \/ UNCHANGED <<jobs, nextjid>>
                   \/ \E p \in PidOf, s \in {FG, BG} : addjob(p, s)
                   \/ \E p \in Pid : deletejob(p)
                   \/ \E i \in Slot, s \in {FG, BG, ST} : setstate(i, s)
<1>0. TypeOK
  BY DEF TypeInv
<1> USE DEF End
<1>1. ASSUME NEW p \in Pid \cup {ForkFail}, Fork1(p) \/ Fork2(p) PROVE Goal
  BY <1>1 DEF Fork1, Fork2
<1>2. CASE Add1 \/ Add2
  BY <1>0, <1>2 DEF Add1, Add2, TypeOK
<1>3. CASE SetState
  BY <1>3 DEF SetState, At, KeepsSlot
<1>4. CASE Unblock \/ SetFg \/ TestStopped \/ Continue \/ SetPtr
  BY <1>4 DEF Unblock, SetFg, TestStopped, Continue, SetPtr
<1>5. CASE WaitGet \/ WaitCheck \/ WaitLoop \/ Suspend \/ WaitReturn
  BY <1>5 DEF WaitGet, WaitCheck, WaitLoop, Suspend, WaitReturn
<1>6. ASSUME NEW p \in Pid, Reap(p) PROVE Goal
  BY <1>6 DEF Reap
<1>7. ASSUME NEW p \in Pid, NoteStop(p) PROVE Goal
  BY <1>7, GetjobpidFinds DEF NoteStop
<1>8. ASSUME NEW c \in Commands, NEW jid, Launch(c) \/ Builtin(c, jid) PROVE Goal
  BY <1>8 DEF Launch, Builtin
<1>9. CASE Aside
  <2>1. ASSUME NEW sig \in {INT, TSTP}, TtyHandler(sig) \/ Type(sig) PROVE Goal
    BY <2>1 DEF TtyHandler, Type
  <2>2. ASSUME NEW p \in Pid, ChildStart(p) \/ Die(p) \/ Stop(p) PROVE Goal
    BY <2>2 DEF ChildStart, Setpgid, ChildUnblock, Exec, Die, Stop
  <2>3. CASE ChldHandler \/ ChldReturn \/ Quit \/ Gone \/ UNCHANGED vars
    BY <2>3 DEF ChldHandler, ChldReturn, Quit, Gone, vars
  <2> QED
    BY <2>1, <2>2, <2>3, <1>1, <1>2, <1>3, <1>4, <1>5, <1>6, <1>7, <1>8
    DEF Next, MainStep, ChldStep, User
<1> QED
  BY <1>1, <1>2, <1>3, <1>4, <1>5, <1>6, <1>7, <1>8, <1>9, StepKinds DEF MainLine, MainStep

\* What the three do to slots that are whole but for a state written late.
\* Late is the set of slots left with a state FG and no process.
Late == {i \in Slot \ live : jobs[i].state = FG}

Shape == /\ \A i \in live : jobs[i].jid > 0 /\ jobs[i].state # UNDEF
         /\ \A i \in Slot \ live : jobs[i].jid = 0 /\ jobs[i].state \in {UNDEF, BG, FG}

LEMMA AddjobShapes ==
    ASSUME ListTypeOK, Shape, NEW p, NEW s \in {FG, BG}, addjob(p, s)
    PROVE  Shape' /\ Late' \subseteq Late
<1>1. CASE p \in Pid /\ freeslot # NULL
  <2>1. freeslot \in Slot
    BY <1>1, FreeslotIsFree
  <2>2. /\ jobs'[freeslot] = [pid |-> p, jid |-> nextjid, state |-> s]
        /\ \A i \in Slot : i # freeslot => jobs'[i] = jobs[i]
    BY <1>1, <2>1 DEF addjob, ListTypeOK
  <2>3. p # NoPid /\ s # UNDEF /\ nextjid > 0
    BY <1>1, PidAssumption DEF ListTypeOK, FG, BG, UNDEF
  <2> QED  BY <2>1, <2>2, <2>3 DEF Shape, Late, live
<1>2. CASE ~(p \in Pid /\ freeslot # NULL)
  BY <1>2 DEF addjob, Shape, Late, live
<1> QED  BY <1>1, <1>2

LEMMA DeletejobShapes ==
    ASSUME ListTypeOK, Shape, NEW p \in Pid, deletejob(p)
    PROVE  Shape' /\ Late' \subseteq Late
<1>1. CASE getjobpid(p) # NULL
  <2>1. getjobpid(p) \in Slot
    BY <1>1, GetjobpidFinds
  <2>2. \A i \in Slot : jobs'[i] = IF i = getjobpid(p) THEN cleared ELSE jobs[i]
    BY <1>1, <2>1 DEF deletejob, ListTypeOK
  <2> QED  BY <2>2 DEF Shape, Late, live, cleared, FG, UNDEF
<1>2. CASE getjobpid(p) = NULL
  BY <1>2 DEF deletejob, Shape, Late, live
<1> QED  BY <1>1, <1>2

LEMMA SetstateShapes ==
    ASSUME ListTypeOK, Shape, NEW k \in Slot, NEW s \in {FG, BG, ST}, setstate(k, s),
           k \in live \/ s # ST
    PROVE  /\ Shape'
           /\ Late' \subseteq Late \cup {i \in {k} \ live : s = FG}
<1>1. \A i \in Slot : i # k => jobs'[i] = jobs[i]
  BY DEF setstate, ListTypeOK
<1>2. jobs'[k].pid = jobs[k].pid /\ jobs'[k].jid = jobs[k].jid /\ jobs'[k].state = s
  BY DEF setstate, ListTypeOK, Job
<1>3. s # UNDEF
  BY DEF FG, BG, ST, UNDEF
<1> QED  BY <1>1, <1>2, <1>3 DEF Shape, Late, live

LEMMA SlotsStep ==
    TypeInv /\ ChildInv /\ KeepsSlot /\ SlotsWhole /\ [Next]_vars => SlotsWhole'
<1> SUFFICES ASSUME TypeInv, ChildInv, KeepsSlot, SlotsWhole, [Next]_vars PROVE SlotsWhole'
  OBVIOUS
<1>0. TypeOK /\ Control /\ ListTypeOK
  BY DEF TypeInv, TypeOK
<1> DEFINE Held == \A i \in Late : cmd = "fg" /\ job = i /\ pc \in {"fg_ptr", "wf_get"}
<1>1. SlotsWhole <=> Shape /\ Held
  BY DEF SlotsWhole, Shape, Late, FG, BG, UNDEF
<1>2. Shape' /\ Held' => SlotsWhole'
  BY DEF SlotsWhole, Shape, Late
<1> SUFFICES Shape' /\ Held'
  BY <1>2
<1>3. Shape /\ Held
  BY <1>1
<1>q. ASSUME Late' \subseteq Late,
             UNCHANGED <<cmd, job>>,
             pc' = pc \/ (pc = "fg_ptr" /\ pc' = "wf_get") \/ pc \notin {"fg_ptr", "wf_get"}
      PROVE  Held'
  BY <1>3, <1>q
<1>n. ASSUME Late' \subseteq Late, pc \notin {"fg_ptr", "wf_get"} PROVE Held'
  BY <1>3, <1>n
<1>u. ASSUME UNCHANGED jobs PROVE Shape' /\ Late' = Late
  BY <1>3, <1>u DEF Shape, Late, live
<1> USE DEF At, Goto, End, main
<1>4. CASE Aside
  <2>1. Shape' /\ Late' = Late /\ UNCHANGED <<cmd, job>>
    BY <1>4, <1>u DEF Aside
  <2> QED  BY <1>4, <2>1, <1>q DEF Aside
<1>5. ASSUME NEW p \in Pid, Reap(p) PROVE Shape' /\ Held'
  <2>1. Shape' /\ Late' \subseteq Late
    BY <1>0, <1>3, <1>5, DeletejobShapes DEF Reap
  <2> QED  BY <1>5, <2>1, <1>q DEF Reap
<1>6. ASSUME NEW p \in Pid, NoteStop(p) PROVE Shape' /\ Held'
  <2>1. CASE getjobpid(p) = NULL
    <3>1. Shape' /\ Late' = Late
      BY <1>6, <2>1, <1>u DEF NoteStop
    <3> QED  BY <1>6, <3>1, <1>q DEF NoteStop
  <2>2. CASE getjobpid(p) # NULL
    <3>1. getjobpid(p) \in live
      BY <2>2, GetjobpidFinds, PidAssumption DEF live
    <3>2. Shape' /\ Late' \subseteq Late
      BY <1>0, <1>3, <1>6, <2>2, <3>1, SetstateShapes DEF NoteStop, live
    <3> QED  BY <1>6, <3>2, <1>q DEF NoteStop
  <2> QED  BY <2>1, <2>2
<1>7. CASE Add1 \/ Add2
  <2>1. Shape' /\ Late' \subseteq Late
    BY <1>0, <1>3, <1>7, AddjobShapes DEF Add1, Add2
  <2> QED  BY <1>7, <2>1, <1>n DEF Add1, Add2
<1>8. CASE SetState
  <2>1. job \in Slot
    BY <1>8 DEF SetState, KeepsSlot
  <2>2. CASE cmd = "fg"
    <3>1. setstate(job, FG) /\ pc' = "fg_ptr" /\ cmd' = "fg" /\ job' = job
      BY <1>8, <2>2 DEF SetState
    <3>2. Shape' /\ Late' \subseteq Late \cup {job}
      BY <1>0, <1>3, <2>1, <3>1, SetstateShapes DEF FG, ST
    <3>3. Late = {}
      BY <1>3, <1>8 DEF SetState
    <3> QED  BY <3>1, <3>2, <3>3
  <2>3. CASE cmd = "bg"
    <3>1. setstate(job, BG)
      BY <1>8, <2>3 DEF SetState
    <3>2. Shape' /\ Late' \subseteq Late
      BY <1>0, <1>3, <2>1, <3>1, SetstateShapes DEF FG, BG, ST
    <3> QED  BY <1>8, <3>2, <1>n DEF SetState
  <2> QED  BY <1>0, <1>8, <2>2, <2>3 DEF SetState, Control
<1>9. CASE WaitGet
  <2>1. CASE getjobpid(WaitPid) = NULL
    BY <1>9, <2>1, <1>q, <1>u DEF WaitGet
  <2>2. CASE getjobpid(WaitPid) # NULL
    <3>1. UNCHANGED <<jobs, cmd>>
      BY <1>9, <2>2 DEF WaitGet
    <3>2. cmd = "fg" => job \notin Late
      BY <2>2, PidAssumption DEF WaitPid, getjobpid, Late, live
    <3>3. Late = {}
      BY <1>3, <3>2
    <3> QED  BY <1>u, <3>1, <3>3
  <2> QED  BY <2>1, <2>2
<1>10. CASE SetPtr
  <2>1. UNCHANGED <<jobs, cmd, job>> /\ pc = "fg_ptr" /\ pc' = "wf_get"
    BY <1>10 DEF SetPtr
  <2> QED  BY <2>1, <1>q, <1>u
<1>11. CASE Unblock \/ SetFg \/ TestStopped \/ Continue
  <2>1. UNCHANGED jobs /\ pc \notin {"fg_ptr", "wf_get"}
    BY <1>11 DEF Unblock, SetFg, TestStopped, Continue
  <2> QED  BY <2>1, <1>n, <1>u
<1>12. CASE WaitCheck \/ WaitLoop \/ Suspend \/ WaitReturn
  <2>1. UNCHANGED jobs /\ pc \notin {"fg_ptr", "wf_get"}
    BY <1>12 DEF WaitCheck, WaitLoop, Suspend, WaitReturn
  <2> QED  BY <2>1, <1>n, <1>u
<1>13. ASSUME NEW p \in Pid \cup {ForkFail}, Fork1(p) \/ Fork2(p) PROVE Shape' /\ Held'
  <2>1. UNCHANGED jobs /\ pc \notin {"fg_ptr", "wf_get"}
    BY <1>13 DEF Fork1, Fork2
  <2> QED  BY <2>1, <1>n, <1>u
<1>14. ASSUME NEW c \in Commands, NEW jid, Launch(c) \/ Builtin(c, jid) PROVE Shape' /\ Held'
  <2>1. UNCHANGED jobs /\ pc \notin {"fg_ptr", "wf_get"}
    BY <1>14 DEF Launch, Builtin
  <2> QED  BY <2>1, <1>n, <1>u
<1> QED
  BY <1>4, <1>5, <1>6, <1>7, <1>8, <1>9, <1>10, <1>11, <1>12, <1>13, <1>14, StepKinds
  DEF MainLine, MainStep

\* A listed slot has a number and a state; an empty one has no number, and no
\* state but the one do_bg or do_fg wrote through an old pointer.
THEOREM SlotsWholeCorrect == Spec => []SlotsWhole
<1>1. Init => SlotsWhole
  BY DEF Init, initjobs, SlotsWhole, live, cleared
<1> QED  BY <1>1, SlotsStep, TypeInvariant, ChildInvariant, KeepsSlotInvariant, PTL DEF Spec

\* The next number is above every number in use unless a job numbered MAXJOBS
\* or more is listed.
THEOREM NextAboveCorrect == Spec => []NextAboveUnlessWrapped
<1>1. Init => NextAboveUnlessWrapped
  <2> SUFFICES ASSUME initjobs PROVE nextjid > maxjid(jobs)
    BY DEF Init, NextAboveUnlessWrapped
  <2>1. \A i \in Slot : jobs[i].jid = 0
    BY DEF initjobs, cleared
  <2>2. maxjid(jobs) = 0
    BY <2>1, MaxjidBounds
  <2> QED  BY <2>2 DEF initjobs
<1>2. TypeInv /\ KeepsSlot /\ SlotsWhole /\ NextAboveUnlessWrapped /\ [Next]_vars
         => NextAboveUnlessWrapped'
  <2> SUFFICES ASSUME TypeInv, KeepsSlot, SlotsWhole, NextAboveUnlessWrapped, [Next]_vars
               PROVE  NextAboveUnlessWrapped'
    OBVIOUS
  <2>0. ListTypeOK /\ \A i \in Slot \ live : jobs[i].jid = 0
    BY DEF TypeInv, TypeOK, SlotsWhole
  <2>1. CASE UNCHANGED <<jobs, nextjid>>
    BY <2>1 DEF NextAboveUnlessWrapped, maxjid
  <2>2. ASSUME NEW p \in PidOf, NEW s \in {FG, BG}, addjob(p, s) PROVE NextAboveUnlessWrapped'
    BY <2>0, <2>2, AddjobNumbers DEF JobState
  <2>3. ASSUME NEW p \in Pid, deletejob(p) PROVE NextAboveUnlessWrapped'
    BY <2>0, <2>3, DeletejobNumbers
  <2>4. ASSUME NEW i \in Slot, NEW s \in {FG, BG, ST}, setstate(i, s)
        PROVE  NextAboveUnlessWrapped'
    BY <2>0, <2>4, SetstateNumbers
  <2> QED  BY <2>1, <2>2, <2>3, <2>4, ListSteps
<1> QED
  BY <1>1, <1>2, SlotsWholeCorrect, TypeInvariant, KeepsSlotInvariant, PTL DEF Spec

(***************************************************************************)
(* The foreground.  A job listed as FG is one that the command under way   *)
(* has started or continued and has not waited for yet.                    *)
(***************************************************************************)
InForeground(i) ==
    \/ /\ pc \in {"add2", "unblock", "setfg"} \cup Waiting
       /\ cmd \in {"fgrun", "pipe"} /\ jobs[i].pid = pid1
    \/ /\ pc \in {"unblock"} \cup Waiting
       /\ cmd \in {"pipe", "pipe2"} /\ jobs[i].pid = pid2
    \/ /\ pc \in {"fg_ptr"} \cup Waiting
       /\ cmd = "fg" /\ job = i

Foregrounded ==
    /\ \A i \in live : jobs[i].state = FG => InForeground(i)
    /\ pc = "wf_ret" => jobs[job].state # FG

LEMMA ForegroundStep ==
    TypeInv /\ ChildInv /\ KeepsSlot /\ Foregrounded /\ [Next]_vars => Foregrounded'
<1> SUFFICES ASSUME TypeInv, ChildInv, KeepsSlot, Foregrounded, [Next]_vars
             PROVE  Foregrounded'
  OBVIOUS
<1>0. TypeOK /\ Control /\ JobsAreChildren
  BY DEF TypeInv, ChildInv
<1>f. \A i \in Slot : jobs[i].pid # NoPid /\ jobs[i].state = FG => InForeground(i)
  BY DEF Foregrounded, live
<1>g. ASSUME \A i \in Slot : jobs'[i].pid # NoPid /\ jobs'[i].state = FG => InForeground(i)',
             pc' = "wf_ret" => jobs'[job'].state # FG
      PROVE  Foregrounded'
  BY <1>g DEF Foregrounded, live
<1> USE DEF At, Goto, Prompt, End, main, Waiting
<1>1. CASE Aside
  <2>1. \A i : InForeground(i) => InForeground(i)'
    BY <1>1 DEF Aside, InForeground
  <2>2. pc' = "wf_ret" => pc = "wf_ret"
    BY <1>1 DEF Aside
  <2> QED  BY <1>1, <2>1, <2>2 DEF Aside, Foregrounded, live
<1>2. ASSUME NEW p \in Pid, Reap(p) \/ NoteStop(p) PROVE Foregrounded'
  <2>1. HandlerWrites(p)
    BY <1>2, HandlerStep
  <2>2. \A i \in Slot : jobs'[i].state = FG => jobs'[i] = jobs[i]
    BY <2>1 DEF HandlerWrites, cleared, FG, UNDEF, ST
  <2>3. \A i \in Slot : jobs'[i] = jobs[i] /\ InForeground(i) => InForeground(i)'
    BY <2>1 DEF HandlerWrites, InForeground
  <2>4. pc' = "wf_ret" => job' \in Slot /\ jobs[job'].state # FG
    BY <2>1 DEF HandlerWrites, KeepsSlot, Polling, Foregrounded
  <2> QED  BY <1>f, <1>g, <2>2, <2>3, <2>4
<1>3. ASSUME NEW p \in Pid \cup {ForkFail}, Fork1(p) \/ Fork2(p) PROVE Foregrounded'
  <2>1. jobs' = jobs /\ pc \in {"fork1", "fork2"} /\ pc' # "wf_ret"
    BY <1>3 DEF Fork1, Fork2
  <2> QED  BY <1>f, <1>g, <2>1 DEF InForeground
<1>4. CASE Add1
  <2>1. /\ pc = "add1" /\ UNCHANGED <<cmd, pid1>>
        /\ pc' = IF cmd = "pipe" THEN "add2" ELSE "unblock"
    BY <1>4 DEF Add1
  <2>2. cmd \in {"fgrun", "bgrun", "pipe"}
    BY <1>0, <2>1 DEF Control, Launching
  <2>3. addjob(pid1, IF cmd = "bgrun" THEN BG ELSE FG)
    BY <1>4 DEF Add1
  <2>4. \A i \in Slot : \/ jobs'[i] = jobs[i]
                        \/ jobs'[i].pid = pid1 /\ jobs'[i].state = IF cmd = "bgrun" THEN BG ELSE FG
    BY <1>0, <2>3, AddjobWrites
  <2> QED  BY <1>f, <1>g, <2>1, <2>2, <2>4 DEF InForeground, BG, FG
<1>5. CASE Add2
  <2>1. pc = "add2" /\ UNCHANGED <<cmd, pid1, pid2>> /\ pc' = "unblock" /\ cmd = "pipe"
    BY <1>0, <1>5 DEF Add2, Control
  <2>2. \A i \in Slot : jobs'[i] = jobs[i] \/ jobs'[i].pid = pid2
    BY <1>0, <1>5, AddjobWrites DEF Add2
  <2> QED  BY <1>f, <1>g, <2>1, <2>2 DEF InForeground
<1>6. CASE Unblock
  <2>1. jobs' = jobs /\ pc = "unblock" /\ cmd \in {"fgrun", "bgrun", "pipe"}
    BY <1>0, <1>6 DEF Unblock, Control, Launching
  <2>2. CASE cmd = "bgrun"
    BY <1>6, <1>f, <1>g, <2>1, <2>2 DEF Unblock, InForeground
  <2>3. CASE cmd # "bgrun"
    <3>1. pc' \in {"setfg", "wf_get"} /\ (pc' = "setfg" => cmd = "fgrun")
          /\ UNCHANGED <<cmd, pid1, pid2, job>>
      BY <1>6, <2>1, <2>3 DEF Unblock
    <3> QED  BY <1>f, <1>g, <2>1, <3>1 DEF InForeground
  <2> QED  BY <2>2, <2>3
<1>7. CASE SetFg \/ TestStopped \/ Continue \/ SetPtr \/ WaitCheck \/ Suspend
  <2>1. CASE SetFg
    BY <1>0, <1>f, <1>g, <2>1 DEF SetFg, InForeground, Control
  <2>2. CASE SetPtr
    BY <1>f, <1>g, <2>2 DEF SetPtr, InForeground
  <2>3. CASE TestStopped \/ Continue
    <3>1. jobs' = jobs /\ pc \in {"b_test", "b_kill"} /\ pc' # "wf_ret"
      BY <2>3 DEF TestStopped, Continue
    <3> QED  BY <1>f, <1>g, <3>1 DEF InForeground
  <2>4. CASE WaitCheck \/ Suspend
    BY <1>f, <1>g, <2>4 DEF WaitCheck, Suspend, InForeground
  <2> QED  BY <1>7, <2>1, <2>2, <2>3, <2>4
<1>8. CASE SetState
  <2>1. pc = "b_set" /\ job \in Slot
    BY <1>8 DEF SetState, KeepsSlot
  <2>2. \A i \in Slot : i # job => jobs'[i] = jobs[i]
    BY <1>0, <1>8 DEF SetState, setstate, TypeOK, ListTypeOK
  <2>3. CASE cmd = "fg"
    <3>1. pc' = "fg_ptr" /\ cmd' = "fg" /\ job' = job
      BY <1>8, <2>3 DEF SetState
    <3> QED  BY <1>f, <1>g, <2>1, <2>2, <3>1 DEF InForeground
  <2>4. CASE cmd # "fg"
    <3>1. setstate(job, BG) /\ pc' = "prompt"
      BY <1>8, <2>4 DEF SetState
    <3>2. jobs'[job].state = BG
      BY <1>0, <2>1, <3>1 DEF setstate, TypeOK, ListTypeOK, Job
    <3> QED  BY <1>f, <1>g, <2>1, <2>2, <3>1, <3>2 DEF InForeground, BG, FG
  <2> QED  BY <2>3, <2>4
<1>9. CASE WaitGet
  <2>1. CASE getjobpid(WaitPid) = NULL
    BY <1>9, <1>f, <1>g, <2>1 DEF WaitGet, InForeground, Foregrounded
  <2>2. CASE getjobpid(WaitPid) # NULL
    <3>1. WaitPid \in Pid
      BY <2>2 DEF getjobpid
    <3>2. getjobpid(WaitPid) \in Slot /\ jobs[getjobpid(WaitPid)].pid = WaitPid
      BY <2>2, <3>1, GetjobpidFinds
    <3>3. job' = getjobpid(WaitPid) /\ UNCHANGED <<jobs, cmd, pid1, pid2>>
          /\ pc = "wf_get" /\ pc' = "wf_chk"
      BY <1>9, <2>2 DEF WaitGet
    <3>4. ASSUME cmd = "fg", job \in live PROVE job' = job
      <4>1. WaitPid = jobs[job].pid
        BY <3>4 DEF WaitPid
      <4>2. getjobpid(WaitPid) \in live
        BY <3>1, <3>2, PidAssumption DEF live
      <4> QED  BY <1>0, <3>2, <3>3, <3>4, <4>1, <4>2 DEF JobsAreChildren
    <3> QED  BY <1>f, <1>g, <3>3, <3>4 DEF InForeground, live
  <2> QED  BY <2>1, <2>2
<1>10. CASE WaitLoop
  <2>1. UNCHANGED <<jobs, cmd, pid1, pid2, job>> /\ pc = "wf_loop" /\ pc' \in {"wf_ret", "wf_susp"}
    BY <1>10 DEF WaitLoop
  <2>2. pc' = "wf_ret" => jobs[job].state \in {UNDEF, ST}
    BY <1>10 DEF WaitLoop
  <2> QED  BY <1>f, <1>g, <2>1, <2>2 DEF InForeground, UNDEF, ST, FG
<1>11. CASE WaitReturn
  <2>1. pc = "wf_ret" /\ jobs' = jobs /\ job \in Slot /\ jobs[job].state # FG
        /\ cmd \in {"fgrun", "pipe", "pipe2", "fg"}
    BY <1>0, <1>11 DEF WaitReturn, Foregrounded, KeepsSlot, Polling, Control
  <2>2. ASSUME NEW i \in Slot, jobs[i].pid # NoPid, jobs[i].state = FG, cmd # "fg"
        PROVE  jobs[i].pid # WaitPid
    <3>1. SUFFICES ASSUME jobs[i].pid = WaitPid PROVE FALSE
      OBVIOUS
    <3>2. jobs[job].pid = WaitPid
      BY <2>1, <3>1 DEF KeepsSlot, Polling, Listed
    <3>3. i = job
      BY <1>0, <2>1, <2>2, <3>1, <3>2 DEF JobsAreChildren, live
    <3> QED  BY <2>1, <2>2, <3>3
  <2>3. CASE cmd = "pipe"
    <3>1. cmd' = "pipe2" /\ pc' = "wf_get" /\ UNCHANGED <<pid1, pid2>>
      BY <1>11, <2>3 DEF WaitReturn
    <3>2. WaitPid = pid1
      BY <2>3 DEF WaitPid
    <3> QED  BY <1>f, <1>g, <2>1, <2>2, <2>3, <3>1, <3>2 DEF InForeground
  <2>4. CASE cmd # "pipe"
    <3>1. pc' = "prompt"
      BY <1>11, <2>4 DEF WaitReturn
    <3>2. cmd = "fgrun" => WaitPid = pid1
      BY DEF WaitPid
    <3>3. cmd = "pipe2" => WaitPid = pid2
      BY DEF WaitPid
    <3> QED  BY <1>f, <1>g, <2>1, <2>2, <2>4, <3>1, <3>2, <3>3 DEF InForeground
  <2> QED  BY <2>3, <2>4
<1>12. ASSUME NEW c \in Commands, NEW jid, Launch(c) \/ Builtin(c, jid) PROVE Foregrounded'
  <2>1. jobs' = jobs /\ pc = "prompt" /\ pc' # "wf_ret"
    BY <1>12 DEF Launch, Builtin
  <2> QED  BY <1>f, <1>g, <2>1 DEF InForeground
<1> QED
  BY <1>1, <1>2, <1>3, <1>4, <1>5, <1>6, <1>7, <1>8, <1>9, <1>10, <1>11, <1>12, StepKinds
  DEF MainLine, MainStep

\* No job is in the foreground while the shell is at its prompt: every command
\* has waited for all it started.
THEOREM NoForegroundCorrect == Spec => []NoForegroundAtPrompt
<1>1. Init => Foregrounded
  BY DEF Init, initjobs, Foregrounded, live, cleared
<1>2. Foregrounded => NoForegroundAtPrompt
  BY DEF Foregrounded, InForeground, NoForegroundAtPrompt, Waiting
<1> QED
  BY <1>1, <1>2, ForegroundStep, KeepsSlotInvariant, TypeInvariant, ChildInvariant, PTL
  DEF Spec

(***************************************************************************)
(* The background.  fg_proc is set only while waitfg waits, and then to a  *)
(* process or slot that is no background job.  And a signal that is still  *)
(* pending for the shell, and that it might send to its own group, has     *)
(* reached every child in that group already.                              *)
(***************************************************************************)
Pointed ==
    /\ fg_proc # NULL => pc \in Waiting
    /\ fg_proc = PID1 => cmd = "fgrun"
    /\ cmd = "fgrun" /\ pc \in {"unblock", "setfg"} \cup Waiting =>
           \A i \in live : jobs[i].pid = pid1 => jobs[i].state # BG
    /\ pc = "fg_ptr" => jobs[job].state # BG
    /\ fg_proc \in Slot => jobs[fg_proc].state # BG

Shared == fg_proc # NULL =>
    \A p \in Pid : child[p] = "forked" => pend \cap {INT, TSTP} \subseteq cpend[p]

LEMMA PointedStep == TypeInv /\ ChildInv /\ KeepsSlot /\ Pointed /\ [Next]_vars => Pointed'
<1> SUFFICES ASSUME TypeInv, ChildInv, KeepsSlot, Pointed, [Next]_vars PROVE Pointed'
  OBVIOUS
<1>0. TypeOK /\ Control /\ JobsAreChildren
  BY DEF TypeInv, ChildInv
<1> USE DEF At, Goto, Prompt, End, main, Waiting
<1>1. CASE Aside
  BY <1>1 DEF Aside, Pointed, live
<1>2. ASSUME NEW p \in Pid, Reap(p) \/ NoteStop(p) PROVE Pointed'
  <2>1. HandlerWrites(p)
    BY <1>2, HandlerStep
  <2>2. \A i \in Slot : jobs'[i].state = BG => jobs'[i] = jobs[i]
    BY <2>1 DEF HandlerWrites, cleared, BG, UNDEF, ST
  <2>3. pc = "fg_ptr" => job \in Slot
    BY DEF KeepsSlot
  <2> QED  BY <2>1, <2>2, <2>3 DEF HandlerWrites, Pointed, live
<1>3. ASSUME NEW p \in Pid \cup {ForkFail}, Fork1(p) \/ Fork2(p) PROVE Pointed'
  BY <1>3 DEF Fork1, Fork2, Pointed, live
<1>4. CASE Add1
  <2>1. /\ pc = "add1" /\ UNCHANGED <<cmd, pid1, fg_proc>>
        /\ pc' = IF cmd = "pipe" THEN "add2" ELSE "unblock"
    BY <1>4 DEF Add1
  <2>2. fg_proc = NULL
    BY <2>1 DEF Pointed
  <2>3. ASSUME cmd = "fgrun", NEW i \in Slot, jobs'[i].pid = pid1, jobs'[i].pid # NoPid
        PROVE  jobs'[i].state # BG
    <3>1. addjob(pid1, FG)
      BY <1>4, <2>3 DEF Add1
    <3>2. jobs[i].pid # pid1
      BY <1>0, <2>1, <2>3, PidAssumption DEF ChildInv, Fresh, Listed, TypeOK, ListTypeOK, Job
    <3>3. jobs'[i].state = FG
      BY <1>0, <2>3, <3>1, <3>2, AddjobWrites
    <3> QED  BY <3>3 DEF FG, BG
  <2> QED  BY <2>1, <2>2, <2>3, SlotFinite DEF Pointed, live, PID1, NULL
<1>5. CASE Add2
  <2>1. pc = "add2" /\ pc' = "unblock" /\ cmd = "pipe" /\ UNCHANGED <<cmd, fg_proc>>
    BY <1>0, <1>5 DEF Add2, Control
  <2> QED  BY <2>1, SlotFinite DEF Pointed, PID1, NULL
<1>6. CASE Unblock
  <2>1. cmd \in {"fgrun", "bgrun", "pipe"} /\ UNCHANGED <<jobs, fg_proc>> /\ pc = "unblock"
    BY <1>0, <1>6 DEF Unblock, Control, Launching
  <2>2. fg_proc = NULL
    BY <2>1 DEF Pointed
  <2> QED  BY <1>6, <2>1, <2>2, SlotFinite DEF Unblock, Pointed, live, PID1, NULL
<1>7. CASE SetFg
  BY <1>0, <1>7, SlotFinite DEF SetFg, Pointed, live, Control, PID1, Slot
<1>8. CASE SetPtr
  <2>1. job \in Slot
    BY <1>8 DEF SetPtr, KeepsSlot
  <2> QED  BY <1>0, <1>8, <2>1 DEF SetPtr, Pointed, live, Control, PID1, Slot
<1>9. CASE TestStopped \/ Continue
  BY <1>9 DEF TestStopped, Continue, Pointed, live
<1>10. CASE SetState
  <2>2. fg_proc = NULL /\ fg_proc' = NULL
    BY <1>10 DEF SetState, Pointed
  <2>3. pc' = "fg_ptr" => jobs'[job'].state = FG
    <3>1. SUFFICES ASSUME pc' = "fg_ptr" PROVE setstate(job, FG) /\ job' = job /\ job \in Slot
      BY <1>0 DEF setstate, TypeOK, ListTypeOK, Job
    <3> QED  BY <1>10, <3>1 DEF SetState, KeepsSlot
  <2>4. pc' \in {"fg_ptr", "prompt"}
    BY <1>10 DEF SetState
  <2> QED  BY <2>2, <2>3, <2>4, SlotFinite DEF Pointed, FG, BG, PID1, NULL
<1>11. CASE WaitGet \/ WaitCheck
  BY <1>11 DEF WaitGet, WaitCheck, Pointed, live
<1>12. CASE WaitLoop \/ Suspend
  BY <1>12 DEF WaitLoop, Suspend, Pointed, live
<1>13. CASE WaitReturn
  BY <1>13, SlotFinite DEF WaitReturn, Pointed, live, PID1, NULL
<1>14. ASSUME NEW c \in Commands, NEW jid, Launch(c) \/ Builtin(c, jid) PROVE Pointed'
  <2>1. pc = "prompt" /\ UNCHANGED <<jobs, fg_proc>> /\ pc' \in {"fork1", "b_test"}
    BY <1>14 DEF Launch, Builtin
  <2> QED  BY <2>1, SlotFinite DEF Pointed, PID1, NULL
<1> QED
  BY <1>1, <1>2, <1>3, <1>4, <1>5, <1>6, <1>7, <1>8, <1>9, <1>10, <1>11, <1>12, <1>13, <1>14,
     StepKinds
  DEF MainLine, MainStep

\* What a signal does to children in the shell's group: it is kept for them.
LEMMA SignalShares ==
    ASSUME TypeOK, NEW S, NEW sig, Signal(S, sig)
    PROVE  \A p \in Pid : child'[p] = "forked" =>
               /\ child[p] = "forked" /\ cpend[p] \subseteq cpend'[p]
               /\ p \in S => sig \in cpend'[p]
<1>1. \A p \in Pid : After(p, sig) = "forked" => child[p] = "forked"
  BY DEF After
<1> QED  BY <1>1 DEF Signal, Keeps, TypeOK

LEMMA SharedStep == TypeInv /\ Pointed /\ Shared /\ [Next]_vars => Shared'
<1> SUFFICES ASSUME TypeInv, Pointed, Shared, [Next]_vars PROVE Shared'
  OBVIOUS
<1>0. TypeOK /\ Control
  BY DEF TypeInv
<1>n. ASSUME fg_proc' = NULL PROVE Shared'
  BY <1>n DEF Shared
<1>q. ASSUME fg_proc' = fg_proc, pend' \cap {INT, TSTP} \subseteq pend,
             \A p \in Pid : child'[p] = "forked" => child[p] = "forked" /\ cpend'[p] = cpend[p]
      PROVE  Shared'
  BY <1>q DEF Shared
<1> USE DEF At, Goto, Prompt, End, main, kernel, Waiting
<1>1. ASSUME NEW p \in Pid \cup {ForkFail}, Fork1(p) \/ Fork2(p) PROVE Shared'
  BY <1>1, <1>n DEF Fork1, Fork2, Pointed
<1>2. CASE Add1 \/ Add2 \/ Unblock \/ TestStopped \/ SetState
  BY <1>2, <1>q DEF Add1, Add2, Unblock, TestStopped, SetState
<1>3. CASE SetFg \/ SetPtr
  <2>1. ~blocked
    BY <1>0, <1>3 DEF SetFg, SetPtr, Control, Launching
  <2>2. pend' = {}
    BY <1>3, <2>1 DEF SetFg, SetPtr, Deliverable
  <2> QED  BY <2>2 DEF Shared
<1>4. CASE Continue
  <2>1. fg_proc' = fg_proc /\ Cont(jobs[job].pid)
    BY <1>4 DEF Continue
  <2>2. fg_proc = NULL
    BY <1>4 DEF Continue, Pointed
  <2> QED  BY <1>n, <2>1, <2>2
<1>5. CASE WaitGet \/ WaitCheck \/ WaitLoop \/ Suspend
  BY <1>5, <1>q DEF WaitGet, WaitCheck, WaitLoop, Suspend
<1>6. CASE WaitReturn
  <2>1. UNCHANGED <<pend, child, cpend>>
    BY <1>6 DEF WaitReturn
  <2>2. fg_proc' = fg_proc \/ fg_proc' = NULL
    BY <1>6 DEF WaitReturn
  <2> QED  BY <1>n, <1>q, <2>1, <2>2
<1>7. CASE ChldHandler \/ ChldReturn \/ Quit \/ Gone \/ UNCHANGED vars
  BY <1>7, <1>q DEF ChldHandler, ChldReturn, Quit, Gone, vars
<1>8. ASSUME NEW p \in Pid, Reap(p) \/ NoteStop(p) PROVE Shared'
  BY <1>0, <1>8, <1>q DEF Reap, NoteStop, TypeOK
<1>9. ASSUME NEW sig \in {INT, TSTP}, TtyHandler(sig) PROVE Shared'
  <2>1. CASE fg_proc = NULL
    BY <1>9, <2>1, <1>n DEF TtyHandler
  <2>2. CASE fg_proc # NULL
    <3>1. PICK S : Signal(S, sig) /\ pend' \subseteq pend \cup ChldFor(S)
      BY <1>9, <2>2 DEF TtyHandler
    <3>2. pend' \cap {INT, TSTP} \subseteq pend
      BY <3>1 DEF ChldFor, INT, TSTP, CHLD
    <3>3. \A p \in Pid : child'[p] = "forked" => child[p] = "forked" /\ cpend[p] \subseteq cpend'[p]
      BY <1>0, <3>1, SignalShares
    <3> QED  BY <2>2, <3>2, <3>3 DEF Shared
  <2> QED  BY <2>1, <2>2
<1>10. ASSUME NEW sig \in {INT, TSTP}, Type(sig) PROVE Shared'
  <2>1. Signal(ShellGroup, sig) /\ pend' = pend \cup {sig} /\ fg_proc' = fg_proc
    BY <1>10 DEF Type
  <2>2. \A p \in Pid : child'[p] = "forked" =>
            child[p] = "forked" /\ cpend[p] \cup {sig} \subseteq cpend'[p]
    BY <1>0, <2>1, SignalShares DEF ShellGroup
  <2> QED  BY <2>1, <2>2 DEF Shared
<1>11. ASSUME NEW c \in Commands, NEW jid, Launch(c) \/ Builtin(c, jid) PROVE Shared'
  BY <1>11, <1>q DEF Launch, Builtin
<1>12. ASSUME NEW p \in Pid, ChildStart(p) \/ Die(p) \/ Stop(p) PROVE Shared'
  <2>1. pend' \cap {INT, TSTP} \subseteq pend /\ fg_proc' = fg_proc
    BY <1>12 DEF ChildStart, Setpgid, ChildUnblock, Exec, Die, Stop, INT, TSTP, CHLD
  <2>2. \A q \in Pid : child'[q] = "forked" => child[q] = "forked" /\ cpend'[q] = cpend[q]
    BY <1>0, <1>12 DEF ChildStart, Setpgid, ChildUnblock, Exec, Die, Stop, TypeOK
  <2> QED  BY <2>1, <2>2, <1>q
<1> QED
  BY <1>1, <1>2, <1>3, <1>4, <1>5, <1>6, <1>7, <1>8, <1>9, <1>10, <1>11, <1>12
  DEF Next, MainStep, ChldStep, User

\* The handlers of ctrl-c and ctrl-z, in a state that meets the invariants,
\* change nothing about a background job.
LEMMA HandlerSpares ==
    ASSUME TypeInv, ChildInv, Pointed, Shared, NEW sig \in {INT, TSTP}, TtyHandler(sig),
           NEW i \in live, jobs[i].state = BG
    PROVE  child'[jobs[i].pid] = child[jobs[i].pid] /\ cpend'[jobs[i].pid] = cpend[jobs[i].pid]
<1>0. TypeOK /\ JobsAreChildren
  BY DEF TypeInv, ChildInv
<1> DEFINE p == jobs[i].pid
<1>1. p \in Pid
  BY <1>0 DEF live, TypeOK, ListTypeOK, Job
<1>2. CASE fg_proc = NULL
  BY <1>2 DEF TtyHandler, End, kernel
<1>3. CASE fg_proc # NULL /\ Foreground = NoPid
  <2>1. Signal(ShellGroup, sig)
    BY <1>3 DEF TtyHandler
  <2>2. p \in ShellGroup => child[p] = "forked" /\ sig \in cpend[p]
    BY <1>3 DEF ShellGroup, TtyHandler, Deliverable, Shared
  <2>3. child'[p] = child[p]
    BY <1>1, <2>1, <2>2 DEF Signal, After
  <2>4. cpend'[p] = cpend[p]
    BY <1>0, <1>1, <2>1, <2>2 DEF Signal, TypeOK
  <2> QED  BY <2>3, <2>4
<1>4. CASE fg_proc # NULL /\ Foreground # NoPid
  <2>1. Signal(Group(Foreground), sig)
    BY <1>4 DEF TtyHandler
  <2>2. p # Foreground
    <3>1. CASE fg_proc = PID1
      BY <1>4, <3>1 DEF Foreground, Pointed
    <3>2. CASE fg_proc \in Slot
      <4>1. Foreground = jobs[fg_proc].pid /\ jobs[fg_proc].state # BG
        BY <3>2 DEF Foreground, Pointed, PID1, Slot
      <4>2. fg_proc \in live
        BY <1>4, <3>2, <4>1 DEF live
      <4> QED  BY <1>0, <4>1, <4>2 DEF JobsAreChildren
    <3> QED  BY <1>0, <1>4, <3>1, <3>2 DEF TypeOK
  <2> QED  BY <1>0, <1>1, <2>1, <2>2 DEF Signal, Group, TypeOK
<1> QED  BY <1>2, <1>3, <1>4

\* A key press reaches a background job only before its child has called
\* setpgid, and then from the terminal; what the shell passes on reaches none.
THEOREM BackgroundIsSparedCorrect == Spec => BackgroundIsSpared
<1> DEFINE Spares == \A sig \in {INT, TSTP} : TtyHandler(sig) \/ Type(sig) =>
               \A i \in live : jobs[i].state = BG =>
                   LET p == jobs[i].pid IN
                   IF Type(sig) /\ child[p] = "forked"
                   THEN sig \in cpend'[p]
                   ELSE child'[p] = child[p] /\ cpend'[p] = cpend[p]
<1>1. Init => Pointed /\ Shared
  BY SlotFinite DEF Init, initjobs, Pointed, Shared, cleared, PID1, NULL
<1>2. ASSUME TypeInv, NEW sig \in {INT, TSTP}, Type(sig), NEW i \in live
      PROVE  LET p == jobs[i].pid IN
             IF child[p] = "forked" THEN sig \in cpend'[p]
             ELSE child'[p] = child[p] /\ cpend'[p] = cpend[p]
  <2>1. jobs[i].pid \in Pid /\ TypeOK
    BY <1>2 DEF live, TypeInv, TypeOK, ListTypeOK, Job
  <2>2. Signal(ShellGroup, sig)
    BY <1>2 DEF Type
  <2> DEFINE p == jobs[i].pid
  <2>3. CASE child[p] = "forked"
    <3>1. p \in ShellGroup /\ Keeps(p, sig)
      BY <2>1, <2>3 DEF ShellGroup, Keeps
    <3>2. cpend'[p] = cpend[p] \cup {sig}
      BY <2>1, <2>2, <3>1 DEF Signal
    <3> QED  BY <2>3, <3>2
  <2>4. CASE child[p] # "forked"
    <3>1. p \notin ShellGroup
      BY <2>4 DEF ShellGroup
    <3>2. child'[p] = child[p] /\ cpend'[p] = cpend[p]
      BY <2>1, <2>2, <3>1 DEF Signal
    <3> QED  BY <2>4, <3>2
  <2> QED  BY <2>3, <2>4
<1>3. TypeInv /\ ChildInv /\ Pointed /\ Shared => Spares
  BY <1>2, HandlerSpares
<1>4. Spec => [](TypeInv /\ ChildInv /\ Pointed /\ Shared)
  BY <1>1, PointedStep, SharedStep, KeepsSlotInvariant, TypeInvariant, ChildInvariant, PTL
  DEF Spec
<1>5. Spec => [][Spares]_vars
  BY <1>3, <1>4, PTL
<1> QED  BY <1>5 DEF BackgroundIsSpared
=============================================================================
