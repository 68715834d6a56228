------------------------------ MODULE Processes ------------------------------
(***************************************************************************)
(* The process table of the kernel and the flows of control that run on    *)
(* it: booting the three base shells, execute, halt, exceptions and the    *)
(* round-robin switch of the programmable interval timer.                  *)
(*                                                                         *)
(* Every pid owns a kernel stack and a process control block (PCB).  The   *)
(* one CPU follows one flow of control at a time; a flow is described by   *)
(* the kernel stack it runs on and by the point of the code it stands at.  *)
(* A timer tick stores the current flow in a PCB and loads another one, so *)
(* a wrong PCB, a wrong stack or a tick at a wrong moment sends the CPU    *)
(* into another program's frames.                                          *)
(*                                                                         *)
(* Code between cli() and sti() is one step.  The gates of the system call *)
(* and of the device interrupts are trap gates, so everything else can be  *)
(* interrupted, and the interruptible points that matter are states here.  *)
(***************************************************************************)
EXTENDS Integers, Sequences

CONSTANTS
  MAX_PID,    \* number of slots in pid_array
  NUM_TERMS,  \* number of terminals, TOTAL_TERM in pit.h
  Statuses,   \* the exit statuses a program may pass to halt
  Windows     \* the rarely hit moments at which the environment does strike

(***************************************************************************)
(* The moments a run may open:                                             *)
(*   "boot"  a tick between entry()'s sti() and the first sys_execute      *)
(*   "init"  a program calls execute before all base shells are started    *)
(*   "halt"  a tick between halt_helper's sti() and its switch to the      *)
(*           stack of the parent                                           *)
(***************************************************************************)
AllWindows == {"boot", "init", "halt"}

EXCEPTION_HALT == 256
FUNNY_NUMBER   == 69
NoPid          == -1
NoRet          == -2

ASSUME ConstantsAssumption ==
  /\ NUM_TERMS \in Nat \ {0}
  /\ MAX_PID \in Nat /\ MAX_PID >= NUM_TERMS
  /\ Statuses \subseteq 0..255
  /\ Windows \subseteq AllWindows

Pids  == 0 .. MAX_PID - 1
Terms == 0 .. NUM_TERMS - 1

VARIABLES
  pid_array,      \* pid_array[p] = 1 when slot p is taken
  cur_pid,        \* pid the kernel believes is running
  prev_pid,       \* its parent
  ta,             \* terminal whose program has the CPU
  active_pid,     \* active_pid[t], the program on top of terminal t
  pcb,            \* the process control blocks
  terminal_init,  \* next base shell to start; NUM_TERMS + 1 once all run
  esp0,           \* pid whose kernel stack tss.esp0 points to
  image_frame,    \* 4 MB frame mapped at the program image, pd[32].addr
  flow,           \* the flow of control on the CPU
  ret             \* value the last return from sys_execute delivered

vars == <<pid_array, cur_pid, prev_pid, ta, active_pid, pcb, terminal_init,
          esp0, image_frame, flow, ret>>

-----------------------------------------------------------------------------
(***************************************************************************)
(* Flows of control.  A flow at "user" executes the program, or a part of  *)
(* a system call that may be interrupted; "on" is the kernel stack whose   *)
(* frames brought it there, through iret or through leave and ret.  A flow *)
(* at "haltret" has left halt_helper's critical section but still stands   *)
(* on the stack of the process that is gone.                               *)
(***************************************************************************)
Flows == [at : {"boot", "user", "haltret"}, on : Pids,
          status : Statuses \cup {0, EXCEPTION_HALT}]

UserFlow(p)       == [at |-> "user", on |-> p, status |-> 0]
BootFlow          == [at |-> "boot", on |-> 0, status |-> 0]
HaltReturn(p, st) == [at |-> "haltret", on |-> p, status |-> st]

(***************************************************************************)
(* A control block: the parent, the stack that holds the frame of the      *)
(* sys_execute call that created the process (ebp), and the flow the timer *)
(* saved last (cur_esp and cur_ebp).                                       *)
(***************************************************************************)
PCBs == [parent_pid : Pids \cup {NoPid}, ebp : Pids, cur : Flows]

Frame(p) == p + 2      \* (pid + 2) << 10: frames 0 and 1 are the kernel's
Unmapped == 32         \* what paging_init leaves in pd[PROGRAM_IMG_IDX]

TypeOK ==
  /\ pid_array \in [Pids -> {0, 1}]
  /\ cur_pid \in Pids \cup {NoPid}
  /\ prev_pid \in Pids \cup {NoPid}
  /\ ta \in Terms
  /\ active_pid \in [Terms -> Pids]
  /\ pcb \in [Pids -> PCBs]
  /\ terminal_init \in 1 .. NUM_TERMS + 1
  /\ esp0 \in Pids
  /\ image_frame \in {Frame(p) : p \in Pids} \cup {Unmapped}
  /\ flow \in Flows
  /\ ret \in Statuses \cup {NoRet, -1, FUNNY_NUMBER, EXCEPTION_HALT, 0}

(***************************************************************************)
(* What entry() has set up when it reaches its last sti(): static data is  *)
(* zero, cur_pid and prev_pid are -1, and the boot stack at 8 MB is the    *)
(* memory pid 0 will use as its kernel stack.                              *)
(***************************************************************************)
Init ==
  /\ pid_array = [p \in Pids |-> 0]
  /\ cur_pid = NoPid
  /\ prev_pid = NoPid
  /\ ta = 0
  /\ active_pid = [t \in Terms |-> 0]
  /\ pcb = [p \in Pids |->
              [parent_pid |-> 0, ebp |-> 0, cur |-> UserFlow(0)]]
  /\ terminal_init = 1
  /\ esp0 = 0
  /\ image_frame = Unmapped
  /\ flow = BootFlow
  /\ ret = NoRet

-----------------------------------------------------------------------------
(***************************************************************************)
(* sys_execute                                                             *)
(***************************************************************************)

\* n is the pid the search for an open slot stops at.
NextOpen(array, n) == array[n] = 0 /\ \A m \in 0 .. n - 1 : array[m] = 1

Full(array) == \A p \in Pids : array[p] = 1

\* Mutants of the next definition: the bound off by one; prev_pid not yet
\* set to the caller.
ParentOffByOne(n, caller) == IF n <= NUM_TERMS THEN NoPid ELSE caller
ParentStale(n, caller)    == IF n < NUM_TERMS THEN NoPid ELSE prev_pid

\* Pids below NUM_TERMS are the base shells, and those have no parent.
ParentOf(n, caller) == IF n < NUM_TERMS THEN NoPid ELSE caller

\* The stack an interrupt or system call runs on: the CPU takes esp0 when it
\* comes from user mode and stays where it is when it was in the kernel.
KernelStack == IF flow.at = "user" THEN esp0 ELSE flow.on

Interrupted == [flow EXCEPT !.on = KernelStack]

\* Mutant of set_esp0: the TSS keeps the stack of the previous process.
set_esp0_stale(p) == esp0' = esp0

\* The stack the next entry into the kernel uses, and the program image.
set_esp0(p)  == esp0' = p
map_image(p) == image_frame' = Frame(p)

(***************************************************************************)
(* The part of sys_execute after the file was found to be an executable,   *)
(* with a slot n open: array, blocks and actives are the tables as the     *)
(* caller left them, caller its cur_pid and term the active terminal.      *)
(***************************************************************************)
launch(n, caller, array, blocks, actives, term) ==
  /\ pid_array' = [array EXCEPT ![n] = 1]
  /\ cur_pid' = n
  /\ prev_pid' = ParentOf(n, caller)
  /\ map_image(n)
  /\ pcb' = [blocks EXCEPT ![n] = [parent_pid |-> ParentOf(n, caller),
                                   ebp |-> KernelStack,
                                   cur |-> UserFlow(n)]]
  /\ active_pid' = [actives EXCEPT ![term] = n]
  /\ set_esp0(n)
  /\ flow' = UserFlow(n)
  /\ ret' = NoRet

\* A program is running.  One that came back on a wrong stack runs on too:
\* whatever it then executes may be any system call, or fault.
Running == flow.at = "user"

BootDone == terminal_init > NUM_TERMS

MayExecute == Running /\ (BootDone \/ "init" \in Windows)

\* entry() starts the first base shell.
entry ==
  /\ flow.at = "boot"
  /\ \E n \in Pids :
       /\ NextOpen(pid_array, n)
       /\ launch(n, cur_pid, pid_array, pcb, active_pid, ta)
  /\ UNCHANGED <<ta, terminal_init>>

sys_execute ==
  /\ MayExecute
  /\ \E n \in Pids :
       /\ NextOpen(pid_array, n)
       /\ launch(n, cur_pid, pid_array, pcb, active_pid, ta)
  /\ UNCHANGED <<ta, terminal_init>>

\* No slot is open: prev_pid was overwritten already, nothing else was.
sys_execute_full ==
  /\ MayExecute
  /\ Full(pid_array)
  /\ prev_pid' = ParentOf(cur_pid, cur_pid)
  /\ ret' = FUNNY_NUMBER
  /\ UNCHANGED <<pid_array, cur_pid, ta, active_pid, pcb, terminal_init,
                 esp0, image_frame, flow>>

\* The command names no file, or a file that is not an executable.
sys_execute_no_file ==
  /\ MayExecute
  /\ ret' = -1
  /\ UNCHANGED <<pid_array, cur_pid, prev_pid, ta, active_pid, pcb,
                 terminal_init, esp0, image_frame, flow>>

-----------------------------------------------------------------------------
(***************************************************************************)
(* halt_helper                                                             *)
(***************************************************************************)

\* A process without a parent is replaced by a new shell at once.
halt_base ==
  LET array == [pid_array EXCEPT ![cur_pid] = 0] IN
  /\ pcb[cur_pid].parent_pid = NoPid
  /\ \E n \in Pids :
       /\ NextOpen(array, n)
       /\ launch(n, NoPid, array, pcb, active_pid, ta)

(***************************************************************************)
(* Any other process gives the CPU back to its parent.  Up to sti() that   *)
(* is one step, and the rest, which loads ebp from the control block of    *)
(* the halted process, is return_to_parent.                                *)
(***************************************************************************)
halt_child(status) ==
  LET parent == pcb[cur_pid].parent_pid IN
  /\ parent # NoPid
  /\ pid_array' = [pid_array EXCEPT ![cur_pid] = 0]
  /\ prev_pid' = pcb[parent].parent_pid
  /\ map_image(parent)
  /\ cur_pid' = parent
  /\ active_pid' = [active_pid EXCEPT ![ta] = parent]
  /\ set_esp0(parent)
  /\ IF "halt" \in Windows
       THEN flow' = HaltReturn(KernelStack, status) /\ ret' = NoRet
       ELSE flow' = UserFlow(pcb[cur_pid].ebp) /\ ret' = status
  /\ UNCHANGED pcb

halt_helper(status) ==
  /\ Running
  /\ halt_base \/ halt_child(status)
  /\ UNCHANGED <<ta, terminal_init>>

sys_halt == \E status \in Statuses : halt_helper(status)

handle_exception == halt_helper(EXCEPTION_HALT)

\* The frame to return to is read from the PCB of the halted process.
return_to_parent ==
  /\ flow.at = "haltret"
  /\ flow' = UserFlow(pcb[flow.on].ebp)
  /\ ret' = flow.status
  /\ UNCHANGED <<pid_array, cur_pid, prev_pid, ta, active_pid, pcb,
                 terminal_init, esp0, image_frame>>

-----------------------------------------------------------------------------
(***************************************************************************)
(* pit_handler                                                             *)
(***************************************************************************)

Interruptible ==
  \/ Running
  \/ flow.at = "haltret"
  \/ flow.at = "boot" /\ "boot" \in Windows

\* Mutant of Saved: the flow overwrites the context of the next terminal.
SavedInNext == [pcb EXCEPT ![active_pid[(ta + 1) % NUM_TERMS]].cur = Interrupted]

\* The flow is stored in the PCB of the active terminal's program.
Saved == [pcb EXCEPT ![active_pid[ta]].cur = Interrupted]

\* One of the first NUM_TERMS - 1 ticks: start the next base shell.
start_terminal ==
  LET t == terminal_init
      actives == [active_pid EXCEPT ![t] = t] IN
  /\ t < NUM_TERMS
  /\ terminal_init' = t + 1
  /\ ta' = t
  /\ \/ \E n \in Pids :
          /\ NextOpen(pid_array, n)
          /\ launch(n, cur_pid, pid_array, Saved, actives, t)
     \/ /\ Full(pid_array)
        /\ prev_pid' = ParentOf(cur_pid, cur_pid)
        /\ active_pid' = actives
        /\ pcb' = Saved
        /\ ret' = NoRet
        /\ UNCHANGED <<pid_array, cur_pid, esp0, image_frame, flow>>

\* Mutant of NextTerm: the last terminal never gets a turn.
NextTermButLast == (ta + 1) % (NUM_TERMS - 1)

NextTerm == (ta + 1) % NUM_TERMS

\* Load the flow of the next terminal's program.
switch_to(t) ==
  LET p == active_pid[t] IN
  /\ ta' = t
  /\ cur_pid' = p
  /\ prev_pid' = pcb[p].parent_pid
  /\ map_image(p)
  /\ set_esp0(p)
  /\ pcb' = Saved
  /\ flow' = Saved[p].cur
  /\ ret' = NoRet

\* Mutant of rotate: terminal_init++ left outside the test.
rotate_counting ==
  /\ terminal_init >= NUM_TERMS
  /\ terminal_init' = terminal_init + 1
  /\ switch_to(NextTerm)
  /\ UNCHANGED <<pid_array, active_pid>>

rotate ==
  /\ terminal_init >= NUM_TERMS
  /\ terminal_init' = NUM_TERMS + 1
  /\ switch_to(NextTerm)
  /\ UNCHANGED <<pid_array, active_pid>>

pit_handler ==
  /\ Interruptible
  /\ start_terminal \/ rotate

-----------------------------------------------------------------------------
Next ==
  \/ entry
  \/ sys_execute
  \/ sys_execute_full
  \/ sys_execute_no_file
  \/ sys_halt
  \/ handle_exception
  \/ return_to_parent
  \/ pit_handler

(***************************************************************************)
(* The timer is periodic and every handler and critical section ends with  *)
(* sti() or iret, so a tick is never put off forever; entry() runs to its  *)
(* first sys_execute, and the last instructions of halt_helper are         *)
(* executed.  Programs owe nobody anything: no fairness on system calls.   *)
(***************************************************************************)
Fairness ==
  /\ WF_vars(entry)
  /\ WF_vars(pit_handler)
  /\ WF_vars(return_to_parent)

Spec     == Init /\ [][Next]_vars
FairSpec == Spec /\ Fairness

-----------------------------------------------------------------------------
(***************************************************************************)
(* Properties                                                              *)
(***************************************************************************)

Live(p)    == pid_array[p] = 1
Started    == {t \in Terms : t < terminal_init}
Descendant == {p \in Pids : Live(p) /\ p >= NUM_TERMS}
Parent(p)  == pcb[p].parent_pid
Booted     == flow.at # "boot"

\* The CPU is in the turn of a terminal that runs a live program.
CurrentIsActive ==
  /\ ta \in Started
  /\ cur_pid = active_pid[ta]
  /\ prev_pid \in {Parent(cur_pid), cur_pid}

\* Terminals run different live programs.
ActivePrograms ==
  /\ \A t \in Started : Live(active_pid[t])
  /\ \A t, u \in Started : active_pid[t] = active_pid[u] => t = u

\* The base shells are the parentless processes, one per started terminal.
BasePids ==
  /\ \A p \in Terms : Live(p) <=> p \in Started
  /\ \A p \in Pids : Live(p) => (Parent(p) = NoPid <=> p < NUM_TERMS)

\* Every other process has a live parent that waits for it alone.
Waiting ==
  /\ \A p \in Descendant : Parent(p) \in Pids /\ Live(Parent(p))
  /\ \A p, q \in Descendant : Parent(p) = Parent(q) => p = q
  /\ \A p \in Descendant, t \in Started : Parent(p) # active_pid[t]

\* No slot leaks: a live process runs on a terminal or waits for a child.
NoOrphan ==
  \A p \in Pids : Live(p) =>
    \/ \E t \in Started : active_pid[t] = p
    \/ \E q \in Descendant : Parent(q) = p

\* No set of processes is closed under "is waited for by": following the
\* parents of any process ends at a base shell.
Grounded ==
  \A S \in SUBSET Descendant : S # {} => \E p \in S : Parent(p) \notin S

(***************************************************************************)
(* The process table after the first sys_execute of entry(): whatever      *)
(* programs execute, halt and fault in whatever order the timer runs them, *)
(* the slots of pid_array are exactly the processes that run on a terminal *)
(* or wait, along a chain that ends at a base shell, for one that does.    *)
(***************************************************************************)
ProcessTable ==
  Booted => /\ CurrentIsActive
            /\ ActivePrograms
            /\ BasePids
            /\ Waiting
            /\ NoOrphan
            /\ Grounded

(***************************************************************************)
(* A system call or interrupt enters the kernel on the stack of the        *)
(* process that cur_pid names, and the image mapped at 128 MB is the one   *)
(* of that process: execute, halt_helper and pit_handler each switch all   *)
(* three or none, even when boot goes wrong and the table is in disorder.  *)
(***************************************************************************)
MappedProcess ==
  Booted => /\ esp0 = cur_pid
            /\ image_frame = Frame(cur_pid)

(***************************************************************************)
(* The CPU runs user code and system calls on the kernel stack of the      *)
(* process it serves; what pit_handler saved for a program that waits for  *)
(* its turn lies on that program's stack; and the frame halt_helper will   *)
(* return to is on the stack of the parent.                                *)
(***************************************************************************)
RunsOnOwnStack ==
  /\ flow.at = "user" => flow.on = cur_pid
  /\ Booted => \A t \in Started \ {ta} :
       pcb[active_pid[t]].cur.at = "user" =>
         pcb[active_pid[t]].cur.on = active_pid[t]
  /\ Booted => \A p \in Descendant : pcb[p].ebp = Parent(p)

(***************************************************************************)
(* The processes a terminal holds, from its base shell to the program that *)
(* runs on it, found by following parent_pid at most MAX_PID times.        *)
(***************************************************************************)
Parents == [p \in Pids |-> Parent(p)]

\* From chains that end at a parent to chains that end at its child.
Longer(parents, below) ==
  [p \in Pids |-> IF parents[p] = NoPid THEN <<p>> ELSE Append(below[parents[p]], p)]

ChainTo(parents) ==
  LET chain[k \in 0 .. MAX_PID] ==
        IF k = 0 THEN [p \in Pids |-> << >>] ELSE Longer(parents, chain[k - 1])
  IN  chain[MAX_PID]

Chain(t) == ChainTo(Parents)[active_pid[t]]

(***************************************************************************)
(* "pid 0-2 are base shells for the 3 terminals": once the terminals run,  *)
(* the processes of terminal t rest on the base shell with pid t.          *)
(***************************************************************************)
BaseShells == BootDone => \A t \in Terms : Head(Chain(t)) = t

(***************************************************************************)
(* The timer gives every terminal the CPU again and again, and the program *)
(* on top of that terminal is then the one that runs.                      *)
(***************************************************************************)
EveryTerminalRuns ==
  \A t \in Terms : []<>(ta = t /\ Running /\ cur_pid = active_pid[t])
=============================================================================
