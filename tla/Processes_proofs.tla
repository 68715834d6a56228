-------------------------- MODULE Processes_proofs --------------------------
(***************************************************************************)
(* Proofs about Processes, for every number of pids, terminals and exit    *)
(* statuses.                                                               *)
(***************************************************************************)
EXTENDS MCProcesses, FiniteSetTheorems, SequenceTheorems, WellFoundedInduction, TLAPS

(***************************************************************************)
(* TypeOK is inductive once it is known that the kernel has a current      *)
(* process as soon as it has left the boot code.                           *)
(***************************************************************************)
TypeInv == TypeOK /\ (Booted => cur_pid \in Pids)

\* The rotation of pit_handler stays within the terminals.
LEMMA NextTermType == ASSUME TypeOK PROVE NextTerm \in Terms
<1>1. NUM_TERMS \in Nat \ {0} /\ ta \in 0 .. NUM_TERMS - 1
  BY ConstantsAssumption DEF TypeOK, Terms
<1>2. CASE ta + 1 < NUM_TERMS
  <2>1. (ta + 1) % NUM_TERMS = ta + 1
    BY <1>1, <1>2
  <2> QED  BY <1>1, <1>2, <2>1 DEF NextTerm, Terms
<1>3. CASE ta + 1 = NUM_TERMS
  <2>1. (ta + 1) % NUM_TERMS = 0
    BY <1>1, <1>3
  <2> QED  BY <1>1, <2>1 DEF NextTerm, Terms
<1> QED  BY <1>1, <1>2, <1>3

\* A program started by sys_execute keeps the variables in their types.
LEMMA LaunchType ==
  ASSUME TypeOK,
         NEW n \in Pids, NEW caller \in Pids \cup {NoPid},
         NEW array \in [Pids -> {0, 1}], NEW blocks \in [Pids -> PCBs],
         NEW actives \in [Terms -> Pids], NEW term \in Terms,
         launch(n, caller, array, blocks, actives, term),
         ta' \in Terms, terminal_init' \in 1 .. NUM_TERMS + 1
  PROVE  TypeInv'
<1>1. KernelStack \in Pids
  BY DEF TypeOK, KernelStack, Flows
<1>2. ParentOf(n, caller) \in Pids \cup {NoPid}
  BY DEF ParentOf
<1>3. UserFlow(n) \in Flows
  BY DEF UserFlow, Flows
<1>4. [parent_pid |-> ParentOf(n, caller), ebp |-> KernelStack,
       cur |-> UserFlow(n)] \in PCBs
  BY <1>1, <1>2, <1>3 DEF PCBs
<1>5. /\ pid_array' \in [Pids -> {0, 1}]
      /\ active_pid' \in [Terms -> Pids]
      /\ pcb' \in [Pids -> PCBs]
  BY <1>4 DEF launch
<1>6. /\ cur_pid' \in Pids
      /\ prev_pid' \in Pids \cup {NoPid}
      /\ esp0' \in Pids
      /\ image_frame' \in {Frame(p) : p \in Pids} \cup {Unmapped}
      /\ flow' \in Flows
      /\ ret' \in Statuses \cup {NoRet, -1, FUNNY_NUMBER, EXCEPTION_HALT, 0}
  BY <1>2, <1>3 DEF launch, set_esp0, map_image
<1> QED  BY <1>5, <1>6 DEF TypeInv, TypeOK

\* Saving the interrupted flow keeps the control blocks in their type.
LEMMA SavedType == ASSUME TypeOK PROVE Interrupted \in Flows /\ Saved \in [Pids -> PCBs]
<1>1. KernelStack \in Pids /\ Interrupted \in Flows
  BY DEF TypeOK, KernelStack, Interrupted, Flows
<1>2. active_pid[ta] \in Pids
  BY DEF TypeOK
<1> QED  BY <1>1, <1>2 DEF TypeOK, Saved, PCBs

\* Every step of entry(), the system calls and the timer keeps the types.
LEMMA TypeStep == TypeInv /\ [Next]_vars => TypeInv'
<1> SUFFICES ASSUME TypeInv, [Next]_vars PROVE TypeInv'
  OBVIOUS
<1> USE DEF TypeInv
<1>0. /\ TypeOK
      /\ ta \in Terms /\ pid_array \in [Pids -> {0, 1}] /\ pcb \in [Pids -> PCBs]
      /\ active_pid \in [Terms -> Pids] /\ cur_pid \in Pids \cup {NoPid}
      /\ terminal_init \in 1 .. NUM_TERMS + 1
  BY DEF TypeOK
<1>1. CASE entry
  BY <1>0, <1>1, LaunchType DEF entry
<1>2. CASE sys_execute
  BY <1>0, <1>2, LaunchType DEF sys_execute
<1>3. CASE sys_execute_full
  BY <1>3 DEF sys_execute_full, TypeOK, ParentOf, Booted
<1>4. CASE sys_execute_no_file
  BY <1>4 DEF sys_execute_no_file, TypeOK, Booted
<1>5. ASSUME NEW status \in Statuses \cup {EXCEPTION_HALT}, halt_helper(status)
      PROVE  TypeInv'
  <2>1. cur_pid \in Pids
    BY <1>5 DEF halt_helper, Running, Booted
  <2>2. CASE halt_base
    <3>1. PICK n \in Pids :
            launch(n, NoPid, [pid_array EXCEPT ![cur_pid] = 0], pcb,
                   active_pid, ta)
      BY <2>2 DEF halt_base
    <3>2. [pid_array EXCEPT ![cur_pid] = 0] \in [Pids -> {0, 1}]
      BY <1>0
    <3> QED  BY <1>0, <1>5, <3>1, <3>2, LaunchType DEF halt_helper
  <2>3. CASE halt_child(status)
    <3> DEFINE parent == pcb[cur_pid].parent_pid
    <3>1. parent \in Pids /\ pcb[parent].parent_pid \in Pids \cup {NoPid}
      BY <1>0, <2>1, <2>3 DEF halt_child, PCBs
    <3>2. KernelStack \in Pids /\ pcb[cur_pid].ebp \in Pids
      BY <1>0, <2>1 DEF TypeOK, KernelStack, Flows, PCBs
    <3>3. flow' \in Flows /\ ret' \in Statuses \cup {NoRet, EXCEPTION_HALT}
      BY <2>3, <3>2, <1>5 DEF halt_child, HaltReturn, UserFlow, Flows
    <3>4. /\ pid_array' \in [Pids -> {0, 1}]
          /\ active_pid' \in [Terms -> Pids]
          /\ cur_pid' \in Pids /\ esp0' \in Pids
          /\ prev_pid' \in Pids \cup {NoPid}
          /\ image_frame' \in {Frame(p) : p \in Pids} \cup {Unmapped}
          /\ pcb' = pcb
      BY <1>0, <2>1, <2>3, <3>1 DEF halt_child, set_esp0, map_image
    <3> QED  BY <1>0, <1>5, <3>3, <3>4 DEF TypeOK, halt_helper
  <2> QED  BY <1>5, <2>2, <2>3 DEF halt_helper
<1>6. CASE return_to_parent
  <2>1. pcb[flow.on].ebp \in Pids /\ flow.status \in Statuses \cup {0, EXCEPTION_HALT}
    BY DEF TypeOK, Flows, PCBs
  <2>2. UserFlow(pcb[flow.on].ebp) \in Flows
    BY <2>1 DEF UserFlow, Flows
  <2> QED  BY <1>6, <2>1, <2>2 DEF return_to_parent, TypeOK, Booted
<1>7. CASE pit_handler /\ start_terminal
  <2> DEFINE t == terminal_init
             actives == [active_pid EXCEPT ![t] = t]
  <2>1. /\ t \in Terms /\ t \in Pids
        /\ ta' \in Terms /\ terminal_init' \in 1 .. NUM_TERMS + 1
        /\ actives \in [Terms -> Pids]
    BY <1>0, <1>7, ConstantsAssumption DEF start_terminal, Terms, Pids
  <2>2. Saved \in [Pids -> PCBs]
    BY <1>0, SavedType
  <2>3. ASSUME NEW n \in Pids,
               launch(n, cur_pid, pid_array, Saved, actives, t)
        PROVE  TypeInv'
    BY <1>0, <2>1, <2>2, <2>3, LaunchType
  <2>4. ASSUME prev_pid' = ParentOf(cur_pid, cur_pid),
               active_pid' = actives, pcb' = Saved, ret' = NoRet,
               UNCHANGED <<pid_array, cur_pid, esp0, image_frame, flow>>
        PROVE  TypeInv'
    BY <2>1, <2>2, <2>4 DEF TypeOK, ParentOf, Booted
  <2> QED  BY <1>7, <2>3, <2>4 DEF start_terminal
<1>8. CASE pit_handler /\ rotate
  <2>1. NextTerm \in Terms
    BY <1>0, NextTermType
  <2>2. Saved \in [Pids -> PCBs]
    BY <1>0, SavedType
  <2> DEFINE p == active_pid[NextTerm]
  <2>3. p \in Pids /\ Saved[p].cur \in Flows
        /\ pcb[p].parent_pid \in Pids \cup {NoPid}
    BY <1>0, <2>1, <2>2 DEF PCBs
  <2>4. /\ ta' \in Terms /\ cur_pid' \in Pids /\ esp0' \in Pids
        /\ prev_pid' \in Pids \cup {NoPid}
        /\ image_frame' \in {Frame(q) : q \in Pids} \cup {Unmapped}
        /\ pcb' \in [Pids -> PCBs] /\ flow' \in Flows /\ ret' = NoRet
    BY <1>8, <2>1, <2>2, <2>3 DEF rotate, switch_to, set_esp0, map_image
  <2>5. terminal_init' \in 1 .. NUM_TERMS + 1
    BY <1>8, ConstantsAssumption DEF rotate
  <2> QED  BY <1>8, <2>4, <2>5 DEF TypeOK, rotate
<1>9. CASE UNCHANGED vars
  BY <1>9 DEF vars, TypeOK, Booted
<1> QED
  BY <1>1, <1>2, <1>3, <1>4, <1>5, <1>6, <1>7, <1>8, <1>9
     DEF Next, sys_halt, handle_exception, pit_handler

\* Init establishes the types.
LEMMA TypeInit == Init => TypeInv
<1> SUFFICES ASSUME Init PROVE TypeInv
  OBVIOUS
<1>1. 0 \in Pids /\ 0 \in Terms
  BY ConstantsAssumption DEF Pids, Terms
<1>2. BootFlow \in Flows /\ UserFlow(0) \in Flows
  BY <1>1 DEF BootFlow, UserFlow, Flows
<1>3. [parent_pid |-> 0, ebp |-> 0, cur |-> UserFlow(0)] \in PCBs
  BY <1>1, <1>2 DEF PCBs
<1>4. ~ Booted
  BY DEF Init, Booted, BootFlow
<1> QED
  BY <1>1, <1>2, <1>3, <1>4, ConstantsAssumption DEF Init, TypeInv, TypeOK

(***************************************************************************)
(* Every variable of the process management keeps its type in every        *)
(* behaviour, with every window open: no tick, halt or failed execute, in  *)
(* particular, makes the kernel use a pid, a stack or a terminal that does *)
(* not exist.                                                              *)
(***************************************************************************)
THEOREM TypeCorrect == Spec => []TypeOK
<1>1. TypeInv => TypeOK
  BY DEF TypeInv
<1> QED  BY <1>1, TypeInit, TypeStep, PTL DEF Spec

-----------------------------------------------------------------------------
(***************************************************************************)
(* The process table.  ProcessTable speaks of the time after boot, so the  *)
(* inductive invariant adds how boot gets there: nothing happens before    *)
(* the first sys_execute, no saved flow leads back into the boot code, and *)
(* only base shells exist until all of them do.                            *)
(***************************************************************************)
QuietBoot == Windows \subseteq {"halt"}

BootOrder ==
  /\ ~ Booted => /\ terminal_init = 1 /\ ta = 0
                 /\ pid_array = [p \in Pids |-> 0]
  /\ \A p \in Pids : pcb[p].cur.at # "boot"
  /\ Booted /\ ~ BootDone => Descendant = {}

TableInv == TypeInv /\ BootOrder /\ ProcessTable

\* What the process table says is about these variables only.
LEMMA TableUnchanged ==
  ASSUME ProcessTable, Booted, TypeInv, TypeInv',
         pid_array' = pid_array, active_pid' = active_pid,
         \A p \in Pids : Parent(p)' = Parent(p),
         Started' = Started, CurrentIsActive'
  PROVE  ProcessTable'
<1>1. Descendant' = Descendant
  BY DEF Descendant, Live
<1>2. \A p \in Pids : Live(p)' = Live(p)
  BY DEF Live
<1>3. Descendant \subseteq Pids /\ Started \subseteq Terms
  BY DEF Descendant, Started
<1>4. ActivePrograms'
  BY <1>3 DEF ProcessTable, ActivePrograms, Live
<1>5. BasePids'
  BY <1>2 DEF ProcessTable, BasePids, Live
<1>6. Waiting'
  BY <1>1, <1>2, <1>3 DEF ProcessTable, Waiting, Live
<1>7. NoOrphan'
  BY <1>1, <1>2, <1>3 DEF ProcessTable, NoOrphan
<1>8. Grounded'
  BY <1>1, <1>3 DEF ProcessTable, Grounded
<1> QED  BY <1>4, <1>5, <1>6, <1>7, <1>8 DEF ProcessTable

\* What sys_execute after boot does to the tables.
LEMMA PushFacts ==
  ASSUME TableInv, Booted, BootDone, terminal_init' = terminal_init,
         NEW n \in Pids, NextOpen(pid_array, n),
         launch(n, cur_pid, pid_array, pcb, active_pid, ta)
  PROVE  /\ Started = Terms /\ Started' = Terms
         /\ ~ Live(n) /\ n >= NUM_TERMS
         /\ Live(cur_pid) /\ cur_pid # n /\ cur_pid = active_pid[ta]
         /\ ParentOf(n, cur_pid) = cur_pid
         /\ Parent(n)' = cur_pid
         /\ \A p \in Pids \ {n} : Parent(p)' = Parent(p)
         /\ Live(n)'
         /\ \A p \in Pids \ {n} : Live(p)' = Live(p)
         /\ active_pid'[ta] = n
         /\ \A t \in Terms \ {ta} : active_pid'[t] = active_pid[t]
<1> USE DEF TableInv
<1>0. CurrentIsActive /\ ActivePrograms /\ BasePids
  BY DEF ProcessTable
<1>1. /\ pid_array \in [Pids -> {0, 1}] /\ pcb \in [Pids -> PCBs]
      /\ active_pid \in [Terms -> Pids] /\ ta \in Terms
      /\ cur_pid \in Pids /\ terminal_init \in 1 .. NUM_TERMS + 1
  BY DEF TypeInv, TypeOK
<1>2. Started = Terms /\ Started' = Terms
  BY <1>1, ConstantsAssumption DEF BootDone, Started, Terms
<1>3. ~ Live(n) /\ n >= NUM_TERMS
  BY <1>0, <1>1, <1>2, ConstantsAssumption
     DEF NextOpen, Live, BasePids, Terms, Pids
<1>4. Live(cur_pid) /\ cur_pid # n /\ cur_pid = active_pid[ta]
  BY <1>0, <1>2, <1>3 DEF CurrentIsActive, ActivePrograms
<1>5. ParentOf(n, cur_pid) = cur_pid
  BY <1>3, <1>1, ConstantsAssumption DEF ParentOf, Pids
<1> QED  BY <1>1, <1>2, <1>3, <1>4, <1>5 DEF launch, Parent, Live

\* A program pushes another one: sys_execute after boot.
LEMMA PushTable ==
  ASSUME TableInv, TypeInv', Booted, BootDone, terminal_init' = terminal_init,
         ta' = ta, NEW n \in Pids, NextOpen(pid_array, n),
         launch(n, cur_pid, pid_array, pcb, active_pid, ta)
  PROVE  BootOrder' /\ ProcessTable'
<1> USE DEF TableInv
<1>0. /\ CurrentIsActive /\ ActivePrograms /\ BasePids
      /\ Waiting /\ NoOrphan /\ Grounded
  BY DEF ProcessTable
<1>1. /\ pid_array \in [Pids -> {0, 1}] /\ pcb \in [Pids -> PCBs]
      /\ active_pid \in [Terms -> Pids] /\ ta \in Terms
      /\ cur_pid \in Pids /\ terminal_init \in 1 .. NUM_TERMS + 1
  BY DEF TypeInv, TypeOK
<1>2. Started = Terms /\ Started' = Terms
  BY PushFacts
<1>3. ~ Live(n) /\ n >= NUM_TERMS
  BY PushFacts
<1>4. Live(cur_pid) /\ cur_pid # n /\ cur_pid = active_pid[ta]
  BY PushFacts
<1>5. ParentOf(n, cur_pid) = cur_pid
  BY PushFacts
<1>6. /\ Parent(n)' = cur_pid
      /\ \A p \in Pids \ {n} : Parent(p)' = Parent(p)
      /\ Live(n)'
      /\ \A p \in Pids \ {n} : Live(p)' = Live(p)
      /\ active_pid'[ta] = n
      /\ \A t \in Terms \ {ta} : active_pid'[t] = active_pid[t]
  BY PushFacts
<1>7. /\ Descendant' = Descendant \cup {n} /\ n \notin Descendant
      /\ Descendant \subseteq Pids
  BY <1>3, <1>6 DEF Descendant
<1>8. \A p \in Descendant : Parent(p) # n
  BY <1>0, <1>3 DEF Waiting
<1>9. CurrentIsActive'
  BY <1>1, <1>2, <1>5, <1>6, ConstantsAssumption DEF CurrentIsActive, launch
<1>10. ActivePrograms'
  BY <1>0, <1>1, <1>2, <1>3, <1>6 DEF ActivePrograms
<1>11. BasePids'
  <2>1. \A p \in Terms : Live(p)' <=> p \in Started'
    BY <1>0, <1>2, <1>3, <1>6, ConstantsAssumption DEF BasePids, Terms, Pids
  <2>2. \A p \in Pids : Live(p)' => (Parent(p)' = NoPid <=> p < NUM_TERMS)
    BY <1>0, <1>1, <1>3, <1>6, ConstantsAssumption DEF BasePids, NoPid, Pids
  <2> QED  BY <2>1, <2>2 DEF BasePids
<1>12. Waiting'
  <2>1. \A p \in Descendant' : Parent(p)' \in Pids /\ Live(Parent(p))'
    <3>1. pid_array'[cur_pid] = 1
      BY <1>1, <1>4, <1>6 DEF Live
    <3>2. Live(Parent(n))'
      BY <1>6, <3>1 DEF Live, Parent
    <3>3. ASSUME NEW p \in Descendant PROVE Parent(p)' \in Pids /\ Live(Parent(p))'
      <4>1. Parent(p)' = Parent(p) /\ Parent(p) \in Pids \ {n} /\ Live(Parent(p))
        BY <1>0, <1>6, <1>7, <1>8 DEF Waiting
      <4>2. Live(Parent(p)) => pid_array'[Parent(p)] = 1
        BY <1>6, <4>1 DEF Live
      <4> QED  BY <4>1, <4>2 DEF Live
    <3> QED  BY <1>1, <1>6, <1>7, <3>2, <3>3
  <2>2. \A p \in Descendant : Parent(p) # cur_pid
    BY <1>0, <1>1, <1>2, <1>4 DEF Waiting
  <2>3. \A p, q \in Descendant' : Parent(p)' = Parent(q)' => p = q
    BY <1>0, <1>6, <1>7, <2>2 DEF Waiting
  <2>4. \A p \in Descendant', t \in Started' : Parent(p)' # active_pid'[t]
    <3>1. \A t \in Terms : active_pid[t] = cur_pid => t = ta
      BY <1>0, <1>1, <1>2, <1>4 DEF ActivePrograms
    <3> QED  BY <1>0, <1>1, <1>2, <1>4, <1>6, <1>7, <1>8, <3>1 DEF Waiting
  <2> QED  BY <2>1, <2>3, <2>4 DEF Waiting
<1>13. NoOrphan'
  <2> SUFFICES ASSUME NEW p \in Pids, Live(p)'
               PROVE  \/ \E t \in Started' : active_pid'[t] = p
                      \/ \E q \in Descendant' : Parent(q)' = p
    BY DEF NoOrphan
  <2>1. CASE p = n
    BY <1>1, <1>2, <1>6, <2>1
  <2>2. CASE p = cur_pid
    BY <1>6, <1>7, <2>2
  <2>3. CASE p # n /\ p # cur_pid
    <3>1. \/ \E t \in Terms \ {ta} : active_pid[t] = p
          \/ \E q \in Descendant : Parent(q) = p
      BY <1>0, <1>2, <1>4, <1>6, <2>3 DEF NoOrphan
    <3> QED  BY <1>2, <1>6, <1>7, <3>1
  <2> QED  BY <2>1, <2>2, <2>3
<1>14. Grounded'
  <2> SUFFICES ASSUME NEW S \in SUBSET Descendant', S # {}
               PROVE  \E p \in S : Parent(p)' \notin S
    BY DEF Grounded
  <2>1. CASE S \ {n} = {}
    BY <1>4, <1>6, <2>1
  <2>2. CASE S \ {n} # {}
    <3>1. S \ {n} \in SUBSET Descendant
      BY <1>7
    <3>2. PICK p \in S \ {n} : Parent(p) \notin S \ {n}
      BY <1>0, <2>2, <3>1 DEF Grounded
    <3> QED  BY <1>6, <1>7, <1>8, <3>1, <3>2
  <2> QED  BY <2>1, <2>2
<1>15. BootOrder'
  BY <1>1 DEF BootOrder, launch, UserFlow, Booted, BootDone, PCBs
<1> QED
  BY <1>9, <1>10, <1>11, <1>12, <1>13, <1>14, <1>15 DEF ProcessTable

\* What the end of a process with a parent does to the tables.
LEMMA PopFacts ==
  ASSUME TableInv, Booted, ta' = ta, NEW status, halt_child(status)
  PROVE  /\ Live(cur_pid) /\ cur_pid = active_pid[ta] /\ cur_pid \in Descendant
         /\ Parent(cur_pid) \in Pids /\ Live(Parent(cur_pid)) /\ Parent(cur_pid) # cur_pid
         /\ \A t \in Started : Parent(cur_pid) # active_pid[t]
         /\ BootDone
         /\ \A p \in Pids : Parent(p)' = Parent(p)
         /\ pid_array'[cur_pid] = 0
         /\ \A p \in Pids \ {cur_pid} : pid_array'[p] = pid_array[p]
         /\ active_pid'[ta] = Parent(cur_pid)
         /\ \A t \in Terms \ {ta} : active_pid'[t] = active_pid[t]
         /\ cur_pid' = Parent(cur_pid)
         /\ prev_pid' = Parent(Parent(cur_pid))
<1> USE DEF TableInv
<1>0. CurrentIsActive /\ ActivePrograms /\ BasePids /\ Waiting
  BY DEF ProcessTable
<1>1. /\ pid_array \in [Pids -> {0, 1}] /\ pcb \in [Pids -> PCBs]
      /\ active_pid \in [Terms -> Pids] /\ ta \in Started
      /\ cur_pid \in Pids /\ Started \subseteq Terms
  BY <1>0 DEF TypeInv, TypeOK, CurrentIsActive, Started
<1>2. Live(cur_pid) /\ cur_pid = active_pid[ta]
  BY <1>0, <1>1 DEF CurrentIsActive, ActivePrograms
<1>3. cur_pid \in Descendant
  BY <1>0, <1>1, <1>2, ConstantsAssumption
     DEF halt_child, BasePids, Parent, Descendant, Pids
<1>4. /\ Parent(cur_pid) \in Pids /\ Live(Parent(cur_pid)) /\ Parent(cur_pid) # cur_pid
      /\ \A t \in Started : Parent(cur_pid) # active_pid[t]
  BY <1>0, <1>1, <1>2, <1>3 DEF Waiting
<1>5. BootDone
  BY <1>3 DEF BootOrder
<1>6. /\ \A p \in Pids : Parent(p)' = Parent(p)
      /\ pid_array'[cur_pid] = 0
      /\ \A p \in Pids \ {cur_pid} : pid_array'[p] = pid_array[p]
      /\ active_pid'[ta] = Parent(cur_pid)
      /\ \A t \in Terms \ {ta} : active_pid'[t] = active_pid[t]
      /\ cur_pid' = Parent(cur_pid)
      /\ prev_pid' = Parent(Parent(cur_pid))
  BY <1>1 DEF halt_child, Parent
<1> QED  BY <1>2, <1>3, <1>4, <1>5, <1>6

\* A process that is no base shell ends: halt_helper up to its sti().
LEMMA PopTable ==
  ASSUME TableInv, TypeInv', Booted, terminal_init' = terminal_init,
         ta' = ta, NEW status, halt_child(status)
  PROVE  BootOrder' /\ ProcessTable'
<1> USE DEF TableInv
<1>0. /\ CurrentIsActive /\ ActivePrograms /\ BasePids
      /\ Waiting /\ NoOrphan /\ Grounded
  BY DEF ProcessTable
<1>1. /\ pid_array \in [Pids -> {0, 1}] /\ pcb \in [Pids -> PCBs]
      /\ active_pid \in [Terms -> Pids] /\ ta \in Started
      /\ cur_pid \in Pids /\ terminal_init \in 1 .. NUM_TERMS + 1
      /\ Started \subseteq Terms /\ Started' = Started
  BY <1>0 DEF TypeInv, TypeOK, CurrentIsActive, Started
<1> DEFINE c == cur_pid
           q == Parent(cur_pid)
<1>2. Live(c) /\ c = active_pid[ta]
  BY PopFacts
<1>3. c >= NUM_TERMS /\ c \in Descendant /\ c \notin Terms
  BY <1>1, PopFacts, ConstantsAssumption DEF Descendant, Pids, Terms
<1>4. /\ q \in Pids /\ Live(q) /\ q # c
      /\ \A t \in Started : q # active_pid[t]
  BY PopFacts
<1>5. BootDone
  BY PopFacts
<1>6. /\ \A p \in Pids : Parent(p)' = Parent(p)
      /\ pid_array'[c] = 0
      /\ \A p \in Pids \ {c} : pid_array'[p] = pid_array[p]
      /\ active_pid'[ta] = q
      /\ \A t \in Terms \ {ta} : active_pid'[t] = active_pid[t]
      /\ cur_pid' = q
      /\ prev_pid' = Parent(q)
      /\ ta' = ta
  BY PopFacts
<1>7. Descendant' = Descendant \ {c} /\ Descendant \subseteq Pids
  BY <1>1, <1>3, <1>6 DEF Descendant, Live
<1>8. \A p \in Descendant : Parent(p) # c
  BY <1>0, <1>1, <1>2 DEF Waiting
<1>9. CurrentIsActive'
  <2>1. Parent(cur_pid)' = Parent(q)
    BY <1>4, <1>6 DEF Parent
  <2> QED  BY <1>1, <1>6, <2>1 DEF CurrentIsActive
<1>10. ActivePrograms'
  <2>1. \A t \in Started : pid_array'[active_pid'[t]] = 1
    BY <1>0, <1>1, <1>2, <1>4, <1>6 DEF ActivePrograms, Live
  <2>2. \A t, u \in Started : active_pid'[t] = active_pid'[u] => t = u
    BY <1>0, <1>1, <1>4, <1>6 DEF ActivePrograms
  <2> QED  BY <1>1, <2>1, <2>2 DEF ActivePrograms, Live
<1>11. BasePids'
  <2>1. \A p \in Terms : pid_array'[p] = 1 <=> p \in Started'
    BY <1>0, <1>1, <1>3, <1>6, ConstantsAssumption
       DEF BasePids, Live, Terms, Pids
  <2>2. \A p \in Pids : pid_array'[p] = 1 => (Parent(p)' = NoPid <=> p < NUM_TERMS)
    BY <1>0, <1>6 DEF BasePids, Live
  <2> QED  BY <2>1, <2>2 DEF BasePids, Live
<1>12. Waiting'
  <2>1. \A p \in Descendant' : Parent(p)' \in Pids /\ pid_array'[Parent(p)'] = 1
    BY <1>0, <1>6, <1>7, <1>8 DEF Waiting, Live
  <2>2. \A p, r \in Descendant' : Parent(p)' = Parent(r)' => p = r
    BY <1>0, <1>6, <1>7 DEF Waiting
  <2>3. \A p \in Descendant' : Parent(p)' # q
    BY <1>0, <1>3, <1>6, <1>7 DEF Waiting
  <2>4. \A p \in Descendant', t \in Started' : Parent(p)' # active_pid'[t]
    BY <1>0, <1>1, <1>6, <1>7, <2>3 DEF Waiting
  <2> QED  BY <2>1, <2>2, <2>4 DEF Waiting, Live
<1>13. NoOrphan'
  <2> SUFFICES ASSUME NEW p \in Pids, pid_array'[p] = 1
               PROVE  \/ \E t \in Started' : active_pid'[t] = p
                      \/ \E r \in Descendant' : Parent(r)' = p
    BY DEF NoOrphan, Live
  <2>1. p # c /\ Live(p)
    BY <1>1, <1>6 DEF Live
  <2>2. CASE p = q
    BY <1>1, <1>6, <2>2
  <2>3. CASE p # q
    <3>1. \/ \E t \in Started \ {ta} : active_pid[t] = p
          \/ \E r \in Descendant \ {c} : Parent(r) = p
      BY <1>0, <1>2, <2>1, <2>3 DEF NoOrphan
    <3> QED  BY <1>1, <1>6, <1>7, <3>1
  <2> QED  BY <2>2, <2>3
<1>14. Grounded'
  BY <1>0, <1>6, <1>7 DEF Grounded
<1>15. BootOrder'
  <2>1. Booted' /\ BootDone'
    BY <1>5 DEF halt_child, HaltReturn, UserFlow, Booted, BootDone
  <2> QED  BY <2>1 DEF BootOrder, halt_child
<1> QED
  BY <1>9, <1>10, <1>11, <1>12, <1>13, <1>14, <1>15 DEF ProcessTable

\* A base shell ends: the slot it frees is the one its successor takes.
LEMMA RestartSlot ==
  ASSUME TableInv, Booted, Parent(cur_pid) = NoPid, NEW n \in Pids,
         NextOpen([pid_array EXCEPT ![cur_pid] = 0], n)
  PROVE  n = cur_pid /\ cur_pid \in Started
<1> USE DEF TableInv
<1>0. CurrentIsActive /\ ActivePrograms /\ BasePids
  BY DEF ProcessTable
<1>1. /\ pid_array \in [Pids -> {0, 1}]
      /\ active_pid \in [Terms -> Pids] /\ ta \in Started
      /\ cur_pid \in Pids /\ terminal_init \in 1 .. NUM_TERMS + 1
      /\ Started \subseteq Terms
  BY <1>0 DEF TypeInv, TypeOK, CurrentIsActive, Started
<1>2. Live(cur_pid)
  BY <1>0, <1>1 DEF CurrentIsActive, ActivePrograms
<1>3. cur_pid \in Started
  BY <1>0, <1>1, <1>2, ConstantsAssumption DEF BasePids, Terms, Pids
<1>4. ~ (cur_pid < n)
  BY <1>1 DEF NextOpen, Pids
<1>5. ~ (n < cur_pid)
  <2> SUFFICES ASSUME n < cur_pid PROVE FALSE
    OBVIOUS
  <2>1. ~ Live(n)
    BY <1>1 DEF NextOpen, Live, Pids
  <2>2. n \in Started
    BY <1>1, <1>3, ConstantsAssumption DEF Started, Terms, Pids
  <2> QED  BY <1>0, <1>1, <2>1, <2>2 DEF BasePids
<1> QED  BY <1>1, <1>3, <1>4, <1>5 DEF Pids

\* What the end of a base shell does to the tables: nothing.
LEMMA RestartFacts ==
  ASSUME TableInv, Booted, ta' = ta, halt_base
  PROVE  /\ cur_pid = active_pid[ta] /\ Parent(cur_pid) = NoPid
         /\ pid_array' = pid_array /\ active_pid' = active_pid
         /\ cur_pid' = cur_pid /\ prev_pid' = NoPid
         /\ \A p \in Pids : Parent(p)' = Parent(p)
<1> USE DEF TableInv
<1>0. CurrentIsActive /\ ActivePrograms /\ BasePids
  BY DEF ProcessTable
<1>1. /\ pid_array \in [Pids -> {0, 1}] /\ pcb \in [Pids -> PCBs]
      /\ active_pid \in [Terms -> Pids] /\ ta \in Started
      /\ cur_pid \in Pids /\ Started \subseteq Terms
  BY <1>0 DEF TypeInv, TypeOK, CurrentIsActive, Started
<1> DEFINE array == [pid_array EXCEPT ![cur_pid] = 0]
<1>2. PICK n \in Pids : /\ NextOpen(array, n)
                        /\ launch(n, NoPid, array, pcb, active_pid, ta)
  BY DEF halt_base
<1>3. cur_pid = active_pid[ta] /\ Live(cur_pid) /\ Parent(cur_pid) = NoPid
  BY <1>0, <1>1 DEF CurrentIsActive, ActivePrograms, halt_base, Parent
<1>4. n = cur_pid /\ cur_pid \in Started
  BY <1>2, <1>3, RestartSlot
<1>5. /\ pid_array' = pid_array /\ active_pid' = active_pid
      /\ cur_pid' = cur_pid /\ prev_pid' = NoPid
  BY <1>1, <1>2, <1>3, <1>4, ConstantsAssumption
     DEF launch, Live, ParentOf, Started, Terms
<1>6. Parent(n)' = NoPid /\ \A p \in Pids \ {n} : Parent(p)' = Parent(p)
  BY <1>1, <1>2, <1>5 DEF launch, Parent, ParentOf
<1> QED  BY <1>3, <1>4, <1>5, <1>6

\* Restarting a base shell leaves the process table as it is.
LEMMA RestartTable ==
  ASSUME TableInv, TypeInv', Booted, terminal_init' = terminal_init,
         ta' = ta, halt_base
  PROVE  BootOrder' /\ ProcessTable'
<1> USE DEF TableInv
<1>0. CurrentIsActive /\ ActivePrograms /\ BasePids
  BY DEF ProcessTable
<1>1. /\ pid_array \in [Pids -> {0, 1}] /\ pcb \in [Pids -> PCBs]
      /\ active_pid \in [Terms -> Pids] /\ ta \in Started
      /\ cur_pid \in Pids /\ terminal_init \in 1 .. NUM_TERMS + 1
      /\ Started \subseteq Terms /\ Started' = Started
  BY <1>0 DEF TypeInv, TypeOK, CurrentIsActive, Started
<1> DEFINE array == [pid_array EXCEPT ![cur_pid] = 0]
<1>2. PICK n \in Pids : /\ NextOpen(array, n)
                        /\ launch(n, NoPid, array, pcb, active_pid, ta)
  BY DEF halt_base
<1>3. cur_pid = active_pid[ta] /\ Parent(cur_pid) = NoPid
  BY RestartFacts
<1>6. /\ pid_array' = pid_array /\ active_pid' = active_pid
      /\ cur_pid' = cur_pid /\ prev_pid' = NoPid
  BY RestartFacts
<1>7. \A p \in Pids : Parent(p)' = Parent(p)
  BY RestartFacts
<1>8. CurrentIsActive'
  BY <1>0, <1>1, <1>3, <1>6, <1>7 DEF CurrentIsActive, Parent
<1>9. ProcessTable'
  BY <1>1, <1>6, <1>7, <1>8, TableUnchanged
<1>10. BootOrder'
  <2>1. \A p \in Pids : pcb'[p].cur.at # "boot"
    BY <1>1, <1>2 DEF launch, UserFlow, BootOrder, PCBs
  <2>2. Booted'
    BY <1>2 DEF launch, UserFlow, Booted
  <2>3. Descendant' = Descendant
    BY <1>6 DEF Descendant, Live
  <2> QED  BY <2>1, <2>2, <2>3 DEF BootOrder, BootDone
<1> QED  BY <1>9, <1>10

\* What entry() does to the tables.
LEMMA EntryFacts ==
  ASSUME TableInv, entry
  PROVE  /\ ta = 0 /\ ta' = 0 /\ 0 \in Pids /\ 0 \in Terms
         /\ Live(0)' /\ \A p \in Pids \ {0} : ~ Live(p)'
         /\ Parent(0)' = NoPid /\ cur_pid' = 0 /\ prev_pid' = NoPid
         /\ active_pid'[0] = 0 /\ flow' = UserFlow(0)
         /\ Started' = {0} /\ Descendant' = {}
         /\ \A p \in Pids : pcb'[p].cur.at # "boot"
<1> USE DEF TableInv
<1>1. /\ pid_array = [p \in Pids |-> 0] /\ ta = 0 /\ terminal_init = 1
      /\ ta' = 0 /\ terminal_init' = 1 /\ 0 \in Pids /\ 0 \in Terms
      /\ pcb \in [Pids -> PCBs] /\ active_pid \in [Terms -> Pids]
  BY ConstantsAssumption DEF entry, BootOrder, Booted, Pids, Terms, TypeInv, TypeOK
<1>2. PICK n \in Pids : /\ NextOpen(pid_array, n)
                        /\ launch(n, cur_pid, pid_array, pcb, active_pid, ta)
  BY DEF entry
<1>3. n = 0
  BY <1>1, <1>2 DEF NextOpen, Pids
<1>4. /\ Live(0)' /\ \A p \in Pids \ {0} : ~ Live(p)'
      /\ Parent(0)' = NoPid /\ cur_pid' = 0 /\ prev_pid' = NoPid
      /\ active_pid'[0] = 0 /\ flow' = UserFlow(0)
  BY <1>1, <1>2, <1>3, ConstantsAssumption DEF launch, Live, Parent, ParentOf
<1>5. Started' = {0} /\ Descendant' = {}
  BY <1>1, <1>4, ConstantsAssumption DEF Started, Descendant, Terms, Pids
<1>6. \A p \in Pids : pcb'[p].cur.at # "boot"
  BY <1>1, <1>2 DEF launch, UserFlow, BootOrder, PCBs
<1> QED  BY <1>1, <1>4, <1>5, <1>6

\* entry() starts the first base shell on terminal 0.
LEMMA EntryTable ==
  ASSUME TableInv, TypeInv', entry
  PROVE  BootOrder' /\ ProcessTable'
<1>1. ta' = 0
  BY EntryFacts
<1>4. /\ Live(0)' /\ \A p \in Pids \ {0} : ~ Live(p)'
      /\ Parent(0)' = NoPid /\ cur_pid' = 0 /\ prev_pid' = NoPid
      /\ active_pid'[0] = 0 /\ flow' = UserFlow(0)
  BY EntryFacts
<1>5. Started' = {0} /\ Descendant' = {}
  BY EntryFacts
<1>6. CurrentIsActive'
  BY <1>1, <1>4, <1>5 DEF CurrentIsActive, Parent
<1>7. ActivePrograms'
  BY <1>4, <1>5 DEF ActivePrograms, Live
<1>8. BasePids'
  BY <1>4, <1>5, ConstantsAssumption DEF BasePids, Terms, Pids
<1>9. Waiting' /\ Grounded'
  BY <1>5 DEF Waiting, Grounded
<1>10. NoOrphan'
  BY <1>4, <1>5 DEF NoOrphan
<1>11. BootOrder'
  BY <1>4, <1>5, EntryFacts DEF BootOrder, Booted, UserFlow
<1> QED  BY <1>6, <1>7, <1>8, <1>9, <1>10, <1>11 DEF ProcessTable

\* Saving a flow that is past boot leaves the parents and BootOrder alone.
LEMMA SavedKeepsParents ==
  ASSUME TableInv, Booted
  PROVE  \A p \in Pids : /\ Saved[p].parent_pid = Parent(p)
                         /\ Saved[p].cur.at # "boot"
<1>1. /\ pcb \in [Pids -> PCBs] /\ active_pid[ta] \in Pids
      /\ flow \in Flows
      /\ \A p \in Pids : pcb[p].cur.at # "boot"
  BY DEF TableInv, TypeInv, TypeOK, BootOrder
<1>2. Interrupted.at # "boot"
  BY <1>1 DEF Interrupted, Booted, Flows
<1> QED  BY <1>1, <1>2 DEF Saved, Parent, PCBs

\* What a tick during boot does to the tables.
LEMMA StartFacts ==
  ASSUME TableInv, Booted, start_terminal
  PROVE  \E n \in Pids :
           /\ n = terminal_init /\ n \in Terms /\ n < NUM_TERMS /\ ta' = n
           /\ Started' = Started \cup {n} /\ n \notin Started /\ Started \subseteq Terms
           /\ pid_array[n] = 0 /\ Descendant = {} /\ ret' = NoRet
           /\ Parent(n)' = NoPid
           /\ \A p \in Pids \ {n} : Parent(p)' = Parent(p)
           /\ pid_array'[n] = 1
           /\ \A p \in Pids \ {n} : pid_array'[p] = pid_array[p]
           /\ active_pid'[n] = n
           /\ \A u \in Terms \ {n} : active_pid'[u] = active_pid[u]
           /\ cur_pid' = n /\ prev_pid' = NoPid /\ flow' = UserFlow(n)
           /\ \A p \in Pids : pcb'[p].cur.at # "boot"
<1> USE DEF TableInv
<1> DEFINE t == terminal_init
           actives == [active_pid EXCEPT ![t] = t]
<1>0. /\ CurrentIsActive /\ ActivePrograms /\ BasePids /\ NoOrphan
      /\ Descendant = {}
  BY ConstantsAssumption DEF ProcessTable, BootOrder, BootDone, start_terminal,
     TypeInv, TypeOK
<1>1. /\ pid_array \in [Pids -> {0, 1}] /\ pcb \in [Pids -> PCBs]
      /\ active_pid \in [Terms -> Pids] /\ cur_pid \in Pids
      /\ t \in Terms /\ t \in Pids /\ t \in Nat /\ t < NUM_TERMS
      /\ terminal_init' = t + 1 /\ ta' = t
  <2>1. /\ pid_array \in [Pids -> {0, 1}] /\ pcb \in [Pids -> PCBs]
        /\ active_pid \in [Terms -> Pids] /\ cur_pid \in Pids
        /\ t \in 1 .. NUM_TERMS + 1
    BY DEF TypeInv, TypeOK
  <2>2. t < NUM_TERMS /\ terminal_init' = t + 1 /\ ta' = t
    BY DEF start_terminal
  <2> QED  BY <2>1, <2>2, ConstantsAssumption DEF Terms, Pids
<1>2. Started' = Started \cup {t} /\ t \notin Started /\ Started \subseteq Terms
  BY <1>1, ConstantsAssumption DEF Started, Terms
<1>3. pid_array[t] = 0 /\ \A p \in 0 .. t - 1 : pid_array[p] = 1
  BY <1>0, <1>1, <1>2, ConstantsAssumption
     DEF BasePids, Live, Started, Terms, Pids
<1>4. PICK n \in Pids : /\ NextOpen(pid_array, n)
                        /\ launch(n, cur_pid, pid_array, Saved, actives, t)
  <2>1. ~ Full(pid_array)
    BY <1>1, <1>3 DEF Full
  <2> QED  BY <2>1 DEF start_terminal
<1>5. n = t
  BY <1>1, <1>3, <1>4 DEF NextOpen, Pids
<1>6. /\ Saved \in [Pids -> PCBs]
      /\ \A p \in Pids : Saved[p].parent_pid = Parent(p) /\ Saved[p].cur.at # "boot"
  BY SavedType, SavedKeepsParents DEF TypeInv
<1>7. /\ n \in Terms /\ n < NUM_TERMS /\ ta' = n
      /\ Started' = Started \cup {n} /\ n \notin Started
  BY <1>1, <1>2, <1>5
<1>8. /\ Parent(n)' = NoPid
      /\ \A p \in Pids \ {n} : Parent(p)' = Parent(p)
      /\ pid_array'[n] = 1
      /\ \A p \in Pids \ {n} : pid_array'[p] = pid_array[p]
      /\ active_pid'[n] = n
      /\ \A u \in Terms \ {n} : active_pid'[u] = active_pid[u]
      /\ cur_pid' = n /\ prev_pid' = NoPid /\ flow' = UserFlow(n)
      /\ \A p \in Pids : pcb'[p].cur.at # "boot"
  <2>1. ParentOf(n, cur_pid) = NoPid
    BY <1>7 DEF ParentOf
  <2> QED  BY <1>1, <1>4, <1>5, <1>6, <2>1 DEF launch, Parent, UserFlow, PCBs
<1>9. ret' = NoRet
  BY <1>4 DEF launch
<1> QED  BY <1>0, <1>2, <1>3, <1>5, <1>7, <1>8, <1>9

\* A tick during boot starts the base shell of the next terminal.
LEMMA StartTable ==
  ASSUME TableInv, TypeInv', Booted, start_terminal
  PROVE  BootOrder' /\ ProcessTable'
<1> USE DEF TableInv
<1>0. CurrentIsActive /\ ActivePrograms /\ BasePids /\ NoOrphan
  BY DEF ProcessTable
<1>1. /\ pid_array \in [Pids -> {0, 1}] /\ active_pid \in [Terms -> Pids]
      /\ NUM_TERMS \in Nat /\ MAX_PID \in Nat
  BY ConstantsAssumption DEF TypeInv, TypeOK
<1>2. PICK n \in Pids :
        /\ n \in Terms /\ n < NUM_TERMS /\ ta' = n
        /\ Started' = Started \cup {n} /\ n \notin Started /\ Started \subseteq Terms
        /\ pid_array[n] = 0 /\ Descendant = {}
        /\ Parent(n)' = NoPid
        /\ \A p \in Pids \ {n} : Parent(p)' = Parent(p)
        /\ pid_array'[n] = 1
        /\ \A p \in Pids \ {n} : pid_array'[p] = pid_array[p]
        /\ active_pid'[n] = n
        /\ \A u \in Terms \ {n} : active_pid'[u] = active_pid[u]
        /\ cur_pid' = n /\ prev_pid' = NoPid /\ flow' = UserFlow(n)
        /\ \A p \in Pids : pcb'[p].cur.at # "boot"
  BY StartFacts
<1>9. Descendant' = {}
  BY <1>0, <1>1, <1>2, ConstantsAssumption DEF Descendant, Live, Pids
<1>10. CurrentIsActive'
  BY <1>2 DEF CurrentIsActive, Parent
<1>11. ActivePrograms'
  <2>1. \A u \in Started : active_pid[u] # n /\ pid_array[active_pid[u]] = 1
    BY <1>0, <1>1, <1>2 DEF ActivePrograms, Live
  <2> QED  BY <1>0, <1>1, <1>2, <2>1 DEF ActivePrograms, Live
<1>12. BasePids'
  <2>1. \A p \in Terms : pid_array'[p] = 1 <=> p \in Started'
    BY <1>0, <1>1, <1>2, ConstantsAssumption
       DEF BasePids, Live, Terms, Pids
  <2>2. \A p \in Pids : pid_array'[p] = 1 => (Parent(p)' = NoPid <=> p < NUM_TERMS)
    BY <1>0, <1>2 DEF BasePids, Live
  <2> QED  BY <2>1, <2>2 DEF BasePids, Live
<1>13. Waiting' /\ Grounded'
  BY <1>9 DEF Waiting, Grounded
<1>14. NoOrphan'
  <2> SUFFICES ASSUME NEW p \in Pids, pid_array'[p] = 1
               PROVE  \E u \in Started' : active_pid'[u] = p
    BY DEF NoOrphan, Live
  <2>1. CASE p = n
    BY <1>2, <2>1
  <2>2. CASE p # n
    BY <1>0, <1>2, <2>2 DEF NoOrphan, Live
  <2> QED  BY <2>1, <2>2
<1>15. BootOrder'
  BY <1>2, <1>9 DEF BootOrder, Booted, UserFlow
<1> QED  BY <1>10, <1>11, <1>12, <1>13, <1>14, <1>15 DEF ProcessTable

\* A tick after boot only changes whose turn it is.
LEMMA RotateTable ==
  ASSUME TableInv, TypeInv', Booted, rotate
  PROVE  BootOrder' /\ ProcessTable'
<1> USE DEF TableInv
<1>1. /\ NextTerm \in Terms /\ active_pid[NextTerm] \in Pids
      /\ terminal_init \in 1 .. NUM_TERMS + 1 /\ terminal_init >= NUM_TERMS
      /\ Saved \in [Pids -> PCBs]
      /\ \A p \in Pids : Saved[p].parent_pid = Parent(p) /\ Saved[p].cur.at # "boot"
  BY NextTermType, SavedType, SavedKeepsParents DEF TypeInv, TypeOK, rotate
<1>2. Started = Terms /\ Started' = Terms /\ BootDone'
  BY <1>1, ConstantsAssumption DEF rotate, Started, Terms, BootDone
<1>3. /\ pid_array' = pid_array /\ active_pid' = active_pid
      /\ pcb' = Saved /\ ta' = NextTerm
      /\ cur_pid' = active_pid[NextTerm]
      /\ prev_pid' = Parent(active_pid[NextTerm])
      /\ flow' = Saved[active_pid[NextTerm]].cur
  BY DEF rotate, switch_to, Parent
<1>4. \A p \in Pids : Parent(p)' = Parent(p)
  BY <1>1, <1>3 DEF Parent
<1>5. CurrentIsActive'
  BY <1>1, <1>2, <1>3, <1>4 DEF CurrentIsActive, Parent
<1>6. ProcessTable'
  BY <1>2, <1>3, <1>4, <1>5, TableUnchanged
<1>7. BootOrder'
  BY <1>1, <1>2, <1>3 DEF BootOrder, Booted
<1> QED  BY <1>6, <1>7

\* Every step keeps the process table, halt_helper's open gap included.
LEMMA TableStep == QuietBoot /\ TableInv /\ [Next]_vars => TableInv'
<1> SUFFICES ASSUME QuietBoot, TableInv, [Next]_vars PROVE TableInv'
  OBVIOUS
<1>0. TypeInv /\ TypeInv' /\ BootOrder /\ ProcessTable
  BY TypeStep DEF TableInv
<1>1. CASE entry
  BY <1>0, <1>1, EntryTable DEF TableInv
<1>2. CASE sys_execute
  <2>1. Booted /\ BootDone
    BY <1>2 DEF sys_execute, MayExecute, Running, QuietBoot, Booted
  <2> QED  BY <1>0, <1>2, <2>1, PushTable DEF TableInv, sys_execute
<1>3. ASSUME \/ sys_execute_full \/ sys_execute_no_file
             \/ return_to_parent
      PROVE  TableInv'
  <2>1. /\ Booted /\ Booted' /\ terminal_init' = terminal_init
        /\ UNCHANGED <<pid_array, cur_pid, ta, active_pid, pcb>>
    BY <1>3 DEF sys_execute_full, sys_execute_no_file, return_to_parent,
       MayExecute, Running, Booted, UserFlow
  <2>2. /\ Started' = Started /\ Descendant' = Descendant
        /\ \A p \in Pids : Parent(p)' = Parent(p)
    BY <2>1 DEF Started, Descendant, Live, Parent
  <2>3. CurrentIsActive /\ cur_pid \in Pids /\ Live(cur_pid) /\ BasePids
    BY <1>0, <2>1 DEF ProcessTable, CurrentIsActive, ActivePrograms, TypeInv
  <2>4. prev_pid' \in {Parent(cur_pid), cur_pid}
    BY <1>3, <2>3 DEF sys_execute_full, sys_execute_no_file,
       return_to_parent, CurrentIsActive, ParentOf, BasePids
  <2>5. CurrentIsActive'
    BY <2>1, <2>2, <2>3, <2>4 DEF CurrentIsActive, Parent
  <2>6. ProcessTable'
    BY <1>0, <2>1, <2>2, <2>5, TableUnchanged
  <2>7. BootOrder'
    BY <1>0, <2>1, <2>2 DEF BootOrder, BootDone
  <2> QED  BY <1>0, <2>6, <2>7 DEF TableInv
<1>4. ASSUME NEW status \in Statuses \cup {EXCEPTION_HALT}, halt_helper(status)
      PROVE  TableInv'
  <2>1. Booted /\ terminal_init' = terminal_init /\ ta' = ta
    BY <1>4 DEF halt_helper, Running, Booted
  <2>2. CASE halt_base
    BY <1>0, <2>1, <2>2, RestartTable DEF TableInv
  <2>3. CASE halt_child(status)
    BY <1>0, <2>1, <2>3, PopTable DEF TableInv
  <2> QED  BY <1>4, <2>2, <2>3 DEF halt_helper
<1>5. CASE pit_handler
  <2>1. Booted
    BY <1>5 DEF pit_handler, Interruptible, Running, Booted, QuietBoot
  <2>2. CASE start_terminal
    BY <1>0, <2>1, <2>2, StartTable DEF TableInv
  <2>3. CASE rotate
    BY <1>0, <2>1, <2>3, RotateTable DEF TableInv
  <2> QED  BY <1>5, <2>2, <2>3 DEF pit_handler
<1>6. CASE UNCHANGED vars
  <2>1. /\ terminal_init' = terminal_init /\ flow' = flow /\ prev_pid' = prev_pid
        /\ UNCHANGED <<pid_array, cur_pid, ta, active_pid, pcb>>
    BY <1>6 DEF vars
  <2>2. /\ Started' = Started /\ Descendant' = Descendant /\ Booted' = Booted
        /\ \A p \in Pids : Parent(p)' = Parent(p)
    BY <2>1 DEF Started, Descendant, Live, Parent, Booted
  <2>3. BootOrder'
    BY <1>0, <2>1, <2>2 DEF BootOrder, BootDone
  <2>4. CASE Booted
    <3>1. CurrentIsActive'
      BY <1>0, <2>1, <2>2, <2>4 DEF ProcessTable, CurrentIsActive, Parent
    <3> QED  BY <1>0, <2>1, <2>2, <2>3, <2>4, <3>1, TableUnchanged DEF TableInv
  <2>5. CASE ~ Booted
    BY <1>0, <2>2, <2>3, <2>5 DEF TableInv, ProcessTable
  <2> QED  BY <2>4, <2>5
<1> QED
  BY <1>1, <1>2, <1>3, <1>4, <1>5, <1>6 DEF Next, sys_halt, handle_exception

\* Nothing runs at the start.
LEMMA TableInit == Init => TableInv
<1> SUFFICES ASSUME Init PROVE TableInv
  OBVIOUS
<1>1. ~ Booted /\ \A p \in Pids : pcb[p].cur.at # "boot"
  BY DEF Init, Booted, BootFlow, UserFlow
<1> QED  BY <1>1, TypeInit DEF Init, TableInv, BootOrder, ProcessTable

(***************************************************************************)
(* As long as the first sys_execute of entry() comes before the first tick *)
(* and no program calls execute before the base shells run, the process    *)
(* table is in order for any number of pids and terminals, whatever the    *)
(* timer interrupts, the end of halt_helper included: no slot leaks, no    *)
(* process is waited for twice or waits for one that is gone, and every    *)
(* chain of parents ends at the base shell of a terminal.                  *)
(***************************************************************************)
THEOREM TableCorrect == ASSUME QuietBoot PROVE Spec => []ProcessTable
<1>1. TableInv => ProcessTable
  BY DEF TableInv
<1>2. TableInv /\ [Next]_vars => TableInv'
  BY TableStep
<1> QED  BY <1>1, <1>2, TableInit, PTL DEF Spec

-----------------------------------------------------------------------------
(***************************************************************************)
(* The kernel stack in the TSS, the program image and cur_pid always name  *)
(* the same process.  Every step that ends outside the boot code sets all  *)
(* three or none, so this needs no help from the process table and holds   *)
(* with every window open.                                                 *)
(***************************************************************************)
THEOREM MappedCorrect == Spec => []MappedProcess
<1>1. Init => MappedProcess
  BY DEF Init, MappedProcess, Booted, BootFlow
<1>2. MappedProcess /\ [Next]_vars => MappedProcess'
  <2> SUFFICES ASSUME MappedProcess, [Next]_vars PROVE MappedProcess'
    OBVIOUS
  <2> USE DEF MappedProcess
  <2>1. ASSUME NEW n, NEW caller, NEW array, NEW blocks, NEW actives, NEW t,
               launch(n, caller, array, blocks, actives, t)
        PROVE  MappedProcess'
    BY <2>1 DEF launch, set_esp0, map_image, Frame
  <2>2. CASE entry
    BY <2>1, <2>2 DEF entry
  <2>3. CASE sys_execute
    BY <2>1, <2>3 DEF sys_execute
  <2>4. CASE sys_execute_full
    BY <2>4 DEF sys_execute_full, Booted, Frame
  <2>5. CASE sys_execute_no_file
    BY <2>5 DEF sys_execute_no_file, Booted, Frame
  <2>6. ASSUME NEW status, halt_helper(status)
        PROVE  MappedProcess'
    <3>1. CASE halt_base
      BY <2>1, <3>1 DEF halt_base
    <3>2. CASE halt_child(status)
      BY <3>2 DEF halt_child, set_esp0, map_image, Frame
    <3> QED  BY <2>6, <3>1, <3>2 DEF halt_helper
  <2>7. CASE return_to_parent
    BY <2>7 DEF return_to_parent, Booted, Frame
  <2>8. CASE start_terminal
    <3>1. CASE UNCHANGED <<pid_array, cur_pid, esp0, image_frame, flow>>
      BY <3>1 DEF Booted, Frame
    <3> QED  BY <2>1, <2>8, <3>1 DEF start_terminal
  <2>9. CASE rotate
    BY <2>9 DEF rotate, switch_to, set_esp0, map_image, Frame
  <2>10. CASE UNCHANGED vars
    BY <2>10 DEF vars, Booted, Frame
  <2> QED
    BY <2>2, <2>3, <2>4, <2>5, <2>6, <2>7, <2>8, <2>9, <2>10
       DEF Next, sys_halt, handle_exception, pit_handler
<1> QED  BY <1>1, <1>2, PTL DEF Spec

-----------------------------------------------------------------------------
(***************************************************************************)
(* Stacks.  When no tick hits the end of halt_helper, the CPU runs on the  *)
(* stack of the current process.  The invariant needs the process table    *)
(* (two terminals never share a pid, a new pid belongs to no one) and the  *)
(* TSS (a system call arrives on the stack of the current process).        *)
(***************************************************************************)
NoHaltReturn ==
  /\ flow.at # "haltret"
  /\ \A p \in Pids : pcb[p].cur.at # "haltret"

StackInv == TableInv /\ MappedProcess /\ RunsOnOwnStack /\ NoHaltReturn

\* The facts about the current process that every step uses.
LEMMA StackFacts ==
  ASSUME StackInv, Booted
  PROVE  /\ pid_array \in [Pids -> {0, 1}] /\ pcb \in [Pids -> PCBs]
         /\ active_pid \in [Terms -> Pids] /\ ta \in Started
         /\ cur_pid \in Pids /\ Started \subseteq Terms
         /\ Descendant \subseteq Pids
         /\ cur_pid = active_pid[ta] /\ KernelStack = cur_pid
         /\ \A t \in Started \ {ta} : active_pid[t] # cur_pid
         /\ \A t \in Started : Live(active_pid[t])
         /\ flow.at = "user" /\ flow \in Flows
         /\ \A t \in Started \ {ta} :
               pcb[active_pid[t]].cur.at = "user"
                 /\ pcb[active_pid[t]].cur.on = active_pid[t]
         /\ \A p \in Descendant : pcb[p].ebp = Parent(p)
<1>1. /\ pid_array \in [Pids -> {0, 1}] /\ pcb \in [Pids -> PCBs]
      /\ active_pid \in [Terms -> Pids] /\ flow \in Flows /\ cur_pid \in Pids
  BY DEF StackInv, TableInv, TypeInv, TypeOK
<1>2. Started \subseteq Terms /\ Descendant \subseteq Pids
  BY DEF Started, Descendant
<1>3. CurrentIsActive /\ ActivePrograms
  BY DEF StackInv, TableInv, ProcessTable
<1>4. ta \in Started /\ cur_pid = active_pid[ta]
  BY <1>3 DEF CurrentIsActive
<1>5. /\ \A t \in Started \ {ta} : active_pid[t] # cur_pid
      /\ \A t \in Started : Live(active_pid[t])
  BY <1>3, <1>4 DEF ActivePrograms
<1>6. flow.at = "user" /\ KernelStack = cur_pid
  BY <1>1 DEF StackInv, NoHaltReturn, Booted, Flows, MappedProcess, KernelStack
<1>7. \A p \in Pids : pcb[p].cur.at = "user"
  <2>1. \A p \in Pids : pcb[p].cur \in Flows
    BY <1>1 DEF PCBs
  <2> QED  BY <2>1 DEF StackInv, NoHaltReturn, TableInv, BootOrder, Flows
<1>8. /\ \A t \in Started \ {ta} :
           pcb[active_pid[t]].cur.at = "user"
             /\ pcb[active_pid[t]].cur.on = active_pid[t]
      /\ \A p \in Descendant : pcb[p].ebp = Parent(p)
  BY <1>1, <1>2, <1>7 DEF StackInv, RunsOnOwnStack
<1> QED  BY <1>1, <1>2, <1>4, <1>5, <1>6, <1>8

\* A tick saves the flow on the stack of the process it belongs to.
LEMMA SavedOwnStack ==
  ASSUME StackInv, Booted
  PROVE  /\ Saved \in [Pids -> PCBs]
         /\ \A t \in Started : /\ Saved[active_pid[t]].cur.at = "user"
                               /\ Saved[active_pid[t]].cur.on = active_pid[t]
         /\ \A p \in Pids : /\ Saved[p].ebp = pcb[p].ebp
                             /\ Saved[p].parent_pid = pcb[p].parent_pid
                             /\ Saved[p].cur.at # "haltret"
<1>1. Saved \in [Pids -> PCBs] /\ Interrupted \in Flows
  BY SavedType DEF StackInv, TableInv, TypeInv
<1>2. Interrupted.at = "user" /\ Interrupted.on = cur_pid
  BY StackFacts DEF Interrupted, Flows
<1>3. /\ Saved[cur_pid].cur = Interrupted
      /\ Saved[cur_pid].ebp = pcb[cur_pid].ebp
      /\ Saved[cur_pid].parent_pid = pcb[cur_pid].parent_pid
      /\ \A p \in Pids \ {cur_pid} : Saved[p] = pcb[p]
  BY StackFacts DEF Saved, PCBs
<1>4. \A p \in Pids : pcb[p].cur.at # "haltret"
  BY DEF StackInv, NoHaltReturn
<1> QED  BY <1>1, <1>2, <1>3, <1>4, StackFacts

\* Every step keeps the flows on their own kernel stacks if nothing strikes
\* between halt_helper's sti() and its switch of stacks.
LEMMA StackStep ==
  Windows = {} /\ StackInv /\ [Next]_vars /\ TableInv' /\ MappedProcess'
    => StackInv'
<1> SUFFICES ASSUME Windows = {}, StackInv, [Next]_vars, TableInv', MappedProcess'
             PROVE  RunsOnOwnStack' /\ NoHaltReturn'
  BY DEF StackInv
<1>1. CASE entry
  <2>1. /\ pid_array = [p \in Pids |-> 0] /\ ta' = 0 /\ terminal_init' = 1
        /\ pcb \in [Pids -> PCBs]
    BY <1>1 DEF entry, StackInv, TableInv, TypeInv, TypeOK, BootOrder, Booted
  <2>2. PICK n \in Pids : /\ NextOpen(pid_array, n)
                          /\ launch(n, cur_pid, pid_array, pcb, active_pid, ta)
    BY <1>1 DEF entry
  <2>3. n = 0
    BY <2>1, <2>2, ConstantsAssumption DEF NextOpen, Pids
  <2>4. Started' = {0} /\ Descendant' = {}
    BY <2>1, <2>2, <2>3, ConstantsAssumption
       DEF Started, Terms, Descendant, Live, launch, Pids
  <2> QED  BY <2>1, <2>2, <2>4
       DEF launch, UserFlow, RunsOnOwnStack, NoHaltReturn, StackInv, PCBs
<1>2. CASE sys_execute
  <2>1. Booted /\ BootDone /\ ta' = ta /\ terminal_init' = terminal_init
    BY <1>2 DEF sys_execute, MayExecute, Running, Booted
  <2>2. PICK n \in Pids : /\ NextOpen(pid_array, n)
                          /\ launch(n, cur_pid, pid_array, pcb, active_pid, ta)
    BY <1>2 DEF sys_execute
  <2>3. ~ Live(n) /\ Started' = Started
    BY <2>1, <2>2 DEF NextOpen, Live, Started
  <2>4. /\ pcb'[n] = [parent_pid |-> ParentOf(n, cur_pid), ebp |-> cur_pid,
                      cur |-> UserFlow(n)]
        /\ \A p \in Pids \ {n} : pcb'[p] = pcb[p]
        /\ \A t \in Terms \ {ta} : active_pid'[t] = active_pid[t]
        /\ \A p \in Pids \ {n} : pid_array'[p] = pid_array[p]
        /\ cur_pid' = n /\ flow' = UserFlow(n)
    BY <2>1, <2>2, StackFacts DEF launch
  <2>5. Descendant' \subseteq Descendant \cup {n}
    BY <2>4 DEF Descendant, Live
  <2>6. n >= NUM_TERMS => ParentOf(n, cur_pid) = cur_pid
    BY ConstantsAssumption DEF ParentOf, Pids
  <2>7. \A p \in Descendant' : pcb'[p].ebp = Parent(p)'
    BY <2>1, <2>4, <2>5, <2>6, StackFacts DEF Parent, Descendant
  <2>8. \A t \in Started' \ {ta'} : pcb'[active_pid'[t]].cur.on = active_pid'[t]
    BY <2>1, <2>3, <2>4, StackFacts
  <2>9. NoHaltReturn'
    BY <2>4 DEF NoHaltReturn, UserFlow, StackInv
  <2> QED  BY <2>4, <2>7, <2>8, <2>9 DEF RunsOnOwnStack, UserFlow
<1>3. ASSUME NEW status \in Statuses \cup {EXCEPTION_HALT}, halt_helper(status)
      PROVE  RunsOnOwnStack' /\ NoHaltReturn'
  <2>1. Booted /\ ta' = ta /\ terminal_init' = terminal_init /\ Started' = Started
    BY <1>3 DEF halt_helper, Running, Booted, Started
  <2>2. CASE halt_base
    <3>1. PICK n \in Pids :
            /\ NextOpen([pid_array EXCEPT ![cur_pid] = 0], n)
            /\ launch(n, NoPid, [pid_array EXCEPT ![cur_pid] = 0], pcb,
                      active_pid, ta)
      BY <2>2 DEF halt_base
    <3>2. n = cur_pid /\ cur_pid \in Started
      BY <2>1, <2>2, <3>1, RestartSlot DEF halt_base, Parent, StackInv
    <3>3. /\ \A p \in Pids \ {n} : pcb'[p] = pcb[p]
          /\ pcb'[n].cur = UserFlow(n)
          /\ \A t \in Terms \ {ta} : active_pid'[t] = active_pid[t]
          /\ \A p \in Pids \ {n} : pid_array'[p] = pid_array[p]
          /\ cur_pid' = n /\ flow' = UserFlow(n)
      BY <2>1, <3>1, <3>2, StackFacts DEF launch
    <3>4. Descendant' \subseteq Descendant \ {n}
      BY <3>2, <3>3, ConstantsAssumption
         DEF Descendant, Live, Started, Terms, Pids
    <3>5. \A p \in Descendant' : pcb'[p].ebp = Parent(p)'
      BY <2>1, <3>3, <3>4, StackFacts DEF Parent
    <3>6. \A t \in Started' \ {ta'} : pcb'[active_pid'[t]].cur.on = active_pid'[t]
      BY <2>1, <3>2, <3>3, StackFacts
    <3>7. NoHaltReturn'
      BY <3>3 DEF NoHaltReturn, UserFlow, StackInv
    <3> QED  BY <3>3, <3>5, <3>6, <3>7 DEF RunsOnOwnStack, UserFlow
  <2>3. CASE halt_child(status)
    <3>1. /\ pcb' = pcb /\ cur_pid' = Parent(cur_pid)
          /\ flow' = UserFlow(pcb[cur_pid].ebp)
          /\ \A t \in Terms \ {ta} : active_pid'[t] = active_pid[t]
      BY <2>1, <2>3, StackFacts DEF halt_child, Parent
    <3>2. Descendant' \subseteq Descendant
      BY <2>1, <2>3, StackFacts DEF halt_child, Descendant, Live
    <3>3. cur_pid \in Descendant
      <4>1. BasePids /\ Live(cur_pid)
        BY <2>1, StackFacts DEF StackInv, TableInv, ProcessTable
      <4> QED  BY <2>1, <2>3, <4>1, ConstantsAssumption, StackFacts
               DEF halt_child, BasePids, Descendant, Parent, Pids
    <3>4. flow'.on = cur_pid' /\ flow'.at = "user"
      BY <2>1, <3>1, <3>3, StackFacts DEF UserFlow
    <3>5. \A p \in Descendant' : pcb'[p].ebp = Parent(p)'
      BY <2>1, <3>1, <3>2, StackFacts DEF Parent
    <3>6. \A t \in Started' \ {ta'} : pcb'[active_pid'[t]].cur.on = active_pid'[t]
      BY <2>1, <3>1, StackFacts
    <3>7. NoHaltReturn'
      BY <3>1, <3>4 DEF NoHaltReturn, StackInv
    <3> QED  BY <3>4, <3>5, <3>6, <3>7 DEF RunsOnOwnStack
  <2> QED  BY <1>3, <2>2, <2>3 DEF halt_helper
<1>4. CASE pit_handler
  <2>1. Booted
    BY <1>4 DEF pit_handler, Interruptible, Running, Booted
  <2>2. CASE start_terminal
    <3>1. PICK n \in Pids :
            /\ NextOpen(pid_array, n)
            /\ launch(n, cur_pid, pid_array, Saved,
                      [active_pid EXCEPT ![terminal_init] = terminal_init],
                      terminal_init)
      <4>1. ~ Full(pid_array)
        <5>1. terminal_init \in Terms /\ terminal_init \in Pids
              /\ terminal_init \notin Started
          BY <2>2, ConstantsAssumption
             DEF StackInv, TableInv, TypeInv, TypeOK, start_terminal, Terms,
                 Pids, Started
        <5> QED  BY <2>1, <5>1
                 DEF StackInv, TableInv, ProcessTable, BasePids, Full, Live
      <4> QED  BY <2>2, <4>1 DEF start_terminal
    <3>2. PICK t \in Terms : t = terminal_init /\ ta' = t /\ Started' = Started \cup {t}
      BY <2>2, ConstantsAssumption
         DEF StackInv, TableInv, TypeInv, TypeOK, start_terminal, Terms, Started
    <3>3. /\ \A p \in Pids \ {n} : pcb'[p] = Saved[p]
          /\ \A u \in Terms \ {t} : active_pid'[u] = active_pid[u]
          /\ cur_pid' = n /\ flow' = UserFlow(n)
          /\ pcb'[n].cur = UserFlow(n) /\ ~ Live(n)
      BY <2>1, <3>1, <3>2, StackFacts, SavedOwnStack
         DEF launch, NextOpen, Live
    <3>4. \A p \in Descendant' : p # n => p \in Descendant
      BY <2>1, <3>1, StackFacts DEF launch, Descendant, Live
    <3>5. n \notin Descendant'
      <4>1. terminal_init' <= NUM_TERMS
        BY <2>2, ConstantsAssumption
           DEF start_terminal, StackInv, TableInv, TypeInv, TypeOK
      <4> QED  BY <3>3, <4>1, ConstantsAssumption
               DEF TableInv, BootOrder, Booted, UserFlow, BootDone, TypeInv, TypeOK
    <3>6. \A p \in Descendant' : pcb'[p].ebp = Parent(p)'
      <4>1. \A p \in Descendant' : p \in Descendant /\ p \in Pids /\ p # n
        BY <2>1, <3>4, <3>5, StackFacts
      <4> QED  BY <2>1, <3>3, <4>1, StackFacts, SavedOwnStack DEF Parent
    <3>7. \A u \in Started' \ {ta'} : pcb'[active_pid'[u]].cur.on = active_pid'[u]
      BY <2>1, <3>2, <3>3, StackFacts, SavedOwnStack
    <3>8. NoHaltReturn'
      BY <2>1, <3>3, SavedOwnStack DEF NoHaltReturn, UserFlow
    <3> QED  BY <3>3, <3>6, <3>7, <3>8 DEF RunsOnOwnStack, UserFlow
  <2>3. CASE rotate
    <3>1. NextTerm \in Terms /\ Started = Terms /\ Started' = Terms
      BY <2>3, NextTermType, ConstantsAssumption
         DEF rotate, Started, Terms, StackInv, TableInv, TypeInv, TypeOK
    <3>2. /\ pcb' = Saved /\ ta' = NextTerm /\ active_pid' = active_pid
          /\ cur_pid' = active_pid[NextTerm] /\ pid_array' = pid_array
          /\ flow' = Saved[active_pid[NextTerm]].cur
      BY <2>3 DEF rotate, switch_to
    <3>3. flow'.at = "user" /\ flow'.on = cur_pid'
      BY <2>1, <3>1, <3>2, SavedOwnStack
    <3>4. \A t \in Started' : pcb'[active_pid'[t]].cur.on = active_pid'[t]
      BY <2>1, <3>1, <3>2, SavedOwnStack
    <3>5. Descendant' = Descendant
      BY <3>2 DEF Descendant, Live
    <3>6. \A p \in Descendant' : pcb'[p].ebp = Parent(p)'
      BY <2>1, <3>2, <3>5, StackFacts, SavedOwnStack DEF Parent
    <3>7. NoHaltReturn'
      BY <2>1, <3>2, <3>3, SavedOwnStack DEF NoHaltReturn
    <3> QED  BY <3>3, <3>4, <3>6, <3>7 DEF RunsOnOwnStack
  <2> QED  BY <1>4, <2>2, <2>3 DEF pit_handler
<1>5. CASE return_to_parent
  BY <1>5 DEF return_to_parent, StackInv, NoHaltReturn
<1>6. CASE sys_execute_full \/ sys_execute_no_file \/ UNCHANGED vars
  <2>1. UNCHANGED <<pid_array, cur_pid, ta, active_pid, pcb, terminal_init, flow>>
    BY <1>6 DEF sys_execute_full, sys_execute_no_file, vars
  <2>2. Started' = Started /\ Descendant' = Descendant /\ Booted' = Booted
    BY <2>1 DEF Started, Descendant, Live, Booted
  <2> QED  BY <2>1, <2>2 DEF StackInv, RunsOnOwnStack, NoHaltReturn, Parent
<1> QED
  BY <1>1, <1>2, <1>3, <1>4, <1>5, <1>6 DEF Next, sys_halt, handle_exception

\* The stacks are in order from the start and after every step.
LEMMA StackAlways == ASSUME Windows = {} PROVE Spec => []StackInv
<1>1. Init => StackInv
  <2> SUFFICES ASSUME Init PROVE StackInv
    OBVIOUS
  <2>1. flow.at = "boot" /\ \A p \in Pids : pcb[p].cur.at = "user"
    BY DEF Init, BootFlow, UserFlow
  <2> QED  BY <2>1, TableInit
           DEF StackInv, MappedProcess, RunsOnOwnStack, NoHaltReturn, Booted
<1>2. TableInv /\ [Next]_vars => TableInv'
  BY TableStep DEF QuietBoot
<1>3. StackInv /\ [Next]_vars /\ TableInv' /\ MappedProcess' => StackInv'
  BY StackStep
<1>4. StackInv => TableInv /\ RunsOnOwnStack
  BY DEF StackInv
<1> QED  BY <1>1, <1>2, <1>3, <1>4, MappedCorrect, PTL DEF Spec

(***************************************************************************)
(* If no tick hits the end of halt_helper or boot, then for any number of  *)
(* pids and terminals the CPU runs every program on its own kernel stack,  *)
(* what the timer saved lies on the stack of its owner, and halt returns   *)
(* into the frame of the parent's execute.                                 *)
(***************************************************************************)
THEOREM StackCorrect == ASSUME Windows = {} PROVE Spec => []RunsOnOwnStack
<1>1. StackInv => RunsOnOwnStack
  BY DEF StackInv
<1> QED  BY <1>1, StackAlways, PTL

-----------------------------------------------------------------------------
(***************************************************************************)
(* Chains of parents.  ChainTo is defined by recursion; that such a        *)
(* function exists, and what it is along a path of parents, follows by     *)
(* looking at the least number for which it would fail.                    *)
(***************************************************************************)
Below == {ss \in Nat \X Nat : ss[1] < ss[2]}

\* A set of numbers has a least one.
LEMMA LeastOf ==
  ASSUME NEW S \in SUBSET Nat, S # {}
  PROVE  \E k \in S : \A j \in S : k <= j
<1>1. IsWellFoundedOn(Below, Nat)
  BY NatLessThanWellFounded DEF Below, OpToRel
<1>2. PICK k \in S : \A j \in S : ~ (<<j, k>> \in Below)
  BY <1>1, WFMin
<1>3. ASSUME NEW j \in S PROVE k <= j
  <2>1. <<j, k>> \in Nat \X Nat /\ <<j, k>> \notin Below
    BY <1>2
  <2>2. ~ (j < k)
    BY <2>1 DEF Below
  <2> QED  BY <2>2
<1> QED  BY <1>3

\* The chains of length 0, and g holds the chains up to length n.
NoChain == [p \in Pids |-> << >>]

Grows(par, g, n) ==
  g = [k \in 0 .. n |-> IF k = 0 THEN NoChain ELSE Longer(par, g[k - 1])]

\* The function ChainTo speaks of exists for every length.
LEMMA GrowthExists ==
  ASSUME NEW par, NEW n \in Nat
  PROVE  \E g : Grows(par, g, n)
<1> DEFINE bad == {m \in Nat : ~ \E g : Grows(par, g, m)}
<1>1. ASSUME bad # {} PROVE FALSE
  <2>1. PICK m \in bad : \A j \in bad : m <= j
    <3>1. bad \in SUBSET Nat
      OBVIOUS
    <3> HIDE DEF bad
    <3> QED  BY <1>1, <3>1, LeastOf
  <2>2. m # 0
    <3>1. Grows(par, [k \in 0 .. 0 |-> NoChain], 0)
      BY DEF Grows
    <3> QED  BY <2>1, <3>1
  <2>3. m - 1 \in Nat /\ m - 1 \notin bad
    BY <2>1, <2>2
  <2>4. PICK g : Grows(par, g, m - 1)
    BY <2>3
  <2> DEFINE h == [k \in 0 .. m |-> IF k = m THEN Longer(par, g[m - 1]) ELSE g[k]]
  <2>5. /\ h[m] = Longer(par, g[m - 1])
        /\ \A k \in 0 .. m - 1 : h[k] = g[k]
    BY <2>1
  <2>6. \A k \in 0 .. m - 1 : g[k] = IF k = 0 THEN NoChain ELSE Longer(par, g[k - 1])
    BY <2>4 DEF Grows
  <2>7. \A k \in 0 .. m : h[k] = IF k = 0 THEN NoChain ELSE Longer(par, h[k - 1])
    <3> SUFFICES ASSUME NEW k \in 0 .. m
                 PROVE  h[k] = IF k = 0 THEN NoChain ELSE Longer(par, h[k - 1])
      OBVIOUS
    <3> HIDE DEF h
    <3>1. CASE k = m
      <4>1. m - 1 \in 0 .. m - 1
        BY <2>3
      <4> QED  BY <2>2, <2>5, <3>1, <4>1
    <3>2. CASE k # m /\ k = 0
      <4>1. 0 \in 0 .. m - 1
        BY <2>3
      <4> QED  BY <2>5, <2>6, <3>2, <4>1
    <3>3. CASE k # m /\ k # 0
      <4>1. k \in 0 .. m - 1 /\ k - 1 \in 0 .. m - 1
        BY <2>1, <3>3
      <4> QED  BY <2>5, <2>6, <3>3, <4>1
    <3> QED  BY <3>1, <3>2, <3>3
  <2>8. Grows(par, h, m)
    <3>1. h = [k \in 0 .. m |-> h[k]]
      OBVIOUS
    <3> HIDE DEF h
    <3> QED  BY <2>7, <3>1 DEF Grows
  <2> QED  BY <2>1, <2>8
<1> QED  BY <1>1

\* What ChainTo unfolds to.
LEMMA ChainToIs ==
  ASSUME NEW par
  PROVE  \E g : /\ ChainTo(par) = g[MAX_PID]
                /\ g[0] = NoChain
                /\ \A k \in 1 .. MAX_PID : g[k] = Longer(par, g[k - 1])
<1>1. MAX_PID \in Nat
  BY ConstantsAssumption
<1> DEFINE g == CHOOSE f : Grows(par, f, MAX_PID)
<1>2. Grows(par, g, MAX_PID)
  BY <1>1, GrowthExists
<1>3. ChainTo(par) = g[MAX_PID]
  BY DEF ChainTo, Grows, NoChain
<1> HIDE DEF g
<1>4. \A k \in 0 .. MAX_PID : g[k] = IF k = 0 THEN NoChain ELSE Longer(par, g[k - 1])
  BY <1>2 DEF Grows
<1>5. g[0] = NoChain
  BY <1>1, <1>4
<1>6. \A k \in 1 .. MAX_PID : g[k] = Longer(par, g[k - 1])
  BY <1>1, <1>4
<1> QED  BY <1>3, <1>5, <1>6

(***************************************************************************)
(* A path of parents: it starts at a process without one, every process is *)
(* the parent of the one after it, and none comes twice.                   *)
(***************************************************************************)
IsPath(par, s) ==
  /\ s \in Seq(Pids) /\ Len(s) >= 1
  /\ par[s[1]] = NoPid
  /\ \A i \in 1 .. Len(s) - 1 : par[s[i + 1]] = s[i]
  /\ \A i, j \in 1 .. Len(s) : s[i] = s[j] => i = j

\* A path is no longer than the process table.
LEMMA PathFits ==
  ASSUME NEW par, NEW s, IsPath(par, s)
  PROVE  Len(s) \in 1 .. MAX_PID
<1>1. s \in Seq(Pids) /\ Len(s) \in Nat /\ Len(s) >= 1 /\ MAX_PID \in Nat
  BY ConstantsAssumption DEF IsPath
<1>2. ASSUME Len(s) > MAX_PID PROVE FALSE
  <2>1. IsFiniteSet(1 .. Len(s)) /\ Cardinality(1 .. Len(s)) = Len(s)
    BY <1>1, FS_Interval
  <2>2. IsFiniteSet(Pids) /\ Cardinality(Pids) = MAX_PID
    BY <1>1, ConstantsAssumption, FS_Interval DEF Pids
  <2>3. s \in [1 .. Len(s) -> Pids]
    BY <1>1
  <2>4. \E i, j \in 1 .. Len(s) : i # j /\ s[i] = s[j]
    BY <1>2, <2>1, <2>2, <2>3, FS_PigeonHole
  <2> QED  BY <2>4 DEF IsPath
<1> QED  BY <1>1, <1>2

\* Following the parents from the end of a path finds the path.
LEMMA PathIsChain ==
  ASSUME NEW par, NEW s, IsPath(par, s)
  PROVE  ChainTo(par)[s[Len(s)]] = s
<1>1. PICK g : /\ ChainTo(par) = g[MAX_PID]
               /\ \A k \in 1 .. MAX_PID : g[k] = Longer(par, g[k - 1])
  BY ChainToIs
<1>2. /\ s \in Seq(Pids) /\ Len(s) \in Nat /\ MAX_PID \in Nat
      /\ Len(s) \in 1 .. MAX_PID /\ \A i \in 1 .. Len(s) : s[i] \in Pids
  BY PathFits, ConstantsAssumption DEF IsPath
<1> DEFINE ok(i)  == \A k \in i .. MAX_PID : g[k][s[i]] = SubSeq(s, 1, i)
           bad    == {i \in 1 .. Len(s) : ~ ok(i)}
<1>3. ASSUME bad # {} PROVE FALSE
  <2>1. PICK i \in bad : \A j \in bad : i <= j
    <3>1. bad \in SUBSET Nat
      OBVIOUS
    <3> HIDE DEF bad
    <3> QED  BY <1>3, <3>1, LeastOf
  <2>2. i \in 1 .. Len(s) /\ i \in Nat /\ i >= 1 /\ ~ ok(i)
    BY <2>1
  <2>3. PICK k \in i .. MAX_PID : g[k][s[i]] # SubSeq(s, 1, i)
    BY <2>2
  <2>4. k \in 1 .. MAX_PID /\ k \in Nat
    BY <1>2, <2>2, <2>3
  <2>5. g[k][s[i]] = IF par[s[i]] = NoPid THEN <<s[i]>>
                     ELSE Append(g[k - 1][par[s[i]]], s[i])
    BY <1>1, <1>2, <2>2, <2>4 DEF Longer
  <2>6. CASE i = 1
    <3>1. par[s[i]] = NoPid
      BY <2>6 DEF IsPath
    <3>2. SubSeq(s, 1, 1) = <<s[1]>>
      <4>1. 1 \in 1 .. Len(s) /\ s[1] \in Pids
        BY <1>2
      <4>2. <<s[1]>> \in Seq(Pids) /\ Len(<<s[1]>>) = 1 /\ <<s[1]>>[1] = s[1]
        BY <4>1
      <4>3. /\ SubSeq(s, 1, 1) \in Seq(Pids) /\ Len(SubSeq(s, 1, 1)) = 1
            /\ SubSeq(s, 1, 1)[1] = s[1]
        BY <1>2, <4>1
      <4>4. \A j \in 1 .. Len(<<s[1]>>) : SubSeq(s, 1, 1)[j] = <<s[1]>>[j]
        BY <4>2, <4>3
      <4> QED  BY <4>2, <4>3, <4>4, SeqEqual
    <3> QED  BY <2>3, <2>5, <2>6, <3>1, <3>2
  <2>7. CASE i # 1
    <3>1. i - 1 \in 1 .. Len(s) - 1 /\ i - 1 \in 1 .. Len(s) /\ (i - 1) + 1 = i
          /\ k - 1 \in i - 1 .. MAX_PID
      BY <1>2, <2>2, <2>3, <2>4, <2>7
    <3>2. par[s[i]] = s[i - 1] /\ s[i - 1] \in Pids /\ s[i - 1] # NoPid
      BY <1>2, <3>1, ConstantsAssumption DEF IsPath, Pids, NoPid
    <3>3. i - 1 \notin bad
      <4> HIDE DEF bad
      <4>1. i - 1 \in bad => i <= i - 1
        BY <2>1
      <4> QED  BY <2>2, <4>1
    <3>4. g[k - 1][s[i - 1]] = SubSeq(s, 1, i - 1)
      BY <3>1, <3>3
    <3>5. Append(SubSeq(s, 1, i - 1), s[i]) = SubSeq(s, 1, i)
      BY <1>2, <2>2, <3>1
    <3> QED  BY <2>3, <2>5, <3>2, <3>4, <3>5
  <2> QED  BY <2>6, <2>7
<1>4. ok(Len(s)) /\ MAX_PID \in Len(s) .. MAX_PID
  BY <1>2, <1>3
<1>5. SubSeq(s, 1, Len(s)) = s
  BY <1>2
<1> QED  BY <1>1, <1>4, <1>5

(***************************************************************************)
(* The path of a terminal: from its base shell to the program on top of    *)
(* it, all of them live.  Every terminal that has been started has one.    *)
(***************************************************************************)
PathOn(t, s) ==
  /\ IsPath(Parents, s)
  /\ s[1] = t
  /\ s[Len(s)] = active_pid[t]
  /\ \A i \in 1 .. Len(s) : Live(s[i])

Paths == Booted => \A t \in Started : \E s : PathOn(t, s)

\* The processes on a path are pids.
LEMMA PathPids ==
  ASSUME NEW par, NEW s, IsPath(par, s)
  PROVE  /\ s \in Seq(Pids) /\ Len(s) \in Nat /\ Len(s) >= 1
         /\ \A i \in 1 .. Len(s) : s[i] \in Pids
BY DEF IsPath

\* The stack of a terminal is its path.
LEMMA StackIsPath ==
  ASSUME Booted, NEW t \in Started, NEW s, PathOn(t, s)
  PROVE  StackOf(t) = s /\ Chain(t) = s
BY PathIsChain DEF PathOn, StackOf, Chain

\* The same in the next state.
LEMMA NextStackIsPath ==
  ASSUME Booted', NEW t \in Started', NEW s, PathOn(t, s)'
  PROVE  StackOf(t)' = s
<1>1. IsPath(Parents', s) /\ s[Len(s)] = active_pid'[t]
  BY DEF PathOn
<1>2. ChainTo(Parents')[s[Len(s)]] = s
  BY <1>1, PathIsChain
<1> QED  BY <1>1, <1>2 DEF StackOf, Chain

\* A path stays one while its processes live on with the same parents.
LEMMA PathKept ==
  ASSUME NEW t, NEW s, PathOn(t, s), active_pid'[t] = active_pid[t],
         \A i \in 1 .. Len(s) : /\ pid_array'[s[i]] = 1
                                /\ pcb'[s[i]].parent_pid = pcb[s[i]].parent_pid
  PROVE  PathOn(t, s)'
<1>1. /\ s \in Seq(Pids) /\ Len(s) \in Nat /\ Len(s) >= 1
      /\ \A i \in 1 .. Len(s) : s[i] \in Pids
  BY PathPids DEF PathOn
<1>2. \A i \in 1 .. Len(s) : Parents'[s[i]] = Parents[s[i]]
  BY <1>1 DEF Parents, Parent
<1>3. IsPath(Parents', s)
  <2>1. 1 \in 1 .. Len(s) /\ \A i \in 1 .. Len(s) - 1 : i + 1 \in 1 .. Len(s)
    BY <1>1
  <2> QED  BY <1>2, <2>1 DEF PathOn, IsPath
<1> QED  BY <1>3 DEF PathOn, Live

\* Only the processes of its own terminal are on a path.
LEMMA TopOnOwnPath ==
  ASSUME TableInv, Booted, NEW t \in Started, NEW s, PathOn(t, s), NEW u \in Started,
         NEW i \in 1 .. Len(s), s[i] = active_pid[u]
  PROVE  t = u /\ i = Len(s)
<1>1. /\ s \in Seq(Pids) /\ Len(s) \in Nat /\ Len(s) >= 1
      /\ \A j \in 1 .. Len(s) : s[j] \in Pids
  BY PathPids DEF PathOn
<1>2. ActivePrograms /\ BasePids /\ Waiting
  BY DEF TableInv, ProcessTable
<1>3. CASE i = Len(s)
  BY <1>2, <1>3 DEF PathOn, ActivePrograms
<1>4. CASE i # Len(s)
  <2>1. i + 1 \in 1 .. Len(s) /\ i \in 1 .. Len(s) - 1
    BY <1>1, <1>4
  <2>2. s[i + 1] \in Pids /\ Live(s[i + 1]) /\ Parents[s[i + 1]] = s[i] /\ s[i] \in Pids
    BY <1>1, <2>1 DEF PathOn, IsPath
  <2>3. Parent(s[i + 1]) = s[i] /\ s[i] # NoPid
    BY <2>2, ConstantsAssumption DEF Parents, Pids, NoPid
  <2>4. s[i + 1] \in Descendant
    BY <1>2, <2>2, <2>3, ConstantsAssumption DEF BasePids, Descendant, Pids
  <2> QED  BY <1>2, <2>3, <2>4 DEF Waiting
<1> QED  BY <1>3, <1>4

\* A stack holds live processes, and is empty only where no shell runs yet.
LEMMA StacksLive ==
  ASSUME TableInv, Paths, NEW t \in Terms
  PROVE  /\ StackOf(t) \in Seq(Pids)
         /\ \A i \in 1 .. Len(StackOf(t)) : Live(StackOf(t)[i])
         /\ StackOf(t) = << >> <=> ~ (Booted /\ t \in Started)
<1>1. CASE Booted /\ t \in Started
  <2>1. PICK s : PathOn(t, s)
    BY <1>1 DEF Paths
  <2>2. StackOf(t) = s /\ s \in Seq(Pids) /\ Len(s) >= 1
    BY <1>1, <2>1, StackIsPath, PathPids DEF PathOn
  <2>3. s # << >>
    BY <2>2
  <2> QED  BY <1>1, <2>1, <2>2, <2>3 DEF PathOn
<1>2. CASE ~ (Booted /\ t \in Started)
  BY <1>2 DEF StackOf
<1> QED  BY <1>1, <1>2

\* Steps that leave the tables alone leave the stacks alone.
LEMMA StacksKept ==
  ASSUME Paths, Booted, Booted', Started' = Started, pid_array' = pid_array,
         active_pid' = active_pid, \A p \in Pids : Parent(p)' = Parent(p)
  PROVE  Paths' /\ \A t \in Terms : StackOf(t)' = StackOf(t)
<1>1. ASSUME NEW t \in Started
      PROVE  \E s : PathOn(t, s)' /\ StackOf(t) = s /\ StackOf(t)' = s
  <2>1. PICK s : PathOn(t, s)
    BY DEF Paths
  <2>2. PathOn(t, s)'
    BY <2>1, PathKept, PathPids DEF PathOn, Live, Parent
  <2> QED  BY <2>1, <2>2, StackIsPath, NextStackIsPath
<1>2. \A t \in Terms \ Started : StackOf(t)' = StackOf(t)
  BY DEF StackOf
<1> QED  BY <1>1, <1>2 DEF Paths

\* sys_execute puts the new process on top of the stack of its terminal.
LEMMA PushStack ==
  ASSUME TableInv, Paths, Booted, BootDone, terminal_init' = terminal_init,
         NEW u \in Terms, u = ta, NEW n \in Pids, NextOpen(pid_array, n),
         launch(n, cur_pid, pid_array, pcb, active_pid, ta)
  PROVE  /\ Paths' /\ ~ Live(n)
         /\ StackOf(u)' = Append(StackOf(u), n)
         /\ \A t \in Terms \ {u} : StackOf(t)' = StackOf(t)
<1>1. Started = Terms /\ Started' = Terms /\ ~ Live(n) /\ Booted'
  BY PushFacts DEF launch, UserFlow, Booted
<1>2. ASSUME NEW t \in Terms \ {u}
      PROVE  \E s : PathOn(t, s)' /\ StackOf(t)' = StackOf(t)
  <2>1. PICK s : PathOn(t, s)
    BY <1>1 DEF Paths
  <2>2. \A i \in 1 .. Len(s) : s[i] \in Pids \ {n} /\ Live(s[i])
    BY <1>1, <2>1, PathPids DEF PathOn
  <2>3. PathOn(t, s)'
    <3>1. active_pid'[t] = active_pid[t]
      BY PushFacts
    <3>2. \A i \in 1 .. Len(s) : /\ pid_array'[s[i]] = 1
                                 /\ pcb'[s[i]].parent_pid = pcb[s[i]].parent_pid
      <4>1. \A p \in Pids \ {n} : Live(p)' = Live(p) /\ Parent(p)' = Parent(p)
        BY PushFacts
      <4> QED  BY <2>2, <4>1 DEF Live, Parent
    <3> QED  BY <2>1, <3>1, <3>2, PathKept
  <2> QED  BY <1>1, <2>1, <2>3, StackIsPath, NextStackIsPath
<1>3. \E s : PathOn(u, s)' /\ s = Append(StackOf(u), n)
  <2>1. PICK r : PathOn(u, r)
    BY <1>1 DEF Paths
  <2> DEFINE s == Append(r, n)
  <2>2. /\ r \in Seq(Pids) /\ Len(r) \in Nat /\ Len(r) >= 1
        /\ \A i \in 1 .. Len(r) : r[i] \in Pids \ {n} /\ Live(r[i])
    BY <1>1, <2>1, PathPids DEF PathOn
  <2>3. /\ s \in Seq(Pids) /\ Len(s) = Len(r) + 1 /\ s[Len(s)] = n
        /\ \A i \in 1 .. Len(r) : s[i] = r[i]
    BY <2>2
  <2> HIDE DEF s
  <2>4. /\ \A p \in Pids \ {n} : Parents'[p] = Parents[p] /\ Live(p)' = Live(p)
        /\ Parents'[n] = r[Len(r)] /\ Live(n)' /\ active_pid'[u] = n
    BY <2>1, PushFacts DEF Parents, PathOn
  <2>5. IsPath(Parents', s)
    <3>1. Parents'[s[1]] = NoPid
      BY <2>1, <2>2, <2>3, <2>4 DEF PathOn, IsPath
    <3>2. ASSUME NEW i \in 1 .. Len(s) - 1 PROVE Parents'[s[i + 1]] = s[i]
      <4>1. CASE i = Len(r)
        BY <2>2, <2>3, <2>4, <4>1
      <4>2. CASE i # Len(r)
        <5>1. i \in 1 .. Len(r) - 1 /\ i \in 1 .. Len(r) /\ i + 1 \in 1 .. Len(r)
          BY <2>2, <2>3, <4>2
        <5>2. Parents[r[i + 1]] = r[i]
          BY <2>1, <5>1 DEF PathOn, IsPath
        <5> QED  BY <2>2, <2>3, <2>4, <5>1, <5>2
      <4> QED  BY <4>1, <4>2
    <3>3. ASSUME NEW i \in 1 .. Len(s), NEW j \in 1 .. Len(s), s[i] = s[j] PROVE i = j
      <4>1. \A k \in 1 .. Len(s) : k \in 1 .. Len(r) \/ k = Len(s)
        BY <2>2, <2>3
      <4>2. \A k, m \in 1 .. Len(r) : r[k] = r[m] => k = m
        BY <2>1 DEF PathOn, IsPath
      <4> QED  BY <2>2, <2>3, <3>3, <4>1, <4>2
    <3>4. Len(s) >= 1
      BY <2>2, <2>3
    <3> QED  BY <2>3, <3>1, <3>2, <3>3, <3>4 DEF IsPath
  <2>6. s[1] = u /\ \A i \in 1 .. Len(s) : Live(s[i])'
    <3>1. \A k \in 1 .. Len(s) : k \in 1 .. Len(r) \/ k = Len(s)
      BY <2>2, <2>3
    <3>2. \A i \in 1 .. Len(r) : Live(s[i])'
      BY <2>2, <2>3, <2>4 DEF Live
    <3>3. Live(s[Len(s)])'
      BY <2>3, <2>4 DEF Live
    <3>4. s[1] = u
      BY <2>1, <2>2, <2>3 DEF PathOn
    <3> QED  BY <3>1, <3>2, <3>3, <3>4
  <2>7. PathOn(u, s)'
    BY <2>3, <2>4, <2>5, <2>6 DEF PathOn
  <2>8. s = Append(StackOf(u), n)
    BY <1>1, <2>1, StackIsPath DEF s
  <2> QED  BY <2>7, <2>8
<1>4. StackOf(u)' = Append(StackOf(u), n)
  BY <1>1, <1>3, NextStackIsPath
<1>5. Paths'
  BY <1>1, <1>2, <1>3 DEF Paths
<1> QED  BY <1>1, <1>2, <1>4, <1>5

\* halt takes the process on top off the stack of its terminal.
LEMMA PopStack ==
  ASSUME TableInv, Paths, Booted, Booted', terminal_init' = terminal_init, ta' = ta,
         NEW u \in Terms, u = ta, NEW status, halt_child(status)
  PROVE  /\ Paths' /\ Len(StackOf(u)) > 1
         /\ StackOf(u)' = SubSeq(StackOf(u), 1, Len(StackOf(u)) - 1)
         /\ \A t \in Terms \ {u} : StackOf(t)' = StackOf(t)
<1>1. Started' = Started /\ u \in Started /\ Started \subseteq Terms
  BY DEF Started, TableInv, ProcessTable, CurrentIsActive
<1>2. /\ \A p \in Pids : pcb'[p].parent_pid = pcb[p].parent_pid
      /\ \A p \in Pids \ {cur_pid} : pid_array'[p] = pid_array[p]
      /\ active_pid'[u] = Parent(cur_pid) /\ cur_pid = active_pid[u]
      /\ \A t \in Terms \ {u} : active_pid'[t] = active_pid[t]
      /\ Parent(cur_pid) \in Pids /\ Parent(cur_pid) # NoPid /\ cur_pid \in Pids
  BY PopFacts, ConstantsAssumption DEF Parent, Descendant, Pids, NoPid
<1>3. ASSUME NEW t \in Started \ {u}
      PROVE  \E s : PathOn(t, s)' /\ StackOf(t)' = StackOf(t)
  <2>1. PICK s : PathOn(t, s)
    BY DEF Paths
  <2>2. \A i \in 1 .. Len(s) : s[i] \in Pids /\ Live(s[i]) /\ s[i] # cur_pid
    BY <1>1, <1>2, <2>1, PathPids, TopOnOwnPath DEF PathOn
  <2>3. PathOn(t, s)'
    BY <1>1, <1>2, <2>1, <2>2, PathKept DEF Live
  <2> QED  BY <1>1, <2>1, <2>3, StackIsPath, NextStackIsPath
<1>4. PICK r : PathOn(u, r)
  BY <1>1 DEF Paths
<1>5. /\ r \in Seq(Pids) /\ Len(r) \in Nat /\ Len(r) >= 1
      /\ \A i \in 1 .. Len(r) : r[i] \in Pids /\ Live(r[i])
      /\ StackOf(u) = r /\ r[Len(r)] = cur_pid
  BY <1>1, <1>2, <1>4, PathPids, StackIsPath DEF PathOn
<1>6. Len(r) > 1
  <2>1. Parents[cur_pid] # NoPid
    BY <1>2 DEF Parents
  <2>2. Parents[r[1]] = NoPid
    BY <1>4 DEF PathOn, IsPath
  <2> QED  BY <1>5, <2>1, <2>2
<1> DEFINE s == SubSeq(r, 1, Len(r) - 1)
<1>7. /\ s \in Seq(Pids) /\ Len(s) = Len(r) - 1
      /\ \A i \in 1 .. Len(s) : s[i] = r[i]
  BY <1>5, <1>6
<1> HIDE DEF s
<1>8. PathOn(u, s)'
  <2>1. \A i \in 1 .. Len(s) : i \in 1 .. Len(r) /\ i # Len(r)
    BY <1>5, <1>7
  <2>2. \A i, j \in 1 .. Len(r) : r[i] = r[j] => i = j
    BY <1>4 DEF PathOn, IsPath
  <2>3. \A i \in 1 .. Len(s) : s[i] \in Pids \ {cur_pid} /\ Live(s[i])
    <3>1. Len(r) \in 1 .. Len(r)
      BY <1>5
    <3> QED  BY <1>5, <1>7, <2>1, <2>2, <3>1
  <2>4. \A p \in Pids : Parents'[p] = Parents[p]
    BY <1>2 DEF Parents, Parent
  <2>5. IsPath(Parents', s)
    <3>1. Len(s) >= 1 /\ 1 \in 1 .. Len(s) /\ s[1] = r[1]
      BY <1>5, <1>6, <1>7
    <3>2. Parents'[s[1]] = NoPid
      BY <1>4, <2>3, <2>4, <3>1 DEF PathOn, IsPath
    <3>3. ASSUME NEW i \in 1 .. Len(s) - 1 PROVE Parents'[s[i + 1]] = s[i]
      <4>1. /\ i \in 1 .. Len(r) - 1 /\ i \in 1 .. Len(s) /\ i + 1 \in 1 .. Len(s)
            /\ i + 1 \in 1 .. Len(r)
        BY <1>5, <1>7
      <4>2. Parents[r[i + 1]] = r[i]
        BY <1>4, <4>1 DEF PathOn, IsPath
      <4> QED  BY <1>7, <2>3, <2>4, <4>1, <4>2
    <3>4. \A i, j \in 1 .. Len(s) : s[i] = s[j] => i = j
      BY <1>7, <2>1, <2>2
    <3> QED  BY <1>7, <3>1, <3>2, <3>3, <3>4 DEF IsPath
  <2>6. s[Len(s)] = active_pid'[u]
    <3>1. /\ Len(r) - 1 \in 1 .. Len(r) - 1 /\ Len(s) \in 1 .. Len(s)
          /\ (Len(r) - 1) + 1 = Len(r)
      BY <1>5, <1>6, <1>7
    <3>2. Parents[r[Len(r)]] = r[Len(r) - 1]
      BY <1>4, <3>1 DEF PathOn, IsPath
    <3>3. s[Len(s)] = r[Len(r) - 1]
      BY <1>7, <3>1
    <3>4. Parents[cur_pid] = Parent(cur_pid)
      BY <1>2 DEF Parents
    <3> QED  BY <1>2, <1>5, <3>2, <3>3, <3>4
  <2>7. s[1] = u
    <3>1. 1 \in 1 .. Len(s)
      BY <1>5, <1>6, <1>7
    <3> QED  BY <1>4, <1>7, <3>1 DEF PathOn
  <2>8. \A i \in 1 .. Len(s) : pid_array'[s[i]] = 1
    BY <1>2, <2>3 DEF Live
  <2> QED  BY <2>5, <2>6, <2>7, <2>8 DEF PathOn, Live
<1>9. StackOf(u)' = s
  BY <1>1, <1>8, NextStackIsPath
<1>10. Paths'
  BY <1>1, <1>3, <1>8 DEF Paths
<1>11. \A t \in Terms \ {u} : StackOf(t)' = StackOf(t)
  <2>1. \A t \in Terms \ Started : StackOf(t)' = StackOf(t)
    BY <1>1 DEF StackOf
  <2> QED  BY <1>3, <2>1
<1> QED  BY <1>5, <1>6, <1>9, <1>10, <1>11 DEF s

\* A path of one process.
LEMMA ShellPath ==
  ASSUME NEW n \in Pids, NEW t, n = t, Parent(n)' = NoPid, active_pid'[t] = n, Live(n)'
  PROVE  PathOn(t, <<n>>)'
<1> DEFINE s == <<n>>
<1>1. s \in Seq(Pids) /\ Len(s) = 1 /\ s[1] = n
  OBVIOUS
<1> HIDE DEF s
<1>2. Parents'[n] = NoPid
  BY DEF Parents
<1>3. \A i \in 1 .. Len(s) : i = 1
  BY <1>1
<1>4. 1 .. Len(s) - 1 = {}
  BY <1>1
<1>5. IsPath(Parents', s)
  BY <1>1, <1>2, <1>3, <1>4 DEF IsPath
<1>6. PathOn(t, s)'
  BY <1>1, <1>3, <1>5 DEF PathOn, Live
<1> QED  BY <1>6 DEF s

\* entry() and the first ticks start a stack with a shell on it.
LEMMA EntryStack ==
  ASSUME TableInv, entry
  PROVE  /\ Paths' /\ Booted' /\ ~ Booted /\ 0 \in Pids
         /\ StackOf(0)' = <<0>>
         /\ \A t \in Terms \ {0} : StackOf(t)' = << >>
<1>1. /\ 0 \in Pids /\ 0 \in Terms /\ Started' = {0} /\ Booted' /\ ~ Booted
      /\ Parent(0)' = NoPid /\ active_pid'[0] = 0 /\ Live(0)'
  BY EntryFacts DEF Booted, UserFlow, entry
<1>2. PathOn(0, <<0>>)'
  BY <1>1, ShellPath
<1>3. StackOf(0)' = <<0>>
  BY <1>1, <1>2, NextStackIsPath
<1>4. Paths'
  BY <1>1, <1>2 DEF Paths
<1>5. \A t \in Terms \ {0} : StackOf(t)' = << >>
  BY <1>1 DEF StackOf
<1> QED  BY <1>1, <1>3, <1>4, <1>5

\* Starting a terminal gives it the stack of its base shell and leaves the others.
LEMMA StartStack ==
  ASSUME TableInv, Paths, Booted, start_terminal
  PROVE  \E n \in Terms :
           /\ n = terminal_init /\ n \in Pids /\ ~ Live(n) /\ n \notin Started
           /\ Paths' /\ ta' = n /\ ret' = NoRet
           /\ StackOf(n)' = <<n>>
           /\ \A t \in Terms \ {n} : StackOf(t)' = StackOf(t)
<1>1. PICK n \in Pids :
        /\ n = terminal_init /\ n \in Terms /\ ta' = n /\ ret' = NoRet
        /\ Started' = Started \cup {n} /\ n \notin Started /\ Started \subseteq Terms
        /\ pid_array[n] = 0
        /\ Parent(n)' = NoPid
        /\ \A p \in Pids \ {n} : Parent(p)' = Parent(p)
        /\ pid_array'[n] = 1
        /\ \A p \in Pids \ {n} : pid_array'[p] = pid_array[p]
        /\ active_pid'[n] = n
        /\ \A u \in Terms \ {n} : active_pid'[u] = active_pid[u]
        /\ flow' = UserFlow(n)
  BY StartFacts
<1>2. Booted' /\ ~ Live(n)
  BY <1>1 DEF Booted, UserFlow, Live
<1>3. PathOn(n, <<n>>)'
  BY <1>1, ShellPath DEF Live
<1>4. ASSUME NEW t \in Started
      PROVE  \E s : PathOn(t, s)' /\ StackOf(t)' = StackOf(t)
  <2>1. PICK s : PathOn(t, s)
    BY DEF Paths
  <2>2. \A i \in 1 .. Len(s) : s[i] \in Pids \ {n} /\ Live(s[i])
    BY <1>2, <2>1, PathPids DEF PathOn
  <2>3. PathOn(t, s)'
    BY <1>1, <2>1, <2>2, PathKept DEF Live, Parent
  <2> QED  BY <1>1, <1>2, <2>1, <2>3, StackIsPath, NextStackIsPath
<1>5. StackOf(n)' = <<n>>
  BY <1>1, <1>2, <1>3, NextStackIsPath
<1>6. Paths'
  BY <1>1, <1>3, <1>4 DEF Paths
<1>7. \A t \in Terms \ {n} : StackOf(t)' = StackOf(t)
  <2>1. \A t \in Terms \ (Started \cup {n}) : StackOf(t)' = StackOf(t)
    BY <1>1 DEF StackOf
  <2> QED  BY <1>4, <2>1
<1> QED  BY <1>1, <1>2, <1>5, <1>6, <1>7

\* A tick after boot leaves the stacks alone.
LEMMA RotateStack ==
  ASSUME TableInv, Paths, Booted, rotate
  PROVE  /\ Paths' /\ Started = Terms
         /\ \A t \in Terms : StackOf(t)' = StackOf(t)
<1>1. /\ NextTerm \in Terms /\ active_pid[NextTerm] \in Pids
      /\ terminal_init \in 1 .. NUM_TERMS + 1 /\ terminal_init >= NUM_TERMS
      /\ \A p \in Pids : Saved[p].parent_pid = Parent(p) /\ Saved[p].cur.at # "boot"
  BY NextTermType, SavedKeepsParents DEF TableInv, TypeInv, TypeOK, rotate
<1>2. Started = Terms /\ Started' = Terms
  BY <1>1, ConstantsAssumption DEF rotate, Started, Terms
<1>3. /\ pid_array' = pid_array /\ active_pid' = active_pid /\ Booted'
      /\ \A p \in Pids : Parent(p)' = Parent(p)
  BY <1>1 DEF rotate, switch_to, Parent, Booted
<1> QED  BY <1>2, <1>3, StacksKept

\* Every step keeps the paths, halt_helper's open gap included.
LEMMA PathsStep ==
  ASSUME QuietBoot, TableInv, Paths, [Next]_vars
  PROVE  Paths'
<1>0. TypeInv /\ TypeInv' /\ ta \in Terms
  BY TypeStep DEF TableInv, TypeInv, TypeOK
<1>1. CASE entry
  BY <1>1, EntryStack
<1>2. CASE sys_execute
  <2>1. Booted /\ BootDone
    BY <1>2 DEF sys_execute, MayExecute, Running, QuietBoot, Booted
  <2> QED  BY <1>0, <1>2, <2>1, PushStack DEF sys_execute
<1>3. ASSUME \/ sys_execute_full \/ sys_execute_no_file \/ return_to_parent
      PROVE  Paths'
  BY <1>3, StacksKept DEF sys_execute_full, sys_execute_no_file, return_to_parent,
     MayExecute, Running, Booted, UserFlow, Started, Parent
<1>4. ASSUME NEW status \in Statuses \cup {EXCEPTION_HALT}, halt_helper(status)
      PROVE  Paths'
  <2>1. Booted /\ terminal_init' = terminal_init /\ ta' = ta
    BY <1>4 DEF halt_helper, Running, Booted
  <2>2. CASE halt_base
    <3>1. Booted' /\ Started' = Started
      BY <2>1, <2>2 DEF halt_base, launch, UserFlow, Booted, Started
    <3> QED  BY <2>1, <2>2, <3>1, RestartFacts, StacksKept
  <2>3. CASE halt_child(status)
    <3>1. Booted'
      BY <2>3 DEF halt_child, UserFlow, HaltReturn, Booted
    <3> QED  BY <1>0, <2>1, <2>3, <3>1, PopStack
  <2> QED  BY <1>4, <2>2, <2>3 DEF halt_helper
<1>5. CASE pit_handler
  <2>1. Booted
    BY <1>5 DEF pit_handler, Interruptible, Running, Booted, QuietBoot
  <2> QED  BY <1>5, <2>1, StartStack, RotateStack DEF pit_handler
<1>6. CASE UNCHANGED vars
  <2>1. CASE Booted
    BY <1>6, <2>1, StacksKept DEF vars, Booted, Started, Parent
  <2>2. CASE ~ Booted
    BY <1>6, <2>2 DEF vars, Booted, Paths
  <2> QED  BY <2>1, <2>2
<1> QED
  BY <1>1, <1>2, <1>3, <1>4, <1>5, <1>6 DEF Next, sys_halt, handle_exception

(***************************************************************************)
(* The base shells for the terminals keep their pids: as long as boot is   *)
(* not disturbed, following parent_pid from the program on terminal t ends *)
(* at pid t, whatever is executed, halted and restarted on the others.     *)
(***************************************************************************)
THEOREM BaseShellsCorrect == ASSUME QuietBoot PROVE Spec => []BaseShells
<1>1. Init => TableInv /\ Paths
  BY TableInit DEF Init, Paths, Booted, BootFlow
<1>2. TableInv /\ Paths /\ [Next]_vars => (TableInv /\ Paths)'
  BY TableStep, PathsStep
<1>3. TableInv /\ Paths => BaseShells
  <2> SUFFICES ASSUME TableInv, Paths, BootDone, NEW t \in Terms
               PROVE  Head(Chain(t)) = t
    BY DEF BaseShells
  <2>1. Booted /\ t \in Started
    BY ConstantsAssumption DEF TableInv, BootOrder, BootDone, Started, Terms,
       TypeInv, TypeOK
  <2>2. PICK s : PathOn(t, s)
    BY <2>1 DEF Paths
  <2>3. Chain(t) = s /\ s \in Seq(Pids) /\ Len(s) >= 1 /\ s[1] = t
    BY <2>1, <2>2, StackIsPath, PathPids DEF PathOn
  <2> QED  BY <2>3
<1> QED  BY <1>1, <1>2, <1>3, PTL DEF Spec

-----------------------------------------------------------------------------
(* The stacks of processes of Sessions. *)

\* A slot that is free is on no stack.
LEMMA FreshPid ==
  ASSUME TableInv, Paths, NEW n \in Pids, ~ Live(n)
  PROVE  n \in Abstract!Fresh([t \in Terms |-> StackOf(t)])
<1> DEFINE st == [t \in Terms |-> StackOf(t)]
<1>1. ASSUME NEW t \in Terms PROVE n \notin Abstract!ToSet(st[t])
  <2>1. StackOf(t) \in Seq(Pids) /\ \A i \in 1 .. Len(StackOf(t)) : Live(StackOf(t)[i])
    BY StacksLive
  <2> QED  BY <2>1 DEF Abstract!ToSet
<1>2. Terms = 0 .. NUM_TERMS - 1
  BY DEF Terms
<1> HIDE DEF st
<1>3. n \notin Abstract!InUse(st)
  BY <1>1, <1>2 DEF Abstract!InUse, Abstract!Terminals
<1> QED  BY <1>3 DEF Abstract!Fresh, st

\* A terminal gets its shell.
LEMMA SessionsStart ==
  ASSUME TableInv, Paths, NEW n \in Terms, n \in Pids, ~ Live(n), ta' = n, ret' = NoRet,
         StackOf(n) = << >>, \A u \in 0 .. n - 1 : StackOf(u) # << >>,
         StackOf(n)' = <<n>>, \A t \in Terms \ {n} : StackOf(t)' = StackOf(t)
  PROVE  Abstract!Start
<1>1. n \in Abstract!Fresh([t \in Terms |-> StackOf(t)])
  BY FreshPid
<1>2. [t \in Terms |-> StackOf(t)]' = [[t \in Terms |-> StackOf(t)] EXCEPT ![n] = <<n>>]
  OBVIOUS
<1>3. \A u \in 0 .. n - 1 : u \in Terms
  BY ConstantsAssumption DEF Terms
<1>4. n \in Abstract!Terminals
  BY DEF Abstract!Terminals, Terms
<1> QED  BY <1>1, <1>2, <1>3, <1>4 DEF Abstract!Start

\* After boot no stack is empty.
LEMMA SessionsStarted ==
  ASSUME TableInv, Paths, Booted, Started = Terms
  PROVE  Abstract!AllStarted
BY StacksLive DEF Abstract!AllStarted, Abstract!Terminals, Terms

\* Every step of the kernel is a step of the sessions, or none.
LEMMA SessionsStep ==
  ASSUME Windows = {}, StackInv, Paths, [Next]_vars
  PROVE  Abstract!SessionsNext \/ UNCHANGED <<[t \in Terms |-> StackOf(t)], ta, ret>>
<1>0. /\ TableInv /\ QuietBoot /\ ta \in Terms
      /\ flow.at # "haltret"
  BY DEF StackInv, TableInv, TypeInv, TypeOK, QuietBoot, NoHaltReturn
<1>1. CASE entry
  <2>1. /\ 0 \in Pids /\ 0 \in Terms /\ ta' = 0 /\ ~ Live(0) /\ ret' = NoRet /\ ~ Booted
    <3>1. 0 \in Pids /\ 0 \in Terms /\ ta' = 0
      BY <1>0, <1>1, EntryFacts
    <3>2. ~ Booted /\ ret' = NoRet
      BY <1>1 DEF entry, Booted, launch
    <3>3. pid_array = [p \in Pids |-> 0]
      BY <1>0, <3>2 DEF TableInv, BootOrder
    <3> QED  BY <3>1, <3>2, <3>3 DEF Live
  <2>2. \A t \in Terms : StackOf(t) = << >>
    BY <2>1 DEF StackOf
  <2>3. Abstract!Start
    <3>1. 0 .. 0 - 1 = {}
      OBVIOUS
    <3> QED  BY <1>0, <1>1, <2>1, <2>2, <3>1, EntryStack, SessionsStart
  <2> QED  BY <2>3 DEF Abstract!SessionsNext
<1>2. CASE sys_execute
  <2>1. Booted /\ BootDone
    BY <1>0, <1>2 DEF sys_execute, MayExecute, Running, QuietBoot, Booted
  <2>2. PICK n \in Pids : /\ NextOpen(pid_array, n)
                          /\ launch(n, cur_pid, pid_array, pcb, active_pid, ta)
    BY <1>2 DEF sys_execute
  <2>3. terminal_init' = terminal_init /\ ta' = ta /\ ret' = NoRet
    BY <1>2, <2>2 DEF sys_execute, launch
  <2>4. PICK u \in Terms : u = ta
    BY <1>0
  <2>5. /\ ~ Live(n) /\ StackOf(u)' = Append(StackOf(u), n)
        /\ \A t \in Terms \ {u} : StackOf(t)' = StackOf(t)
    BY <1>0, <2>1, <2>2, <2>3, <2>4, PushStack
  <2>6. Abstract!AllStarted
    BY <1>0, <2>1, <2>2, <2>3, PushFacts, SessionsStarted
  <2>7. n \in Abstract!Fresh([t \in Terms |-> StackOf(t)])
    BY <1>0, <2>5, FreshPid
  <2>8. [t \in Terms |-> StackOf(t)]'
          = [[t \in Terms |-> StackOf(t)] EXCEPT ![ta] = Append(@, n)]
    BY <2>4, <2>5
  <2>9. Abstract!Execute
    BY <2>3, <2>6, <2>7, <2>8 DEF Abstract!Execute
  <2> QED  BY <2>9 DEF Abstract!SessionsNext
<1>3. CASE sys_execute_full \/ sys_execute_no_file
  <2>1. /\ Booted /\ Booted' /\ BootDone /\ Started' = Started /\ ta' = ta
        /\ pid_array' = pid_array /\ active_pid' = active_pid /\ pcb' = pcb
        /\ ret' \in {-1, FUNNY_NUMBER}
    BY <1>0, <1>3 DEF sys_execute_full, sys_execute_no_file, MayExecute, Running,
       QuietBoot, Booted, BootDone, Started
  <2>2. Started = Terms
    BY <1>0, <2>1, ConstantsAssumption
       DEF TableInv, TypeInv, TypeOK, BootDone, Started, Terms
  <2>3. \A t \in Terms : StackOf(t)' = StackOf(t)
    BY <2>1, StacksKept DEF Parent
  <2>4. Abstract!Refuse
    BY <1>0, <2>1, <2>2, <2>3, SessionsStarted DEF Abstract!Refuse
  <2> QED  BY <2>4 DEF Abstract!SessionsNext
<1>4. ASSUME NEW status \in Statuses \cup {EXCEPTION_HALT}, halt_helper(status)
      PROVE  Abstract!SessionsNext
  <2>1. Booted /\ terminal_init' = terminal_init /\ ta' = ta
    BY <1>4 DEF halt_helper, Running, Booted
  <2>2. PICK u \in Terms : u = ta
    BY <1>0
  <2>3. CASE halt_base
    <3>1. Booted' /\ Started' = Started /\ ret' = NoRet
      BY <2>1, <2>3 DEF halt_base, launch, UserFlow, Booted, Started
    <3>2. \A t \in Terms : StackOf(t)' = StackOf(t)
      BY <1>0, <2>1, <2>3, <3>1, RestartFacts, StacksKept
    <3>3. Len(StackOf(u)) = 1
      <4>1. u \in Started
        BY <1>0, <2>1, <2>2 DEF TableInv, ProcessTable, CurrentIsActive
      <4>2. PICK s : PathOn(u, s)
        BY <2>1, <4>1 DEF Paths
      <4>3. /\ StackOf(u) = s /\ Len(s) \in Nat /\ Len(s) >= 1
            /\ \A i \in 1 .. Len(s) : s[i] \in Pids
        BY <2>1, <4>1, <4>2, StackIsPath, PathPids DEF PathOn
      <4>4. s[Len(s)] = cur_pid /\ Parent(cur_pid) = NoPid
        BY <1>0, <2>1, <2>2, <2>3, <4>2, RestartFacts DEF PathOn
      <4>5. Parents[s[Len(s)]] = NoPid
        BY <4>3, <4>4 DEF Parents
      <4>6. ASSUME Len(s) # 1 PROVE FALSE
        <5>1. /\ Len(s) - 1 \in 1 .. Len(s) - 1 /\ Len(s) - 1 \in 1 .. Len(s)
              /\ (Len(s) - 1) + 1 = Len(s)
          BY <4>3, <4>6
        <5>2. Parents[s[Len(s)]] = s[Len(s) - 1]
          BY <4>2, <5>1 DEF PathOn, IsPath
        <5>3. s[Len(s) - 1] # NoPid
          BY <4>3, <5>1, ConstantsAssumption DEF Pids, NoPid
        <5> QED  BY <4>5, <5>2, <5>3
      <4> QED  BY <4>3, <4>6
    <3>4. Abstract!Restart
      BY <2>1, <2>2, <3>1, <3>2, <3>3 DEF Abstract!Restart
    <3> QED  BY <3>4 DEF Abstract!SessionsNext
  <2>4. CASE halt_child(status)
    <3>1. Booted' /\ ret' = status
      BY <2>4 DEF halt_child, UserFlow, Booted
    <3>2. /\ Len(StackOf(u)) > 1
          /\ StackOf(u)' = SubSeq(StackOf(u), 1, Len(StackOf(u)) - 1)
          /\ \A t \in Terms \ {u} : StackOf(t)' = StackOf(t)
      BY <1>0, <2>1, <2>2, <2>4, <3>1, PopStack
    <3>3. [t \in Terms |-> StackOf(t)]'
            = [[t \in Terms |-> StackOf(t)] EXCEPT ![ta] = Abstract!Front(@)]
      BY <2>2, <3>2 DEF Abstract!Front
    <3>4. Abstract!Halt
      BY <2>1, <2>2, <3>1, <3>2, <3>3 DEF Abstract!Halt
    <3> QED  BY <3>4 DEF Abstract!SessionsNext
  <2> QED  BY <1>4, <2>3, <2>4 DEF halt_helper
<1>5. CASE return_to_parent
  BY <1>0, <1>5 DEF return_to_parent
<1>6. CASE pit_handler
  <2>1. Booted
    BY <1>0, <1>6 DEF pit_handler, Interruptible, Running, Booted, QuietBoot
  <2>2. CASE start_terminal
    <3>1. PICK n \in Terms :
            /\ n = terminal_init /\ n \in Pids /\ ~ Live(n) /\ n \notin Started
            /\ ta' = n /\ ret' = NoRet /\ StackOf(n)' = <<n>>
            /\ \A t \in Terms \ {n} : StackOf(t)' = StackOf(t)
      BY <1>0, <2>1, <2>2, StartStack
    <3>2. \A v \in 0 .. n - 1 : v \in Terms /\ v \in Started
      BY <3>1, ConstantsAssumption DEF Terms, Started
    <3>3. StackOf(n) = << >> /\ \A v \in 0 .. n - 1 : StackOf(v) # << >>
      BY <1>0, <2>1, <3>1, <3>2, StacksLive
    <3>4. Abstract!Start
      BY <1>0, <3>1, <3>3, SessionsStart
    <3> QED  BY <3>4 DEF Abstract!SessionsNext
  <2>3. CASE rotate
    <3>1. ta' = (ta + 1) % NUM_TERMS /\ ret' = NoRet
      BY <2>3 DEF rotate, switch_to, NextTerm
    <3>2. Started = Terms /\ \A t \in Terms : StackOf(t)' = StackOf(t)
      BY <1>0, <2>1, <2>3, RotateStack
    <3>3. Abstract!Rotate
      BY <1>0, <2>1, <3>1, <3>2, SessionsStarted DEF Abstract!Rotate
    <3> QED  BY <3>3 DEF Abstract!SessionsNext
  <2> QED  BY <1>6, <2>2, <2>3 DEF pit_handler
<1>7. CASE UNCHANGED vars
  <2>1. /\ Started' = Started /\ Booted' = Booted /\ ta' = ta /\ ret' = ret
        /\ pid_array' = pid_array /\ active_pid' = active_pid /\ pcb' = pcb
    BY <1>7 DEF vars, Started, Booted
  <2>2. CASE Booted
    <3>1. \A t \in Terms : StackOf(t)' = StackOf(t)
      BY <2>1, <2>2, StacksKept DEF Parent
    <3> QED  BY <2>1, <3>1
  <2>3. CASE ~ Booted
    BY <2>1, <2>3 DEF StackOf
  <2> QED  BY <2>2, <2>3
<1> QED
  BY <1>1, <1>2, <1>3, <1>4, <1>5, <1>6, <1>7 DEF Next, sys_halt, handle_exception

(***************************************************************************)
(* The process table, its pids and its control blocks implement a stack of *)
(* processes per terminal, if no tick hits the end of halt_helper or boot: *)
(* a step of one terminal touches no other terminal's stack, and halt      *)
(* returns, with its status, to the program that called execute.  That     *)
(* every terminal's turn comes is the other half of SessionsSpec.          *)
(***************************************************************************)
THEOREM SessionsRefined ==
  ASSUME Windows = {} PROVE Spec => Abstract!SessionsSafe
<1>1. Init => Paths /\ Abstract!SessionsInit
  <2> SUFFICES ASSUME Init PROVE Paths /\ Abstract!SessionsInit
    OBVIOUS
  <2>1. ~ Booted /\ ta = 0 /\ ret = NoRet
    BY DEF Init, Booted, BootFlow
  <2>2. \A t \in Terms : StackOf(t) = << >>
    BY <2>1 DEF StackOf
  <2> QED  BY <2>1, <2>2 DEF Paths, Abstract!SessionsInit, Abstract!Terminals, Terms
<1>2. StackInv /\ Paths /\ [Next]_vars => Paths'
  BY PathsStep DEF QuietBoot, StackInv
<1>3. StackInv /\ Paths /\ [Next]_vars
        => [Abstract!SessionsNext]_<<[t \in Terms |-> StackOf(t)], ta, ret>>
  BY SessionsStep
<1> QED  BY <1>1, <1>2, <1>3, StackAlways, PTL
         DEF Spec, Abstract!SessionsSafe, Abstract!svars
=============================================================================
