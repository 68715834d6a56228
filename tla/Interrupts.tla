---------------------------- MODULE Interrupts ----------------------------
(***************************************************************************)
(* The two interrupt controllers and the nesting of interrupt handlers.    *)
(*                                                                         *)
(* The gates of initialize_idt are trap gates, so a handler starts with    *)
(* interrupts enabled and disables them with its first instruction; until  *)
(* then, and between its sti() and its iret, other interrupts nest on top  *)
(* of it.  The timer handler leaves the kernel stack it runs on for that   *)
(* of another terminal, with whatever handlers are suspended there.        *)
(*                                                                         *)
(* Timing.  A tick comes every 30 ms, an RTC interrupt every millisecond   *)
(* and a scan code less often than a tick, while a handler takes           *)
(* microseconds.  burst counts what came since the running flow was last   *)
(* at rest and keeps the devices to that.                                  *)
(***************************************************************************)
EXTENDS Integers, Sequences

CONSTANTS
  NUM_TERMS,   \* number of terminals
  KeyBurst     \* bound: scan codes in one time slice

ASSUME InterruptsAssumption ==
  /\ NUM_TERMS \in Nat \ {0}
  /\ KeyBurst \in Nat \ {0}

PIC_IRQ_NUM == 8   \* lines of one controller
ICW3_SLAVE  == 2   \* line of the master that the slave is connected to
PIT_IRQ     == 0
KB_IRQ      == 1
RTC_IRQ     == 8
Irqs        == {PIT_IRQ, KB_IRQ, RTC_IRQ}
Lines       == 0 .. PIC_IRQ_NUM - 1
Terms       == 0 .. NUM_TERMS - 1

VARIABLES
  boot,           \* steps of entry() done
  masks,          \* master_mask and slave_mask: the lines disabled
  in_service,     \* lines delivered and not acknowledged, per controller
  raised,         \* interrupts requested by devices
  enabled,        \* the processor takes interrupts
  flow,           \* terminal on whose kernel stack the processor is
  frames,         \* frames[t]: handlers suspended on that stack, top first
  terminal_init,  \* terminals started, one more after the first rotation
  rtc_armed,      \* register C was read since the last RTC interrupt
  burst           \* interrupts of a device since the flow was at rest

intvars == <<boot, masks, in_service, raised, enabled, flow, frames,
             terminal_init, rtc_armed, burst>>

\* Where a handler stands: before its cli(), after it, after the
\* terminal_switch of the timer, after send_eoi, before a second send_eoi,
\* and after the last sti().
Points == {"entry", "body", "switched", "acked", "late", "out"}
Frames == [irq : Irqs, at : Points]
Booted == 5   \* steps of entry() up to its own sti()

IntTypeOK ==
  /\ boot \in 0 .. Booted
  /\ masks \in [master : SUBSET Lines, slave : SUBSET Lines]
  /\ in_service \in [master : SUBSET Lines, slave : SUBSET Lines]
  /\ raised \subseteq Irqs
  /\ enabled \in BOOLEAN
  /\ flow \in Terms
  /\ DOMAIN frames = Terms
  /\ \A t \in Terms : \A i \in 1 .. Len(frames[t]) : frames[t][i] \in Frames
  /\ terminal_init \in 1 .. NUM_TERMS + 1
  /\ rtc_armed \in BOOLEAN
  /\ burst \in [Irqs -> 0 .. KeyBurst]

InterruptsInit ==
  /\ boot = 0
  /\ masks = [master |-> Lines, slave |-> Lines]   \* MASK_ALL
  /\ in_service = [master |-> {}, slave |-> {}]
  /\ raised = {}
  /\ enabled = FALSE
  /\ flow = 0
  /\ frames = [t \in Terms |-> <<>>]
  /\ terminal_init = 1
  /\ rtc_armed = TRUE
  /\ burst = [irq \in Irqs |-> 0]

-----------------------------------------------------------------------------
(* The controllers. *)

OnSlave(irq) == irq >= PIC_IRQ_NUM

\* The masks m after enable_irq.
enable_irq(m, irq) ==
  IF OnSlave(irq) THEN [m EXCEPT !.slave = @ \ {irq - PIC_IRQ_NUM}]
                  ELSE [m EXCEPT !.master = @ \ {irq}]

\* Mutant of send_eoi: the master is not told of an interrupt of the slave.
send_eoi_one(irq) ==
  IF OnSlave(irq)
    THEN [in_service EXCEPT !.slave = @ \ {irq - PIC_IRQ_NUM}]
    ELSE [in_service EXCEPT !.master = @ \ {irq}]

\* What is in service after send_eoi.
send_eoi(irq) ==
  IF OnSlave(irq)
    THEN [master |-> in_service.master \ {ICW3_SLAVE},
          slave  |-> in_service.slave \ {irq - PIC_IRQ_NUM}]
    ELSE [in_service EXCEPT !.master = @ \ {irq}]

MasterLine(irq) == IF OnSlave(irq) THEN ICW3_SLAVE ELSE irq

Masked(irq) ==
  \/ MasterLine(irq) \in masks.master
  \/ OnSlave(irq) /\ irq - PIC_IRQ_NUM \in masks.slave

\* A controller passes a request on when no line of the same or a higher
\* priority (a smaller number) is in service.
PassedOn(irq) ==
  /\ irq \in raised /\ ~Masked(irq)
  /\ \A l \in in_service.master : l > MasterLine(irq)
  /\ OnSlave(irq) => \A l \in in_service.slave : l > irq - PIC_IRQ_NUM

Acknowledge(irq) ==
  IF OnSlave(irq)
    THEN [master |-> in_service.master \cup {ICW3_SLAVE},
          slave  |-> in_service.slave \cup {irq - PIC_IRQ_NUM}]
    ELSE [in_service EXCEPT !.master = @ \cup {irq}]

\* A device raises its line.
Limit(irq) == IF irq = KB_IRQ THEN KeyBurst ELSE 1

raise(irq) ==
  /\ irq \notin raised
  /\ irq = PIT_IRQ => boot = Booted
  /\ irq = RTC_IRQ => boot >= 4 /\ rtc_armed
  /\ burst[irq] < Limit(irq)
  /\ raised' = raised \cup {irq}
  /\ burst' = [burst EXCEPT ![irq] = @ + 1]
  /\ rtc_armed' = (rtc_armed /\ irq # RTC_IRQ)
  /\ UNCHANGED <<boot, masks, in_service, enabled, flow, frames, terminal_init>>

\* The processor takes a request before its next instruction if it may.
Undisturbed == ~(enabled /\ \E irq \in Irqs : PassedOn(irq))

\* The request of the highest priority is taken.  A trap gate leaves
\* interrupts enabled.
deliver(irq) ==
  /\ enabled /\ PassedOn(irq)
  /\ \A other \in Irqs : PassedOn(other) => other >= irq
  /\ raised' = raised \ {irq}
  /\ in_service' = Acknowledge(irq)
  /\ frames' = [frames EXCEPT ![flow] = <<[irq |-> irq, at |-> "entry"]>> \o @]
  /\ UNCHANGED <<boot, masks, enabled, flow, terminal_init, rtc_armed, burst>>

-----------------------------------------------------------------------------
(* The handlers. *)

\* The handler that runs is irq's, at point p.
At(irq, p) ==
  /\ frames[flow] # <<>> /\ Head(frames[flow]) = [irq |-> irq, at |-> p]
  /\ Undisturbed

Goto(irq, p) ==
  frames' = [frames EXCEPT ![flow] = <<[irq |-> irq, at |-> p]>> \o Tail(@)]

\* Mutant of enter: the timer's handler disables interrupts after saving.
enter_open(irq) ==
  /\ At(irq, "entry")
  /\ Goto(irq, "body")
  /\ enabled' = enabled
  /\ UNCHANGED <<boot, masks, in_service, raised, flow, terminal_init,
                 rtc_armed, burst>>

\* The cli() every handler starts with.
enter(irq) ==
  /\ At(irq, "entry")
  /\ Goto(irq, "body")
  /\ enabled' = FALSE
  /\ UNCHANGED <<boot, masks, in_service, raised, flow, terminal_init,
                 rtc_armed, burst>>

\* keyboard_handler, unless alt is held with a function key of a terminal
\* that is not shown: one or two send_eoi(IRQ1), sti().
keyboard_handler ==
  /\ At(KB_IRQ, "body")
  /\ in_service' = send_eoi(KB_IRQ)
  /\ Goto(KB_IRQ, "out")
  /\ enabled' = TRUE
  /\ UNCHANGED <<boot, masks, raised, flow, terminal_init, rtc_armed, burst>>

\* keyboard_handler with alt: it acknowledges before it switches terminals,
\* and terminal_switch ends in sti().
keyboard_switch ==
  /\ At(KB_IRQ, "body")
  /\ in_service' = send_eoi(KB_IRQ)
  /\ Goto(KB_IRQ, "late")
  /\ enabled' = TRUE
  /\ UNCHANGED <<boot, masks, raised, flow, terminal_init, rtc_armed, burst>>

\* The second send_eoi(IRQ1) of that case.
keyboard_late ==
  /\ At(KB_IRQ, "late")
  /\ in_service' = send_eoi(KB_IRQ)
  /\ Goto(KB_IRQ, "out")
  /\ enabled' = TRUE
  /\ UNCHANGED <<boot, masks, raised, flow, terminal_init, rtc_armed, burst>>

\* Mutant of rtc_handler: register C is not read.
rtc_handler_once ==
  /\ At(RTC_IRQ, "body")
  /\ in_service' = send_eoi(RTC_IRQ)
  /\ Goto(RTC_IRQ, "out")
  /\ enabled' = TRUE
  /\ UNCHANGED <<boot, masks, raised, flow, terminal_init, rtc_armed, burst>>

\* rtc_handler.  Reading register C lets the device interrupt again.
rtc_handler ==
  /\ At(RTC_IRQ, "body")
  /\ rtc_armed' = TRUE
  /\ in_service' = send_eoi(RTC_IRQ)
  /\ Goto(RTC_IRQ, "out")
  /\ enabled' = TRUE
  /\ UNCHANGED <<boot, masks, raised, flow, terminal_init, burst>>

\* pit_handler up to its send_eoi(0).  While terminals are being started, and
\* once more after that, it calls terminal_switch, which ends in sti() unless
\* the terminal is shown already.
pit_switch ==
  /\ At(PIT_IRQ, "body")
  /\ Goto(PIT_IRQ, "switched")
  /\ \/ enabled' = enabled
     \/ terminal_init <= NUM_TERMS /\ enabled' = TRUE
  /\ UNCHANGED <<boot, masks, in_service, raised, flow, terminal_init,
                 rtc_armed, burst>>

pit_eoi ==
  /\ At(PIT_IRQ, "switched")
  /\ in_service' = send_eoi(PIT_IRQ)
  /\ Goto(PIT_IRQ, "acked")
  /\ UNCHANGED <<boot, masks, raised, enabled, flow, terminal_init, rtc_armed, burst>>

\* The rest of pit_handler: the first shell of a terminal, which starts with
\* an empty stack, or the stack of the next terminal, whose own pit_handler
\* then returns.  Either way interrupts are enabled.
NextFlow == IF terminal_init < NUM_TERMS THEN terminal_init
                                         ELSE (flow + 1) % NUM_TERMS

started == IF terminal_init <= NUM_TERMS THEN terminal_init + 1
                                         ELSE terminal_init

pit_leave ==
  /\ At(PIT_IRQ, "acked")
  /\ Goto(PIT_IRQ, "out")
  /\ flow' = NextFlow
  /\ terminal_init' = started
  /\ enabled' = TRUE
  /\ burst' = [irq \in Irqs |->
                 IF irq = PIT_IRQ /\ frames'[flow'] # <<>> THEN 1 ELSE 0]
  /\ UNCHANGED <<boot, masks, in_service, raised, rtc_armed>>

\* popal, iret.
iret ==
  /\ \E irq \in Irqs : At(irq, "out")
  /\ frames' = [frames EXCEPT ![flow] = Tail(@)]
  /\ burst' = [irq \in Irqs |-> IF /\ Len(frames[flow]) = 1
                                   /\ irq \notin raised \cup {KB_IRQ}
                                  THEN 0 ELSE burst[irq]]
  /\ UNCHANGED <<boot, masks, in_service, raised, enabled, flow, terminal_init,
                 rtc_armed>>

-----------------------------------------------------------------------------
(* Everything else that runs. *)

AtRest == frames[flow] = <<>> /\ Undisturbed

\* pit_init and rtc_init end in sti().
i8259_init    == boot = 0 /\ masks' = enable_irq(masks, ICW3_SLAVE)
                          /\ enabled' = enabled
pit_init      == boot = 1 /\ masks' = enable_irq(masks, PIT_IRQ)
                          /\ enabled' = TRUE
keyboard_init == boot = 2 /\ masks' = enable_irq(masks, KB_IRQ)
                          /\ enabled' = enabled
rtc_init      == boot = 3 /\ masks' = enable_irq(masks, RTC_IRQ)
                          /\ enabled' = TRUE

\* entry() sets the devices up one after the other; its own sti() comes last.
entry ==
  /\ boot < Booted /\ AtRest
  /\ boot' = boot + 1
  /\ \/ i8259_init \/ pit_init \/ keyboard_init \/ rtc_init
     \/ boot = 4 /\ masks' = masks /\ enabled' = TRUE
  /\ UNCHANGED <<in_service, raised, flow, frames, terminal_init, rtc_armed,
                 burst>>

\* A critical section of a system call.
cli ==
  /\ boot = Booted /\ AtRest
  /\ enabled /\ enabled' = FALSE
  /\ UNCHANGED <<boot, masks, in_service, raised, flow, frames,
                 terminal_init, rtc_armed, burst>>

sti ==
  /\ boot = Booted /\ AtRest
  /\ ~enabled /\ enabled' = TRUE
  /\ UNCHANGED <<boot, masks, in_service, raised, flow, frames,
                 terminal_init, rtc_armed, burst>>

\* What the processor does by itself.
Handler ==
  \/ \E irq \in Irqs : enter(irq)
  \/ keyboard_handler \/ keyboard_switch \/ keyboard_late
  \/ rtc_handler
  \/ pit_switch \/ pit_eoi \/ pit_leave
  \/ iret

InterruptsNext ==
  \/ \E irq \in Irqs : raise(irq) \/ deliver(irq)
  \/ Handler \/ entry \/ cli \/ sti

\* The processor goes on, sections end, the timer and the RTC interrupt
\* forever, and a request that the processor may take is taken.
InterruptsSpec ==
  /\ InterruptsInit /\ [][InterruptsNext]_intvars
  /\ WF_intvars(Handler) /\ SF_intvars(entry) /\ WF_intvars(sti)
  /\ WF_intvars(raise(PIT_IRQ)) /\ WF_intvars(raise(RTC_IRQ))
  /\ WF_intvars(\E irq \in Irqs : deliver(irq))

-----------------------------------------------------------------------------
(* Properties. *)

Unserved(f)    == f.at \in {"entry", "body", "switched"}
InService(irq) == IF OnSlave(irq)
                    THEN irq - PIC_IRQ_NUM \in in_service.slave
                    ELSE irq \in in_service.master
HandlerOf(irq) == \E t \in Terms : \E i \in 1 .. Len(frames[t]) :
                    frames[t][i].irq = irq /\ Unserved(frames[t][i])

(***************************************************************************)
(* A line is in service only while a handler that will acknowledge it is   *)
(* on some stack, for the timer and the RTC exactly then; and the master   *)
(* serves the slave's line exactly while the slave serves one.  Otherwise  *)
(* the controller would hold back that line, and all below it, for good    *)
(* (send_eoi and where the handlers call it).  The keyboard's second       *)
(* send_eoi may acknowledge an interrupt whose handler has yet to run.     *)
(***************************************************************************)
Acknowledged ==
  /\ \A irq \in Irqs : InService(irq) => HandlerOf(irq)
  /\ \A irq \in {PIT_IRQ, RTC_IRQ} : HandlerOf(irq) => InService(irq)
  /\ ICW3_SLAVE \in in_service.master <=> in_service.slave # {}

(***************************************************************************)
(* The two together: masks, lines in service and the handlers on the       *)
(* stacks are what they can be, and every line in service will be          *)
(* acknowledged.                                                           *)
(***************************************************************************)
InterruptsInv == IntTypeOK /\ Acknowledged

(***************************************************************************)
(* pit_handler runs undisturbed on the current stack until it has left for *)
(* another one: although terminal_switch enables interrupts inside it,     *)
(* nothing nests before its send_eoi, and after it only while terminals    *)
(* are being started.  That a tick is one step of the other modules rests  *)
(* on this.                                                                *)
(***************************************************************************)
TickUndisturbed ==
  \A t \in Terms : \A i \in 1 .. Len(frames[t]) :
    frames[t][i].irq = PIT_IRQ /\ frames[t][i].at # "out" =>
      /\ t = flow
      /\ i = 1 \/ (frames[t][i].at = "acked" /\ terminal_init <= NUM_TERMS)

(***************************************************************************)
(* No interrupt is held back for good, although handlers are suspended     *)
(* with their line in service when a tick takes the processor away, and    *)
(* the timer and the RTC go on interrupting (enable_irq, send_eoi, the     *)
(* read of register C).  The RTC, the lowest in priority, may have to wait *)
(* for as long as keys are being pressed.                                  *)
(***************************************************************************)
EveryIrqServed ==
  /\ \A irq \in {PIT_IRQ, KB_IRQ} : irq \in raised ~> irq \notin raised
  /\ RTC_IRQ \in raised ~> RTC_IRQ \notin raised \/ KB_IRQ \in raised
  /\ \A irq \in {PIT_IRQ, RTC_IRQ} : []<>(irq \in raised)
=============================================================================
