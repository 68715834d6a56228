------------------------- MODULE Interrupts_proofs -------------------------
(***************************************************************************)
(* Proofs about Interrupts, for any number of terminals and any number of  *)
(* scan codes in a time slice.                                             *)
(***************************************************************************)
EXTENDS Interrupts, SequenceTheorems, TLAPS

-----------------------------------------------------------------------------
(* The invariant. *)

StacksType == frames \in [Terms -> Seq(Frames)]

\* A handler of irq that is suspended or runs, and has not returned.
Slots(t)         == 1 .. Len(frames[t])
Serving(t, k)    == k \in Slots(t) /\ Unserved(frames[t][k])
RtcAt(t, k)      == Serving(t, k) /\ frames[t][k].irq = RTC_IRQ
PitAt(t, k)      == k \in Slots(t) /\ frames[t][k].irq = PIT_IRQ /\ frames[t][k].at # "out"

\* Only the keyboard's handler acknowledges a second time.
LateIsKeyboard ==
  \A t \in Terms : \A k \in Slots(t) : frames[t][k].at = "late" => frames[t][k].irq = KB_IRQ

\* The slave has one line in use.
SlaveLine == in_service.slave \subseteq {RTC_IRQ - PIC_IRQ_NUM}

\* The RTC is acknowledged before it is delivered again.
OneRtc ==
  \A t, u \in Terms : \A k \in Slots(t), l \in Slots(u) :
    RtcAt(t, k) /\ RtcAt(u, l) => t = u /\ k = l

(***************************************************************************)
(* The next tick is raised only when the last one has been left: while a   *)
(* handler of the timer is under way it is on the current stack, it is the *)
(* only one, and no other is pending.                                      *)
(***************************************************************************)
TickPending == PIT_IRQ \in raised => burst[PIT_IRQ] = 1

OneTick ==
  \A t \in Terms : \A k \in Slots(t) : PitAt(t, k) =>
    /\ t = flow
    /\ PIT_IRQ \notin raised /\ burst[PIT_IRQ] = 1
    /\ \A l \in Slots(t) : PitAt(t, l) => k = l

(***************************************************************************)
(* Nothing nests on it: its line in service holds back all others until    *)
(* its send_eoi, and afterwards interrupts are disabled, unless terminals  *)
(* are being started.                                                      *)
(***************************************************************************)
TickOnTop ==
  \A t \in Terms : \A k \in Slots(t) : PitAt(t, k) =>
    /\ Unserved(frames[t][k]) => k = 1
    /\ terminal_init > NUM_TERMS =>
         k = 1 /\ (frames[t][k].at # "entry" => ~ enabled)

InterruptsStrong ==
  /\ IntTypeOK /\ StacksType /\ LateIsKeyboard
  /\ Acknowledged /\ SlaveLine /\ OneRtc
  /\ TickPending /\ OneTick /\ TickOnTop

-----------------------------------------------------------------------------
(* The stacks and the controllers. *)

\* A handler is pushed on a stack, moves on at its top, and is popped.
LEMMA PushIs ==
  ASSUME NEW s \in Seq(Frames), NEW f \in Frames
  PROVE  /\ <<f>> \o s \in Seq(Frames) /\ Len(<<f>> \o s) = Len(s) + 1
         /\ (<<f>> \o s)[1] = f
         /\ \A k \in 2 .. Len(s) + 1 : (<<f>> \o s)[k] = s[k - 1]
<1>1. <<f>> \in Seq(Frames) /\ Len(<<f>>) = 1 /\ <<f>>[1] = f
  OBVIOUS
<1> QED  BY <1>1, ConcatProperties

\* A stack without its top.
LEMMA PopIs ==
  ASSUME NEW s \in Seq(Frames), s # << >>
  PROVE  /\ Len(s) \in Nat \ {0} /\ s[1] \in Frames /\ Head(s) = s[1]
         /\ Tail(s) \in Seq(Frames) /\ Len(Tail(s)) = Len(s) - 1
         /\ \A k \in 1 .. Len(s) - 1 : Tail(s)[k] = s[k + 1]
<1>1. Len(s) \in Nat \ {0}
  BY EmptySeq
<1> QED  BY <1>1, HeadTailProperties, ElementOfSeq

\* A stack with another top.
LEMMA TopIs ==
  ASSUME NEW s \in Seq(Frames), s # << >>, NEW f \in Frames
  PROVE  LET n == <<f>> \o Tail(s) IN
         /\ n \in Seq(Frames) /\ Len(n) = Len(s) /\ n[1] = f
         /\ \A k \in 2 .. Len(s) : n[k] = s[k]
<1> DEFINE n == <<f>> \o Tail(s)
<1>1. /\ Len(s) \in Nat \ {0} /\ Tail(s) \in Seq(Frames) /\ Len(Tail(s)) = Len(s) - 1
      /\ \A k \in 1 .. Len(s) - 1 : Tail(s)[k] = s[k + 1]
  BY PopIs
<1>2. /\ n \in Seq(Frames) /\ Len(n) = Len(Tail(s)) + 1 /\ n[1] = f
      /\ \A k \in 2 .. Len(Tail(s)) + 1 : n[k] = Tail(s)[k - 1]
  BY <1>1, PushIs
<1> HIDE DEF n
<1>3. Len(n) = Len(s)
  BY <1>1, <1>2
<1>4. ASSUME NEW k \in 2 .. Len(s) PROVE n[k] = s[k]
  <2>1. k \in 2 .. Len(Tail(s)) + 1 /\ k - 1 \in 1 .. Len(s) - 1 /\ (k - 1) + 1 = k
    BY <1>1
  <2> QED  BY <1>1, <1>2, <2>1
<1> QED  BY <1>2, <1>3, <1>4 DEF n

\* The lines, as numbers.
LEMMA LineNumbers ==
  /\ PIT_IRQ = 0 /\ KB_IRQ = 1 /\ RTC_IRQ = 8 /\ Irqs = {0, 1, 8} /\ PIC_IRQ_NUM = 8
  /\ ICW3_SLAVE = 2 /\ Lines = 0 .. 7 /\ RTC_IRQ - PIC_IRQ_NUM = 0 /\ Booted = 5
  /\ MasterLine(PIT_IRQ) = 0 /\ MasterLine(KB_IRQ) = 1 /\ MasterLine(RTC_IRQ) = 2
  /\ ~ OnSlave(PIT_IRQ) /\ ~ OnSlave(KB_IRQ) /\ OnSlave(RTC_IRQ)
BY DEF PIT_IRQ, KB_IRQ, RTC_IRQ, Irqs, PIC_IRQ_NUM, ICW3_SLAVE, Lines, Booted, MasterLine, OnSlave

\* What is in service, of each device.
LEMMA InServiceIs ==
  /\ InService(PIT_IRQ) <=> 0 \in in_service.master
  /\ InService(KB_IRQ) <=> 1 \in in_service.master
  /\ InService(RTC_IRQ) <=> 0 \in in_service.slave
BY LineNumbers DEF InService

Controllers == [master : SUBSET Lines, slave : SUBSET Lines]

\* send_eoi, by controller.
LEMMA EoiIs ==
  ASSUME in_service \in Controllers, NEW irq \in Irqs
  PROVE  /\ send_eoi(irq) \in Controllers
         /\ send_eoi(irq).master = in_service.master \ {MasterLine(irq)}
         /\ send_eoi(irq).slave = IF irq = RTC_IRQ THEN in_service.slave \ {0}
                                                   ELSE in_service.slave
<1>1. irq \in {PIT_IRQ, KB_IRQ, RTC_IRQ}
  BY DEF Irqs
<1> QED  BY <1>1, LineNumbers DEF Controllers, send_eoi, MasterLine

\* The acknowledgement of a request, by controller.
LEMMA AcknowledgeIs ==
  ASSUME in_service \in Controllers, NEW irq \in Irqs
  PROVE  /\ Acknowledge(irq) \in Controllers
         /\ Acknowledge(irq).master = in_service.master \cup {MasterLine(irq)}
         /\ Acknowledge(irq).slave = IF irq = RTC_IRQ THEN in_service.slave \cup {0}
                                                      ELSE in_service.slave
<1>1. irq \in {PIT_IRQ, KB_IRQ, RTC_IRQ}
  BY DEF Irqs
<1> QED  BY <1>1, LineNumbers DEF Controllers, Acknowledge, MasterLine

\* enable_irq gives masks.
LEMMA EnableType ==
  ASSUME NEW m \in Controllers, NEW irq
  PROVE  enable_irq(m, irq) \in Controllers
BY DEF Controllers, enable_irq

\* The stacks after the running handler moved on.
LEMMA GotoIs ==
  ASSUME StacksType, flow \in Terms, NEW irq \in Irqs, NEW p \in Points, NEW q \in Points,
         At(irq, p), Goto(irq, q)
  PROVE  /\ frames' \in [Terms -> Seq(Frames)]
         /\ 1 \in Slots(flow)
         /\ frames[flow][1].irq = irq /\ frames[flow][1].at = p
         /\ frames'[flow][1].irq = irq /\ frames'[flow][1].at = q
         /\ \A t \in Terms : Len(frames'[t]) = Len(frames[t])
         /\ \A t \in Terms : \A k \in 1 .. Len(frames[t]) :
              ~ (t = flow /\ k = 1) => frames'[t][k] = frames[t][k]
<1> DEFINE f == [irq |-> irq, at |-> q]
           s == frames[flow]
<1>1. f \in Frames /\ s \in Seq(Frames) /\ s # << >> /\ Head(s) = [irq |-> irq, at |-> p]
  BY DEF Frames, StacksType, At
<1>2. Len(s) \in Nat \ {0} /\ Head(s) = s[1]
  BY <1>1, PopIs
<1>3. frames' = [frames EXCEPT ![flow] = <<f>> \o Tail(s)]
  BY DEF Goto
<1>4. /\ <<f>> \o Tail(s) \in Seq(Frames) /\ Len(<<f>> \o Tail(s)) = Len(s)
      /\ (<<f>> \o Tail(s))[1] = f /\ \A k \in 2 .. Len(s) : (<<f>> \o Tail(s))[k] = s[k]
  BY <1>1, TopIs
<1>5. frames' \in [Terms -> Seq(Frames)]
  BY <1>3, <1>4 DEF StacksType
<1>6. /\ frames'[flow] = <<f>> \o Tail(s)
      /\ \A t \in Terms : t # flow => frames'[t] = frames[t]
  BY <1>3 DEF StacksType
<1>7. \A t \in Terms : Len(frames'[t]) = Len(frames[t])
  BY <1>4, <1>6
<1>8. ASSUME NEW t \in Terms, NEW k \in 1 .. Len(frames[t]), ~ (t = flow /\ k = 1)
      PROVE  frames'[t][k] = frames[t][k]
  <2>1. CASE t # flow
    BY <1>6, <2>1
  <2>2. CASE t = flow
    <3>1. k \in 2 .. Len(s)
      BY <1>2, <1>8, <2>2
    <3> QED  BY <1>4, <1>6, <2>2, <3>1
  <2> QED  BY <2>1, <2>2
<1> QED  BY <1>1, <1>2, <1>4, <1>5, <1>6, <1>7, <1>8 DEF Slots

\* What that means for the handlers the invariant speaks of.
LEMMA GotoViews ==
  ASSUME StacksType, flow \in Terms, NEW irq \in Irqs, NEW p \in Points, NEW q \in Points,
         At(irq, p), Goto(irq, q)
  PROVE  /\ \A t \in Terms : Slots(t)' = Slots(t)
         /\ \A t \in Terms : \A k : ~ (t = flow /\ k = 1) =>
              /\ Serving(t, k)' <=> Serving(t, k)
              /\ RtcAt(t, k)' <=> RtcAt(t, k)
              /\ PitAt(t, k)' <=> PitAt(t, k)
         /\ Serving(flow, 1) <=> p \in {"entry", "body", "switched"}
         /\ \A t \in Terms : t = flow =>
              /\ Serving(t, 1)' <=> q \in {"entry", "body", "switched"}
              /\ RtcAt(t, 1)' <=> irq = RTC_IRQ /\ q \in {"entry", "body", "switched"}
              /\ PitAt(t, 1)' <=> irq = PIT_IRQ /\ q # "out"
         /\ RtcAt(flow, 1) <=> irq = RTC_IRQ /\ p \in {"entry", "body", "switched"}
         /\ PitAt(flow, 1) <=> irq = PIT_IRQ /\ p # "out"
BY GotoIs DEF Slots, Serving, RtcAt, PitAt, Unserved

\* Which handlers have yet to acknowledge, when the running one moves on.
LEMMA GotoHandlers ==
  ASSUME StacksType, flow \in Terms, NEW irq \in Irqs, NEW p \in Points, NEW q \in Points,
         At(irq, p), Goto(irq, q)
  PROVE  /\ \A other \in Irqs : other # irq => (HandlerOf(other)' <=> HandlerOf(other))
         /\ p \in {"entry", "body", "switched"} => HandlerOf(irq)
         /\ q \in {"entry", "body", "switched"} => HandlerOf(irq)'
<1>1. /\ \A other : HandlerOf(other) <=> \E t \in Terms : \E k \in Slots(t) :
                                         Serving(t, k) /\ frames[t][k].irq = other
      /\ \A other : HandlerOf(other)' <=> \E t \in Terms : \E k \in Slots(t)' :
                                         Serving(t, k)' /\ frames'[t][k].irq = other
  BY DEF HandlerOf, Slots, Serving
<1>2. \A other \in Irqs : other # irq => (HandlerOf(other)' <=> HandlerOf(other))
  BY <1>1, GotoIs, GotoViews DEF Slots
<1>3. /\ p \in {"entry", "body", "switched"} => HandlerOf(irq)
      /\ q \in {"entry", "body", "switched"} => HandlerOf(irq)'
  BY <1>1, GotoIs, GotoViews
<1> QED  BY <1>2, <1>3

\* The type invariant of the stacks from theirs.
LEMMA StacksAre ==
  ASSUME StacksType
  PROVE  /\ DOMAIN frames = Terms
         /\ \A t \in Terms : \A k \in 1 .. Len(frames[t]) : frames[t][k] \in Frames
BY ElementOfSeq DEF StacksType

-----------------------------------------------------------------------------
(* The steps. *)

\* A handler goes on before it acknowledges its interrupt.
LEMMA UnservedStep ==
  ASSUME InterruptsStrong, NEW irq \in Irqs,
         NEW p \in {"entry", "body", "switched"}, NEW q \in {"body", "switched"},
         At(irq, p), Goto(irq, q), enabled' \in BOOLEAN,
         irq = PIT_IRQ /\ terminal_init > NUM_TERMS => ~ enabled',
         UNCHANGED <<boot, masks, in_service, raised, flow, terminal_init, rtc_armed, burst>>
  PROVE  InterruptsStrong'
<1>0. StacksType /\ IntTypeOK /\ flow \in Terms /\ p \in Points /\ q \in Points
  BY DEF InterruptsStrong, IntTypeOK, Points
<1>1. StacksType' /\ IntTypeOK'
  <2>1. StacksType'
    BY <1>0, GotoIs DEF StacksType, Terms
  <2>2. /\ DOMAIN frames' = Terms
        /\ \A t \in Terms : \A k \in 1 .. Len(frames'[t]) : frames'[t][k] \in Frames
    BY <1>0, GotoIs, ElementOfSeq
  <2> QED  BY <1>0, <2>1, <2>2 DEF IntTypeOK
<1>2. Acknowledged' /\ SlaveLine'
  <2>1. \A other \in Irqs : HandlerOf(other)' <=> HandlerOf(other)
    BY <1>0, GotoHandlers
  <2>2. \A other : InService(other)' <=> InService(other)
    BY DEF InService
  <2>3. Acknowledged'
    BY <2>1, <2>2 DEF InterruptsStrong, Acknowledged, Irqs
  <2> QED  BY <2>3 DEF InterruptsStrong, SlaveLine
<1>3. \A t \in Terms : \A k : /\ RtcAt(t, k)' <=> RtcAt(t, k)
                              /\ PitAt(t, k)' <=> PitAt(t, k)
                              /\ Slots(t)' = Slots(t)
  BY <1>0, GotoViews
<1>4. OneRtc'
  BY <1>3 DEF InterruptsStrong, OneRtc
<1>5. TickPending' /\ OneTick'
  BY <1>3 DEF InterruptsStrong, TickPending, OneTick
<1>6. TickOnTop'
  <2> SUFFICES ASSUME NEW t \in Terms, NEW k \in Slots(t), PitAt(t, k)'
               PROVE  /\ Unserved(frames'[t][k]) => k = 1
                      /\ terminal_init > NUM_TERMS =>
                           k = 1 /\ (frames'[t][k].at # "entry" => ~ enabled')
    BY <1>3 DEF TickOnTop, Unserved
  <2>1. PitAt(t, k) /\ t = flow
    BY <1>3 DEF InterruptsStrong, OneTick
  <2>2. /\ Unserved(frames[t][k]) => k = 1
        /\ terminal_init > NUM_TERMS => k = 1
    BY <2>1 DEF InterruptsStrong, TickOnTop
  <2>3. k # 1 => frames'[t][k] = frames[t][k]
    BY <1>0, GotoIs DEF Slots
  <2>4. k = 1 => irq = PIT_IRQ
    BY <1>0, <2>1, GotoViews
  <2> QED  BY <2>2, <2>3, <2>4
<1>7. LateIsKeyboard'
  BY <1>0, GotoIs DEF InterruptsStrong, LateIsKeyboard, Slots
<1> QED  BY <1>1, <1>2, <1>4, <1>5, <1>6, <1>7 DEF InterruptsStrong

\* The keyboard's handler acknowledges, once or twice.
LEMMA KeyboardStep ==
  ASSUME InterruptsStrong, NEW p \in {"body", "late"}, NEW q \in {"late", "out"},
         At(KB_IRQ, p), Goto(KB_IRQ, q), in_service' = send_eoi(KB_IRQ), enabled' = TRUE,
         UNCHANGED <<boot, masks, raised, flow, terminal_init, rtc_armed, burst>>
  PROVE  InterruptsStrong'
<1>0. /\ StacksType /\ IntTypeOK /\ flow \in Terms /\ p \in Points /\ q \in Points
      /\ KB_IRQ \in Irqs /\ in_service \in Controllers
  BY DEF InterruptsStrong, IntTypeOK, Points, Irqs, Controllers
<1>1. StacksType' /\ IntTypeOK'
  <2>1. StacksType'
    BY <1>0, GotoIs DEF StacksType, Terms
  <2>2. /\ DOMAIN frames' = Terms
        /\ \A t \in Terms : \A k \in 1 .. Len(frames'[t]) : frames'[t][k] \in Frames
    BY <1>0, GotoIs, ElementOfSeq
  <2>3. in_service' \in Controllers
    BY <1>0, EoiIs
  <2> QED  BY <1>0, <2>1, <2>2, <2>3 DEF IntTypeOK, Controllers
<1>2. /\ in_service'.master = in_service.master \ {1}
      /\ in_service'.slave = in_service.slave
  BY <1>0, EoiIs, LineNumbers
<1>3. Acknowledged' /\ SlaveLine'
  <2>1. \A other \in {PIT_IRQ, RTC_IRQ} : HandlerOf(other)' <=> HandlerOf(other)
    BY <1>0, GotoHandlers, LineNumbers
  <2>2. ~ InService(KB_IRQ)'
    BY <1>2, LineNumbers DEF InService
  <2>3. \A other \in {PIT_IRQ, RTC_IRQ} : InService(other)' <=> InService(other)
    BY <1>2, LineNumbers DEF InService
  <2>4. ICW3_SLAVE \in in_service'.master <=> ICW3_SLAVE \in in_service.master
    BY <1>2, LineNumbers
  <2>5. Acknowledged'
    BY <1>2, <2>1, <2>2, <2>3, <2>4 DEF InterruptsStrong, Acknowledged, Irqs
  <2> QED  BY <1>2, <2>5 DEF InterruptsStrong, SlaveLine
<1>4. \A t \in Terms : \A k : /\ RtcAt(t, k)' <=> RtcAt(t, k)
                              /\ PitAt(t, k)' <=> PitAt(t, k)
                              /\ Slots(t)' = Slots(t)
  BY <1>0, GotoViews, LineNumbers
<1>5. OneRtc'
  BY <1>4 DEF InterruptsStrong, OneRtc
<1>6. TickPending' /\ OneTick'
  BY <1>4 DEF InterruptsStrong, TickPending, OneTick
<1>7. TickOnTop'
  <2> SUFFICES ASSUME NEW t \in Terms, NEW k \in Slots(t), PitAt(t, k)'
               PROVE  ~ Unserved(frames'[t][k]) /\ ~ (terminal_init > NUM_TERMS)
    BY <1>4 DEF TickOnTop, Unserved
  <2>1. PitAt(t, k) /\ t = flow
    BY <1>4 DEF InterruptsStrong, OneTick
  <2>2. /\ Unserved(frames[t][k]) => k = 1
        /\ terminal_init > NUM_TERMS => k = 1
    BY <2>1 DEF InterruptsStrong, TickOnTop
  <2>3. k # 1
    BY <1>0, <2>1, GotoViews, LineNumbers
  <2>4. frames'[t][k] = frames[t][k]
    BY <1>0, <2>3, GotoIs DEF Slots
  <2> QED  BY <2>2, <2>3, <2>4
<1>8. LateIsKeyboard'
  BY <1>0, GotoIs DEF InterruptsStrong, LateIsKeyboard, Slots
<1> QED  BY <1>1, <1>3, <1>5, <1>6, <1>7, <1>8 DEF InterruptsStrong

\* The RTC's handler acknowledges at both controllers.
LEMMA RtcHandlerStep ==
  ASSUME InterruptsStrong, rtc_handler
  PROVE  InterruptsStrong'
<1>0. /\ StacksType /\ IntTypeOK /\ flow \in Terms /\ "body" \in Points /\ "out" \in Points
      /\ RTC_IRQ \in Irqs /\ in_service \in Controllers
      /\ At(RTC_IRQ, "body") /\ Goto(RTC_IRQ, "out")
      /\ in_service' = send_eoi(RTC_IRQ) /\ enabled' = TRUE /\ rtc_armed' = TRUE
      /\ UNCHANGED <<boot, masks, raised, flow, terminal_init, burst>>
  BY DEF InterruptsStrong, IntTypeOK, Points, Irqs, Controllers, rtc_handler
<1>1. StacksType' /\ IntTypeOK'
  <2>1. StacksType'
    BY <1>0, GotoIs DEF StacksType, Terms
  <2>2. /\ DOMAIN frames' = Terms
        /\ \A t \in Terms : \A k \in 1 .. Len(frames'[t]) : frames'[t][k] \in Frames
    BY <1>0, GotoIs, ElementOfSeq
  <2>3. in_service' \in Controllers
    BY <1>0, EoiIs
  <2> QED  BY <1>0, <2>1, <2>2, <2>3 DEF IntTypeOK, Controllers
<1>2. /\ in_service'.master = in_service.master \ {2}
      /\ in_service'.slave = in_service.slave \ {0}
      /\ in_service.slave \subseteq {0}
  BY <1>0, EoiIs, LineNumbers DEF InterruptsStrong, SlaveLine
<1>3. /\ \A t \in Terms : \A k : ~ (t = flow /\ k = 1) => /\ RtcAt(t, k)' <=> RtcAt(t, k)
                                                          /\ PitAt(t, k)' <=> PitAt(t, k)
      /\ \A t \in Terms : Slots(t)' = Slots(t)
      /\ RtcAt(flow, 1) /\ ~ PitAt(flow, 1) /\ 1 \in Slots(flow)
      /\ \A t \in Terms : t = flow => ~ RtcAt(t, 1)' /\ ~ PitAt(t, 1)'
  BY <1>0, GotoViews, GotoIs, LineNumbers
<1>4. \A t \in Terms : \A k : ~ RtcAt(t, k)'
  BY <1>0, <1>3 DEF InterruptsStrong, OneRtc, RtcAt, Serving
<1>5. Acknowledged' /\ SlaveLine'
  <2>1. \A other \in {PIT_IRQ, KB_IRQ} : HandlerOf(other)' <=> HandlerOf(other)
    BY <1>0, GotoHandlers, LineNumbers
  <2>2. ~ InService(RTC_IRQ)' /\ ~ HandlerOf(RTC_IRQ)'
    BY <1>2, <1>4, LineNumbers DEF InService, HandlerOf, RtcAt, Serving, Slots
  <2>3. \A other \in {PIT_IRQ, KB_IRQ} : InService(other)' <=> InService(other)
    BY <1>2, LineNumbers DEF InService
  <2>4. ICW3_SLAVE \notin in_service'.master /\ in_service'.slave = {}
    BY <1>2, LineNumbers
  <2>5. Acknowledged'
    BY <2>1, <2>2, <2>3, <2>4, LineNumbers DEF InterruptsStrong, Acknowledged, Irqs
  <2> QED  BY <2>4, <2>5 DEF SlaveLine
<1>6. OneRtc'
  BY <1>4 DEF OneRtc
<1>7. \A t \in Terms : \A k : PitAt(t, k)' <=> PitAt(t, k)
  BY <1>3
<1>8. TickPending' /\ OneTick'
  BY <1>0, <1>3, <1>7 DEF InterruptsStrong, TickPending, OneTick
<1>9. TickOnTop'
  <2> SUFFICES ASSUME NEW t \in Terms, NEW k \in Slots(t), PitAt(t, k)'
               PROVE  ~ Unserved(frames'[t][k]) /\ ~ (terminal_init > NUM_TERMS)
    BY <1>0, <1>3 DEF TickOnTop, Unserved
  <2>1. PitAt(t, k) /\ t = flow
    BY <1>7 DEF InterruptsStrong, OneTick
  <2>2. /\ Unserved(frames[t][k]) => k = 1
        /\ terminal_init > NUM_TERMS => k = 1
    BY <2>1 DEF InterruptsStrong, TickOnTop
  <2>3. k # 1
    BY <1>3, <2>1
  <2>4. frames'[t][k] = frames[t][k]
    BY <1>0, <2>3, GotoIs DEF Slots
  <2> QED  BY <2>2, <2>3, <2>4
<1>10. LateIsKeyboard'
  BY <1>0, GotoIs DEF InterruptsStrong, LateIsKeyboard, Slots
<1> QED  BY <1>1, <1>5, <1>6, <1>8, <1>9, <1>10 DEF InterruptsStrong

\* The timer's handler acknowledges; from here on others may nest.
LEMMA PitEoiStep ==
  ASSUME InterruptsStrong, pit_eoi
  PROVE  InterruptsStrong'
<1>0. /\ StacksType /\ IntTypeOK /\ flow \in Terms /\ "switched" \in Points /\ "acked" \in Points
      /\ PIT_IRQ \in Irqs /\ in_service \in Controllers
      /\ At(PIT_IRQ, "switched") /\ Goto(PIT_IRQ, "acked")
      /\ in_service' = send_eoi(PIT_IRQ)
      /\ UNCHANGED <<boot, masks, raised, enabled, flow, terminal_init, rtc_armed, burst>>
  BY DEF InterruptsStrong, IntTypeOK, Points, Irqs, Controllers, pit_eoi
<1>1. StacksType' /\ IntTypeOK'
  <2>1. StacksType'
    BY <1>0, GotoIs DEF StacksType, Terms
  <2>2. /\ DOMAIN frames' = Terms
        /\ \A t \in Terms : \A k \in 1 .. Len(frames'[t]) : frames'[t][k] \in Frames
    BY <1>0, GotoIs, ElementOfSeq
  <2>3. in_service' \in Controllers
    BY <1>0, EoiIs
  <2> QED  BY <1>0, <2>1, <2>2, <2>3 DEF IntTypeOK, Controllers
<1>2. /\ in_service'.master = in_service.master \ {0}
      /\ in_service'.slave = in_service.slave
  BY <1>0, EoiIs, LineNumbers
<1>3. \A t \in Terms : \A k : /\ RtcAt(t, k)' <=> RtcAt(t, k)
                              /\ PitAt(t, k)' <=> PitAt(t, k)
                              /\ Slots(t)' = Slots(t)
  BY <1>0, GotoViews, LineNumbers
<1>4. PitAt(flow, 1) /\ 1 \in Slots(flow) /\ \A t \in Terms : t = flow => ~ Serving(t, 1)'
  BY <1>0, GotoViews, GotoIs, LineNumbers
<1>5. ~ HandlerOf(PIT_IRQ)'
  <2> SUFFICES ASSUME NEW t \in Terms, NEW k \in Slots(t), Serving(t, k)',
                      frames'[t][k].irq = PIT_IRQ
               PROVE  FALSE
    BY <1>3 DEF HandlerOf, Serving, Slots
  <2>1. PitAt(t, k)
    BY <1>3 DEF PitAt, Serving, Unserved
  <2>2. t = flow /\ k = 1
    BY <1>0, <1>4, <2>1 DEF InterruptsStrong, OneTick
  <2> QED  BY <1>4, <2>2
<1>6. Acknowledged' /\ SlaveLine'
  <2>1. \A other \in {RTC_IRQ, KB_IRQ} : HandlerOf(other)' <=> HandlerOf(other)
    BY <1>0, GotoHandlers, LineNumbers
  <2>2. ~ InService(PIT_IRQ)'
    BY <1>2, LineNumbers DEF InService
  <2>3. \A other \in {RTC_IRQ, KB_IRQ} : InService(other)' <=> InService(other)
    BY <1>2, LineNumbers DEF InService
  <2>4. ICW3_SLAVE \in in_service'.master <=> ICW3_SLAVE \in in_service.master
    BY <1>2, LineNumbers
  <2>5. Acknowledged'
    BY <1>2, <1>5, <2>1, <2>2, <2>3, <2>4 DEF InterruptsStrong, Acknowledged, Irqs
  <2> QED  BY <1>2, <2>5 DEF InterruptsStrong, SlaveLine
<1>7. OneRtc'
  BY <1>3 DEF InterruptsStrong, OneRtc
<1>8. TickPending' /\ OneTick'
  BY <1>0, <1>3 DEF InterruptsStrong, TickPending, OneTick
<1>9. TickOnTop'
  <2> SUFFICES ASSUME NEW t \in Terms, NEW k \in Slots(t), PitAt(t, k)'
               PROVE  k = 1 /\ (terminal_init > NUM_TERMS => ~ enabled)
    BY <1>0, <1>3 DEF TickOnTop, Unserved
  <2>1. t = flow /\ k = 1
    BY <1>0, <1>3, <1>4 DEF InterruptsStrong, OneTick
  <2>2. frames[flow][1].at = "switched"
    BY <1>0, GotoIs
  <2> QED  BY <1>0, <1>4, <2>1, <2>2 DEF InterruptsStrong, TickOnTop
<1>10. LateIsKeyboard'
  BY <1>0, GotoIs DEF InterruptsStrong, LateIsKeyboard, Slots
<1> QED  BY <1>1, <1>6, <1>7, <1>8, <1>9, <1>10 DEF InterruptsStrong

\* The timer's handler leaves for another stack: no tick is under way any more.
LEMMA PitLeaveStep ==
  ASSUME InterruptsStrong, pit_leave
  PROVE  InterruptsStrong'
<1>0. /\ StacksType /\ IntTypeOK /\ flow \in Terms /\ "acked" \in Points /\ "out" \in Points
      /\ PIT_IRQ \in Irqs /\ terminal_init \in 1 .. NUM_TERMS + 1
      /\ At(PIT_IRQ, "acked") /\ Goto(PIT_IRQ, "out")
      /\ flow' = NextFlow /\ terminal_init' = started /\ enabled' = TRUE
      /\ burst' = [irq \in Irqs |-> IF irq = PIT_IRQ /\ frames'[flow'] # << >> THEN 1 ELSE 0]
      /\ UNCHANGED <<boot, masks, in_service, raised, rtc_armed>>
  BY DEF InterruptsStrong, IntTypeOK, Points, Irqs, pit_leave
<1>1. StacksType' /\ IntTypeOK'
  <2>1. StacksType'
    BY <1>0, GotoIs DEF StacksType, Terms
  <2>2. /\ DOMAIN frames' = Terms
        /\ \A t \in Terms : \A k \in 1 .. Len(frames'[t]) : frames'[t][k] \in Frames
    BY <1>0, GotoIs, ElementOfSeq
  <2>3. flow' \in Terms /\ terminal_init' \in 1 .. NUM_TERMS + 1
    BY <1>0, InterruptsAssumption DEF NextFlow, started, Terms
  <2>4. burst' \in [Irqs -> 0 .. KeyBurst]
    BY <1>0, InterruptsAssumption
  <2> QED  BY <1>0, <2>1, <2>2, <2>3, <2>4 DEF IntTypeOK
<1>2. /\ \A t \in Terms : \A k : ~ (t = flow /\ k = 1) => (PitAt(t, k)' <=> PitAt(t, k))
      /\ \A t \in Terms : \A k : RtcAt(t, k)' <=> RtcAt(t, k)
      /\ \A t \in Terms : Slots(t)' = Slots(t)
      /\ PitAt(flow, 1) /\ 1 \in Slots(flow)
      /\ \A t \in Terms : t = flow => ~ PitAt(t, 1)'
  BY <1>0, GotoViews, GotoIs, LineNumbers
<1>3. PIT_IRQ \notin raised
  BY <1>0, <1>2 DEF InterruptsStrong, OneTick
<1>4. \A t \in Terms : \A k : ~ PitAt(t, k)'
  BY <1>0, <1>2 DEF InterruptsStrong, OneTick, PitAt
<1>5. \A other \in Irqs : HandlerOf(other)' <=> HandlerOf(other)
  <2>1. \A t \in Terms : \A k : Serving(t, k)' <=> Serving(t, k)
    BY <1>0, GotoViews
  <2>2. \A t \in Terms : \A k \in Slots(t) : frames'[t][k].irq = frames[t][k].irq
    BY <1>0, GotoIs DEF Slots
  <2> QED  BY <1>2, <2>1, <2>2 DEF HandlerOf, Serving, Slots
<1>6. Acknowledged' /\ SlaveLine'
  <2>1. \A other : InService(other)' <=> InService(other)
    BY <1>0 DEF InService
  <2>2. Acknowledged'
    BY <1>0, <1>5, <2>1 DEF InterruptsStrong, Acknowledged, Irqs
  <2> QED  BY <1>0, <2>2 DEF InterruptsStrong, SlaveLine
<1>7. OneRtc'
  BY <1>2 DEF InterruptsStrong, OneRtc
<1>8. TickPending' /\ OneTick' /\ TickOnTop'
  BY <1>0, <1>3, <1>4 DEF TickPending, OneTick, TickOnTop
<1>9. LateIsKeyboard'
  BY <1>0, GotoIs DEF InterruptsStrong, LateIsKeyboard, Slots
<1> QED  BY <1>1, <1>6, <1>7, <1>8, <1>9 DEF InterruptsStrong

(***************************************************************************)
(* A new handler on top of the current stack.  The timer's line in service *)
(* lets no interrupt through, and the RTC's none of the RTC.               *)
(***************************************************************************)
LEMMA DeliverStep ==
  ASSUME InterruptsStrong, NEW irq \in Irqs, deliver(irq)
  PROVE  InterruptsStrong'
<1> DEFINE new == [irq |-> irq, at |-> "entry"]
<1>0. /\ StacksType /\ IntTypeOK /\ flow \in Terms /\ in_service \in Controllers
      /\ enabled /\ PassedOn(irq) /\ irq \in raised
      /\ raised' = raised \ {irq} /\ in_service' = Acknowledge(irq)
      /\ frames' = [frames EXCEPT ![flow] = <<new>> \o frames[flow]]
      /\ UNCHANGED <<boot, masks, enabled, flow, terminal_init, rtc_armed, burst>>
  BY DEF InterruptsStrong, IntTypeOK, Controllers, deliver, PassedOn
<1>1. /\ new \in Frames /\ frames[flow] \in Seq(Frames) /\ Len(frames[flow]) \in Nat
      /\ new.irq = irq /\ new.at = "entry" /\ Unserved(new)
  <2>1. new \in Frames
    BY DEF Frames, Points
  <2>2. frames[flow] \in Seq(Frames) /\ Len(frames[flow]) \in Nat
    BY <1>0 DEF StacksType
  <2> QED  BY <2>1, <2>2 DEF Unserved
<1>2. /\ frames'[flow] = <<new>> \o frames[flow]
      /\ \A t \in Terms : t # flow => frames'[t] = frames[t]
  BY <1>0 DEF StacksType
<1> HIDE DEF new
<1>3. /\ frames'[flow] \in Seq(Frames) /\ Len(frames'[flow]) = Len(frames[flow]) + 1
      /\ frames'[flow][1] = new
      /\ \A k \in 2 .. Len(frames[flow]) + 1 : frames'[flow][k] = frames[flow][k - 1]
  BY <1>1, <1>2, PushIs
<1>4. StacksType'
  BY <1>0, <1>1, <1>2, <1>3 DEF StacksType, Terms
<1>5. IntTypeOK'
  <2>1. /\ DOMAIN frames' = Terms
        /\ \A t \in Terms : \A k \in 1 .. Len(frames'[t]) : frames'[t][k] \in Frames
    BY <1>4, ElementOfSeq DEF StacksType, Terms
  <2>2. in_service' \in Controllers /\ raised' \subseteq Irqs
    BY <1>0, AcknowledgeIs DEF IntTypeOK
  <2> QED  BY <1>0, <2>1, <2>2 DEF IntTypeOK, Controllers
<1>6. \A k \in 1 .. Len(frames'[flow]) :
        k = 1 \/ (k - 1 \in 1 .. Len(frames[flow]) /\ frames'[flow][k] = frames[flow][k - 1])
  BY <1>1, <1>3
<1>7. \A k \in 1 .. Len(frames[flow]) :
        k + 1 \in 1 .. Len(frames'[flow]) /\ frames'[flow][k + 1] = frames[flow][k]
  <2> TAKE k \in 1 .. Len(frames[flow])
  <2>1. k + 1 \in 2 .. Len(frames[flow]) + 1 /\ (k + 1) - 1 = k
    BY <1>1
  <2> QED  BY <1>1, <1>3, <2>1
<1>8. \A other \in Irqs : HandlerOf(other)' <=> other = irq \/ HandlerOf(other)
  <2> TAKE other \in Irqs
  <2>1. ASSUME HandlerOf(other)' PROVE other = irq \/ HandlerOf(other)
    <3>1. PICK t \in Terms : \E k \in 1 .. Len(frames'[t]) :
                               frames'[t][k].irq = other /\ Unserved(frames'[t][k])
      BY <2>1 DEF HandlerOf, Unserved, Terms
    <3>2. PICK k \in 1 .. Len(frames'[t]) :
                 frames'[t][k].irq = other /\ Unserved(frames'[t][k])
      BY <3>1
    <3>3. CASE t # flow
      BY <1>2, <3>2, <3>3 DEF HandlerOf
    <3>4. CASE t = flow
      BY <1>0, <1>1, <1>3, <1>6, <3>2, <3>4 DEF HandlerOf
    <3> QED  BY <3>3, <3>4
  <2>2. HandlerOf(irq)'
    <3>1. 1 \in 1 .. Len(frames'[flow]) /\ frames'[flow][1].irq = irq /\ Unserved(frames'[flow][1])
      BY <1>1, <1>3
    <3> QED  BY <1>0, <3>1 DEF HandlerOf, Unserved, Terms
  <2>3. ASSUME HandlerOf(other) PROVE HandlerOf(other)'
    <3>1. PICK t \in Terms : \E k \in 1 .. Len(frames[t]) :
                               frames[t][k].irq = other /\ Unserved(frames[t][k])
      BY <2>3 DEF HandlerOf
    <3>2. PICK k \in 1 .. Len(frames[t]) : frames[t][k].irq = other /\ Unserved(frames[t][k])
      BY <3>1
    <3>3. \E l \in 1 .. Len(frames'[t]) : frames'[t][l].irq = other /\ Unserved(frames'[t][l])
      BY <1>2, <1>7, <3>2
    <3> QED  BY <3>3 DEF HandlerOf, Unserved, Terms
  <2> QED  BY <2>1, <2>2, <2>3
<1>9. /\ 0 \notin in_service.master /\ (irq = RTC_IRQ => 0 \notin in_service.slave)
      /\ ~ HandlerOf(PIT_IRQ) /\ (irq = RTC_IRQ => ~ HandlerOf(RTC_IRQ))
  <2>1. MasterLine(irq) \in {0, 1, 2}
    BY LineNumbers DEF Irqs
  <2>2. 0 \notin in_service.master
    BY <1>0, <2>1 DEF PassedOn
  <2>3. irq = RTC_IRQ => 0 \notin in_service.slave
    BY <1>0, LineNumbers DEF PassedOn
  <2> QED  BY <2>2, <2>3, InServiceIs DEF InterruptsStrong, Acknowledged
<1>10. /\ in_service'.master = in_service.master \cup {MasterLine(irq)}
       /\ in_service'.slave = IF irq = RTC_IRQ THEN in_service.slave \cup {0}
                                               ELSE in_service.slave
  BY <1>0, AcknowledgeIs
<1>11. Acknowledged' /\ SlaveLine'
  <2>1. irq \in {PIT_IRQ, KB_IRQ, RTC_IRQ}
    BY DEF Irqs
  <2>2. \A other \in Irqs : other # irq => (InService(other)' <=> InService(other))
    BY <1>10, <2>1, LineNumbers DEF InService
  <2>3. InService(irq)'
    BY <1>10, <2>1, LineNumbers DEF InService
  <2>4. ICW3_SLAVE \in in_service'.master <=> in_service'.slave # {}
    BY <1>10, <2>1, LineNumbers DEF InterruptsStrong, Acknowledged
  <2>5. Acknowledged'
    BY <1>8, <2>2, <2>3, <2>4 DEF InterruptsStrong, Acknowledged, Irqs
  <2> QED  BY <1>10, <2>5, LineNumbers DEF InterruptsStrong, SlaveLine
<1>12. \A t \in Terms : \A k : RtcAt(t, k)' =>
         \/ t = flow /\ k = 1 /\ irq = RTC_IRQ
         \/ t # flow /\ RtcAt(t, k)
         \/ t = flow /\ RtcAt(t, k - 1) /\ k \in Int
  BY <1>1, <1>2, <1>3, <1>6 DEF RtcAt, Serving, Slots, Unserved
<1>13. OneRtc'
  <2>1. irq = RTC_IRQ => \A t \in Terms : \A k : ~ RtcAt(t, k)
    BY <1>9 DEF RtcAt, Serving, Slots, HandlerOf
  <2> SUFFICES ASSUME NEW t \in Terms, NEW u \in Terms, NEW k \in Slots(t)', NEW l \in Slots(u)',
                      RtcAt(t, k)', RtcAt(u, l)'
               PROVE  t = u /\ k = l
    BY DEF OneRtc, Terms
  <2>2. CASE irq = RTC_IRQ
    BY <1>12, <2>1, <2>2
  <2>3. CASE irq # RTC_IRQ
    <3> DEFINE old(v, n) == IF v = flow THEN n - 1 ELSE n
    <3>1. RtcAt(t, old(t, k)) /\ RtcAt(u, old(u, l)) /\ k \in Int /\ l \in Int
      <4>1. RtcAt(t, old(t, k)) /\ RtcAt(u, old(u, l))
        BY <1>12, <2>3
      <4> QED  BY <4>1 DEF Slots
    <3>2. t = u /\ old(t, k) = old(u, l)
      BY <3>1 DEF InterruptsStrong, OneRtc, RtcAt, Serving
    <3> QED  BY <3>1, <3>2
  <2> QED  BY <2>2, <2>3
<1>14. \A t \in Terms : \A k : PitAt(t, k)' =>
         \/ t = flow /\ k = 1 /\ irq = PIT_IRQ
         \/ t # flow /\ PitAt(t, k)
         \/ t = flow /\ PitAt(t, k - 1) /\ k \in Int /\ frames'[t][k] = frames[t][k - 1]
  <2> SUFFICES ASSUME NEW t \in Terms, NEW k, PitAt(t, k)'
               PROVE  \/ t = flow /\ k = 1 /\ irq = PIT_IRQ
                      \/ t # flow /\ PitAt(t, k)
                      \/ t = flow /\ PitAt(t, k - 1) /\ k \in Int
                         /\ frames'[t][k] = frames[t][k - 1]
    OBVIOUS
  <2>1. k \in 1 .. Len(frames'[t]) /\ frames'[t][k].irq = PIT_IRQ /\ frames'[t][k].at # "out"
    BY DEF PitAt, Slots
  <2>2. CASE t # flow
    BY <1>2, <2>1, <2>2 DEF PitAt, Slots
  <2>3. CASE t = flow /\ k = 1
    BY <1>1, <1>3, <2>1, <2>3
  <2>4. CASE t = flow /\ k # 1
    <3>1. k - 1 \in 1 .. Len(frames[t]) /\ frames'[t][k] = frames[t][k - 1]
      BY <1>6, <2>1, <2>4
    <3>2. PitAt(t, k - 1)
      BY <2>1, <3>1 DEF PitAt, Slots
    <3> QED  BY <2>1, <2>4, <3>1, <3>2
  <2> QED  BY <2>2, <2>3, <2>4
<1>15. irq = PIT_IRQ => \A t \in Terms : \A k : ~ PitAt(t, k)
  BY <1>0 DEF InterruptsStrong, OneTick, PitAt
<1>16. \A t \in Terms : \A k : PitAt(t, k) => t = flow
  BY DEF InterruptsStrong, OneTick, PitAt
<1>17. TickPending'
  BY <1>0 DEF InterruptsStrong, TickPending
<1>18. OneTick'
  <2> SUFFICES ASSUME NEW t \in Terms, NEW k \in Slots(t)', PitAt(t, k)'
               PROVE  /\ t = flow /\ PIT_IRQ \notin raised' /\ burst[PIT_IRQ] = 1
                      /\ \A l \in Slots(t)' : PitAt(t, l)' => k = l
    BY <1>0 DEF OneTick, Terms
  <2>1. CASE irq = PIT_IRQ
    <3>1. t = flow /\ k = 1 /\ \A l \in Slots(t)' : PitAt(t, l)' => l = 1
      BY <1>14, <1>15, <2>1
    <3> QED  BY <1>0, <2>1, <3>1 DEF InterruptsStrong, TickPending
  <2>2. CASE irq # PIT_IRQ
    <3>1. t = flow /\ PitAt(t, k - 1) /\ k \in Int
      BY <1>14, <1>16, <2>2
    <3>2. ASSUME NEW l \in Slots(t)', PitAt(t, l)' PROVE k = l
      <4>1. PitAt(t, l - 1) /\ l \in Int
        BY <1>14, <1>16, <2>2, <3>1, <3>2
      <4>2. k - 1 = l - 1
        BY <3>1, <4>1 DEF InterruptsStrong, OneTick, PitAt
      <4> QED  BY <3>1, <4>1, <4>2
    <3>3. PIT_IRQ \notin raised /\ burst[PIT_IRQ] = 1
      BY <3>1 DEF InterruptsStrong, OneTick, PitAt
    <3> QED  BY <1>0, <3>1, <3>2, <3>3
  <2> QED  BY <2>1, <2>2
<1>19. TickOnTop'
  <2> SUFFICES ASSUME NEW t \in Terms, NEW k \in Slots(t)', PitAt(t, k)'
               PROVE  /\ Unserved(frames'[t][k]) => k = 1
                      /\ terminal_init > NUM_TERMS =>
                           k = 1 /\ (frames'[t][k].at # "entry" => ~ enabled)
    BY <1>0 DEF TickOnTop, Terms, Unserved
  <2>1. CASE k = 1 /\ t = flow /\ irq = PIT_IRQ
    BY <1>1, <1>3, <2>1
  <2>2. CASE ~ (k = 1 /\ t = flow /\ irq = PIT_IRQ)
    <3>1. t = flow /\ PitAt(t, k - 1) /\ frames'[t][k] = frames[t][k - 1]
      BY <1>14, <1>16, <2>2
    <3>2. ~ Unserved(frames[t][k - 1])
      BY <1>9, <3>1 DEF HandlerOf, PitAt, Slots
    <3>3. frames[t][k - 1].at # "entry"
      BY <3>2 DEF Unserved
    <3>4. ~ (terminal_init > NUM_TERMS)
      BY <1>0, <3>1, <3>3 DEF InterruptsStrong, TickOnTop, PitAt
    <3> QED  BY <3>1, <3>2, <3>4
  <2> QED  BY <2>1, <2>2
<1>20. LateIsKeyboard'
  <2> SUFFICES ASSUME NEW t \in Terms, NEW k \in 1 .. Len(frames'[t]), frames'[t][k].at = "late"
               PROVE  frames'[t][k].irq = KB_IRQ
    BY DEF LateIsKeyboard, Slots, Terms
  <2>1. CASE t # flow
    BY <1>2, <2>1 DEF InterruptsStrong, LateIsKeyboard, Slots
  <2>2. CASE t = flow
    <3>1. CASE k = 1
      BY <1>1, <1>3, <2>2, <3>1
    <3>2. CASE k # 1
      <4>1. k - 1 \in Slots(flow) /\ frames'[t][k] = frames[flow][k - 1]
        BY <1>6, <2>2, <3>2 DEF Slots
      <4> QED  BY <1>0, <4>1 DEF InterruptsStrong, LateIsKeyboard
    <3> QED  BY <3>1, <3>2
  <2> QED  BY <2>1, <2>2
<1> QED  BY <1>4, <1>5, <1>11, <1>13, <1>17, <1>18, <1>19, <1>20 DEF InterruptsStrong

\* A handler returns; its frame promises nothing any more.
LEMMA IretStep ==
  ASSUME InterruptsStrong, iret
  PROVE  InterruptsStrong'
<1>1. PICK irq \in Irqs : At(irq, "out")
  BY DEF iret
<1>0. /\ StacksType /\ IntTypeOK /\ flow \in Terms /\ frames[flow] # << >>
      /\ frames[flow] \in Seq(Frames) /\ Head(frames[flow]) = [irq |-> irq, at |-> "out"]
      /\ frames' = [frames EXCEPT ![flow] = Tail(frames[flow])]
      /\ burst' = [other \in Irqs |-> IF /\ Len(frames[flow]) = 1
                                         /\ other \notin raised \cup {KB_IRQ}
                                        THEN 0 ELSE burst[other]]
      /\ UNCHANGED <<boot, masks, in_service, raised, enabled, flow, terminal_init, rtc_armed>>
  BY <1>1 DEF InterruptsStrong, IntTypeOK, StacksType, iret, At
<1>2. /\ Len(frames[flow]) \in Nat \ {0} /\ frames[flow][1].at = "out"
      /\ Tail(frames[flow]) \in Seq(Frames) /\ Len(Tail(frames[flow])) = Len(frames[flow]) - 1
      /\ \A k \in 1 .. Len(frames[flow]) - 1 : Tail(frames[flow])[k] = frames[flow][k + 1]
  BY <1>0, PopIs
<1>3. /\ frames'[flow] = Tail(frames[flow])
      /\ \A t \in Terms : t # flow => frames'[t] = frames[t]
  BY <1>0 DEF StacksType
<1>4. StacksType'
  BY <1>0, <1>2 DEF StacksType, Terms
<1>5. IntTypeOK'
  <2>1. /\ DOMAIN frames' = Terms
        /\ \A t \in Terms : \A k \in 1 .. Len(frames'[t]) : frames'[t][k] \in Frames
    BY <1>4, ElementOfSeq DEF StacksType, Terms
  <2>2. burst' \in [Irqs -> 0 .. KeyBurst]
    BY <1>0, InterruptsAssumption DEF IntTypeOK
  <2> QED  BY <1>0, <2>1, <2>2 DEF IntTypeOK
<1>6. \A k \in 1 .. Len(frames'[flow]) :
        /\ k + 1 \in 1 .. Len(frames[flow]) /\ k + 1 # 1 /\ Len(frames[flow]) # 1
        /\ frames'[flow][k] = frames[flow][k + 1]
  BY <1>2, <1>3
<1>7. \A k \in 1 .. Len(frames[flow]) : k # 1 =>
        k - 1 \in 1 .. Len(frames'[flow]) /\ frames'[flow][k - 1] = frames[flow][k]
  <2> SUFFICES ASSUME NEW k \in 1 .. Len(frames[flow]), k # 1
               PROVE  k - 1 \in 1 .. Len(frames'[flow]) /\ frames'[flow][k - 1] = frames[flow][k]
    OBVIOUS
  <2>1. k - 1 \in 1 .. Len(frames[flow]) - 1 /\ (k - 1) + 1 = k
    BY <1>2
  <2> QED  BY <1>2, <1>3, <2>1
<1>8. \A other \in Irqs : HandlerOf(other)' <=> HandlerOf(other)
  <2> TAKE other \in Irqs
  <2>1. ASSUME HandlerOf(other)' PROVE HandlerOf(other)
    <3>1. PICK t \in Terms : \E k \in 1 .. Len(frames'[t]) :
                               frames'[t][k].irq = other /\ Unserved(frames'[t][k])
      BY <2>1 DEF HandlerOf, Unserved, Terms
    <3>2. \E k \in 1 .. Len(frames[t]) : frames[t][k].irq = other /\ Unserved(frames[t][k])
      BY <1>3, <1>6, <3>1
    <3> QED  BY <3>2 DEF HandlerOf
  <2>2. ASSUME HandlerOf(other) PROVE HandlerOf(other)'
    <3>1. PICK t \in Terms : \E k \in 1 .. Len(frames[t]) :
                               frames[t][k].irq = other /\ Unserved(frames[t][k])
      BY <2>2 DEF HandlerOf
    <3>2. PICK k \in 1 .. Len(frames[t]) : frames[t][k].irq = other /\ Unserved(frames[t][k])
      BY <3>1
    <3>3. ~ (t = flow /\ k = 1)
      BY <1>2, <3>2 DEF Unserved
    <3>4. \E l \in 1 .. Len(frames'[t]) : frames'[t][l].irq = other /\ Unserved(frames'[t][l])
      BY <1>3, <1>7, <3>2, <3>3
    <3> QED  BY <3>4 DEF HandlerOf, Unserved, Terms
  <2> QED  BY <2>1, <2>2
<1>9. Acknowledged' /\ SlaveLine'
  <2>1. \A other : InService(other)' <=> InService(other)
    BY <1>0 DEF InService
  <2>2. Acknowledged'
    BY <1>0, <1>8, <2>1 DEF InterruptsStrong, Acknowledged, Irqs
  <2> QED  BY <1>0, <2>2 DEF InterruptsStrong, SlaveLine
<1>10. ASSUME NEW t \in Terms, NEW k, RtcAt(t, k)'
       PROVE  k \in Int /\ RtcAt(t, IF t = flow THEN k + 1 ELSE k)
  <2>1. k \in 1 .. Len(frames'[t]) /\ Unserved(frames'[t][k]) /\ frames'[t][k].irq = RTC_IRQ
    BY <1>10 DEF RtcAt, Serving, Slots, Unserved
  <2>2. CASE t # flow
    BY <1>3, <2>1, <2>2 DEF RtcAt, Serving, Slots
  <2>3. CASE t = flow
    BY <1>6, <2>1, <2>3 DEF RtcAt, Serving, Slots
  <2> QED  BY <2>2, <2>3
<1>11. OneRtc'
  <2> SUFFICES ASSUME NEW t \in Terms, NEW u \in Terms, NEW k \in Slots(t)', NEW l \in Slots(u)',
                      RtcAt(t, k)', RtcAt(u, l)'
               PROVE  t = u /\ k = l
    BY DEF OneRtc, Terms
  <2> DEFINE old(v, n) == IF v = flow THEN n + 1 ELSE n
  <2>1. RtcAt(t, old(t, k)) /\ RtcAt(u, old(u, l)) /\ k \in Int /\ l \in Int
    BY <1>10
  <2>2. t = u /\ old(t, k) = old(u, l)
    BY <2>1 DEF InterruptsStrong, OneRtc, RtcAt, Serving
  <2> QED  BY <2>1, <2>2
<1>12. ASSUME NEW t \in Terms, NEW k, PitAt(t, k)'
       PROVE  /\ k \in Int /\ t = flow /\ PitAt(t, k + 1) /\ Len(frames[flow]) # 1
              /\ k + 1 # 1 /\ frames'[t][k] = frames[t][k + 1]
  <2>1. k \in 1 .. Len(frames'[t]) /\ frames'[t][k].irq = PIT_IRQ /\ frames'[t][k].at # "out"
    BY <1>12 DEF PitAt, Slots
  <2>2. CASE t # flow
    <3>1. PitAt(t, k)
      BY <1>3, <2>1, <2>2 DEF PitAt, Slots
    <3> QED  BY <2>2, <3>1 DEF InterruptsStrong, OneTick, PitAt
  <2>3. CASE t = flow
    BY <1>6, <2>1, <2>3 DEF PitAt, Slots
  <2> QED  BY <2>2, <2>3
<1>13. TickPending'
  BY <1>0, LineNumbers DEF InterruptsStrong, TickPending, Irqs
<1>14. OneTick'
  <2> SUFFICES ASSUME NEW t \in Terms, NEW k \in Slots(t)', PitAt(t, k)'
               PROVE  /\ t = flow /\ PIT_IRQ \notin raised /\ burst'[PIT_IRQ] = 1
                      /\ \A l \in Slots(t)' : PitAt(t, l)' => k = l
    BY <1>0 DEF OneTick, Terms
  <2>1. t = flow /\ PitAt(t, k + 1) /\ k \in Int /\ Len(frames[flow]) # 1
    BY <1>12
  <2>2. PIT_IRQ \notin raised /\ burst[PIT_IRQ] = 1
    BY <2>1 DEF InterruptsStrong, OneTick, PitAt
  <2>3. ASSUME NEW l \in Slots(t)', PitAt(t, l)' PROVE k = l
    <3>1. PitAt(t, l + 1) /\ l \in Int
      BY <1>12, <2>3
    <3>2. k + 1 = l + 1
      BY <2>1, <3>1 DEF InterruptsStrong, OneTick, PitAt
    <3> QED  BY <2>1, <3>1, <3>2
  <2>4. burst'[PIT_IRQ] = 1
    BY <1>0, <2>1, <2>2 DEF Irqs
  <2> QED  BY <2>1, <2>2, <2>3, <2>4
<1>15. TickOnTop'
  <2> SUFFICES ASSUME NEW t \in Terms, NEW k \in Slots(t)', PitAt(t, k)'
               PROVE  ~ Unserved(frames'[t][k]) /\ ~ (terminal_init > NUM_TERMS)
    BY <1>0 DEF TickOnTop, Terms, Unserved
  <2>1. PitAt(t, k + 1) /\ k + 1 # 1 /\ frames'[t][k] = frames[t][k + 1]
    BY <1>12
  <2> QED  BY <2>1 DEF InterruptsStrong, TickOnTop, PitAt
<1>16. LateIsKeyboard'
  <2> SUFFICES ASSUME NEW t \in Terms, NEW k \in 1 .. Len(frames'[t]), frames'[t][k].at = "late"
               PROVE  frames'[t][k].irq = KB_IRQ
    BY DEF LateIsKeyboard, Slots, Terms
  <2>1. CASE t # flow
    BY <1>3, <2>1 DEF InterruptsStrong, LateIsKeyboard, Slots
  <2>2. CASE t = flow
    BY <1>0, <1>6, <2>2 DEF InterruptsStrong, LateIsKeyboard, Slots
  <2> QED  BY <2>1, <2>2
<1> QED  BY <1>4, <1>5, <1>9, <1>11, <1>13, <1>14, <1>15, <1>16 DEF InterruptsStrong

\* Steps that leave the stacks and the controllers alone.
LEMMA SameStacks ==
  ASSUME InterruptsStrong, IntTypeOK', UNCHANGED <<frames, in_service, flow, terminal_init>>,
         PIT_IRQ \in raised' => burst'[PIT_IRQ] = 1,
         \A t \in Terms : \A k \in Slots(t) : PitAt(t, k) =>
           /\ PIT_IRQ \notin raised' /\ burst'[PIT_IRQ] = 1
           /\ enabled' => enabled
  PROVE  InterruptsStrong'
<1>1. StacksType' /\ SlaveLine' /\ Acknowledged'
  BY DEF InterruptsStrong, StacksType, SlaveLine, Acknowledged, InService, HandlerOf, Unserved, Terms
<1>2. OneRtc' /\ LateIsKeyboard'
  BY DEF InterruptsStrong, OneRtc, LateIsKeyboard, RtcAt, Serving, Unserved, Slots
<1>3. \A t \in Terms : \A k : (PitAt(t, k)' <=> PitAt(t, k)) /\ Slots(t)' = Slots(t)
  BY DEF PitAt, Slots
<1>4. TickPending' /\ OneTick'
  BY <1>3 DEF InterruptsStrong, TickPending, OneTick
<1>5. TickOnTop'
  BY <1>3 DEF InterruptsStrong, TickOnTop, Unserved
<1> QED  BY <1>1, <1>2, <1>4, <1>5 DEF InterruptsStrong

\* A device raises its line: the timer not while a tick is under way.
LEMMA RaiseStep ==
  ASSUME InterruptsStrong, NEW irq \in Irqs, raise(irq)
  PROVE  InterruptsStrong'
<1>0. /\ IntTypeOK /\ burst[irq] < Limit(irq) /\ raised' = raised \cup {irq}
      /\ burst' = [burst EXCEPT ![irq] = burst[irq] + 1]
      /\ rtc_armed' = (rtc_armed /\ irq # RTC_IRQ) /\ irq \notin raised
      /\ UNCHANGED <<boot, masks, in_service, enabled, flow, frames, terminal_init>>
  BY DEF InterruptsStrong, raise
<1>1. burst[irq] \in 0 .. KeyBurst /\ Limit(irq) \in 1 .. KeyBurst /\ Limit(PIT_IRQ) = 1
      /\ KeyBurst \in Nat
  BY <1>0, InterruptsAssumption, LineNumbers DEF IntTypeOK, Limit
<1>2. IntTypeOK'
  <2>1. burst' \in [Irqs -> 0 .. KeyBurst]
    BY <1>0, <1>1 DEF IntTypeOK
  <2>2. rtc_armed' \in BOOLEAN /\ raised' \subseteq Irqs
    BY <1>0 DEF IntTypeOK
  <2>3. /\ DOMAIN frames' = Terms
        /\ \A t \in Terms : \A k \in 1 .. Len(frames'[t]) : frames'[t][k] \in Frames
    BY <1>0 DEF IntTypeOK
  <2> QED  BY <1>0, <2>1, <2>2, <2>3 DEF IntTypeOK
<1>3. irq = PIT_IRQ => burst[PIT_IRQ] = 0 /\ burst'[PIT_IRQ] = 1
  BY <1>0, <1>1 DEF IntTypeOK
<1>4. irq # PIT_IRQ => burst'[PIT_IRQ] = burst[PIT_IRQ]
  BY <1>0 DEF IntTypeOK, Irqs
<1>5. PIT_IRQ \in raised' => burst'[PIT_IRQ] = 1
  BY <1>0, <1>3, <1>4 DEF InterruptsStrong, TickPending
<1>6. ASSUME NEW t \in Terms, NEW k \in Slots(t), PitAt(t, k)
      PROVE  PIT_IRQ \notin raised' /\ burst'[PIT_IRQ] = 1 /\ (enabled' => enabled)
  <2>1. PIT_IRQ \notin raised /\ burst[PIT_IRQ] = 1
    BY <1>6 DEF InterruptsStrong, OneTick
  <2> QED  BY <1>0, <1>3, <1>4, <2>1
<1> QED  BY <1>0, <1>2, <1>5, <1>6, SameStacks

\* The code outside handlers runs only when none is on its stack.
LEMMA RestStep ==
  ASSUME InterruptsStrong, entry \/ cli \/ sti
  PROVE  InterruptsStrong'
<1>0. /\ frames[flow] = << >> /\ IntTypeOK
      /\ UNCHANGED <<in_service, raised, flow, frames, terminal_init, rtc_armed, burst>>
  BY DEF InterruptsStrong, entry, cli, sti, AtRest
<1>1. boot' \in 0 .. Booted /\ enabled' \in BOOLEAN /\ masks' \in Controllers
  <2>1. masks \in Controllers /\ boot \in 0 .. Booted /\ enabled \in BOOLEAN
    BY <1>0 DEF IntTypeOK, Controllers
  <2>2. CASE entry
    <3>1. boot' \in 0 .. Booted
      BY <2>1, <2>2, LineNumbers DEF entry
    <3>2. enabled' \in BOOLEAN /\ masks' \in Controllers
      BY <2>1, <2>2, EnableType DEF entry, i8259_init, pit_init, keyboard_init, rtc_init
    <3> QED  BY <3>1, <3>2
  <2>3. CASE cli \/ sti
    BY <2>1, <2>3 DEF cli, sti
  <2> QED  BY <2>2, <2>3
<1>2. IntTypeOK'
  <2>1. /\ DOMAIN frames' = Terms
        /\ \A t \in Terms : \A k \in 1 .. Len(frames'[t]) : frames'[t][k] \in Frames
    BY <1>0 DEF IntTypeOK
  <2> QED  BY <1>0, <1>1, <2>1 DEF IntTypeOK, Controllers
<1>3. \A t \in Terms : \A k \in Slots(t) : ~ PitAt(t, k)
  <2>1. Len(frames[flow]) = 0
    BY <1>0
  <2> QED  BY <2>1 DEF InterruptsStrong, OneTick, Slots
<1>4. PIT_IRQ \in raised' => burst'[PIT_IRQ] = 1
  BY <1>0 DEF InterruptsStrong, TickPending
<1> QED  BY <1>0, <1>2, <1>3, <1>4, SameStacks

-----------------------------------------------------------------------------
\* The invariant holds at boot.
LEMMA InterruptsStart == InterruptsInit => InterruptsStrong
<1> SUFFICES ASSUME InterruptsInit PROVE InterruptsStrong
  OBVIOUS
<1>1. frames = [t \in Terms |-> << >>] /\ \A t \in Terms : Len(frames[t]) = 0 /\ Slots(t) = {}
  BY DEF InterruptsInit, Slots
<1>2. StacksType
  BY <1>1, EmptySeq DEF StacksType
<1>3. IntTypeOK
  <2>1. 0 \in 0 .. Booted /\ 0 \in Terms /\ 1 \in 1 .. NUM_TERMS + 1 /\ 0 \in 0 .. KeyBurst
    BY InterruptsAssumption, LineNumbers DEF Terms
  <2> QED  BY <1>1, <1>2, <2>1, StacksAre DEF InterruptsInit, IntTypeOK
<1>4. Acknowledged /\ SlaveLine
  <2>1. \A irq : ~ HandlerOf(irq)
    BY <1>1 DEF HandlerOf
  <2>2. \A irq : ~ InService(irq)
    BY DEF InService, InterruptsInit
  <2> QED  BY <2>1, <2>2 DEF Acknowledged, SlaveLine, InterruptsInit
<1>5. LateIsKeyboard /\ OneRtc /\ TickPending /\ OneTick /\ TickOnTop
  BY <1>1 DEF InterruptsInit, LateIsKeyboard, OneRtc, TickPending, OneTick, TickOnTop
<1> QED  BY <1>2, <1>3, <1>4, <1>5 DEF InterruptsStrong

\* The invariant is inductive.
LEMMA InterruptsStep == InterruptsStrong /\ [InterruptsNext]_intvars => InterruptsStrong'
<1> SUFFICES ASSUME InterruptsStrong, [InterruptsNext]_intvars PROVE InterruptsStrong'
  OBVIOUS
<1>1. CASE \E irq \in Irqs : raise(irq) \/ deliver(irq)
  BY <1>1, RaiseStep, DeliverStep
<1>2. ASSUME NEW irq \in Irqs, enter(irq) PROVE InterruptsStrong'
  BY <1>2, UnservedStep DEF enter
<1>3. CASE keyboard_handler
  BY <1>3, KeyboardStep DEF keyboard_handler
<1>4. CASE keyboard_switch
  BY <1>4, KeyboardStep DEF keyboard_switch
<1>5. CASE keyboard_late
  BY <1>5, KeyboardStep DEF keyboard_late
<1>6. CASE pit_switch
  <2>1. StacksType /\ flow \in Terms /\ PIT_IRQ \in Irqs /\ enabled \in BOOLEAN
        /\ terminal_init \in Int /\ NUM_TERMS \in Int /\ "body" \in Points /\ "switched" \in Points
    BY InterruptsAssumption DEF InterruptsStrong, IntTypeOK, Irqs, Points
  <2>2. PitAt(flow, 1) /\ 1 \in Slots(flow) /\ frames[flow][1].at = "body"
    BY <1>6, <2>1, GotoIs, GotoViews DEF pit_switch
  <2>3. terminal_init > NUM_TERMS => ~ enabled
    BY <2>1, <2>2 DEF InterruptsStrong, TickOnTop
  <2>4. enabled' \in BOOLEAN /\ (terminal_init > NUM_TERMS => ~ enabled')
    <3>1. terminal_init > NUM_TERMS <=> ~ (terminal_init <= NUM_TERMS)
      BY <2>1
    <3>2. enabled' = enabled \/ (terminal_init <= NUM_TERMS /\ enabled' = TRUE)
      BY <1>6 DEF pit_switch
    <3>3. CASE enabled' = enabled
      BY <2>1, <2>3, <3>3, Zenon
    <3>4. CASE terminal_init <= NUM_TERMS /\ enabled' = TRUE
      BY <3>1, <3>4, Zenon
    <3> QED  BY <3>2, <3>3, <3>4
  <2> QED  BY <1>6, <2>1, <2>4, UnservedStep DEF pit_switch
<1>7. CASE UNCHANGED intvars
  <2>1. IntTypeOK'
    BY <1>7 DEF intvars, InterruptsStrong, IntTypeOK
  <2> QED  BY <1>7, <2>1, SameStacks DEF intvars, InterruptsStrong, TickPending, OneTick
<1> QED  BY <1>1, <1>2, <1>3, <1>4, <1>5, <1>6, <1>7, RtcHandlerStep, PitEoiStep, PitLeaveStep,
            IretStep, RestStep DEF InterruptsNext, Handler

\* The invariant holds after any interrupts, switches and system calls.
LEMMA InterruptsAlways == InterruptsSpec => []InterruptsStrong
BY InterruptsStart, InterruptsStep, PTL DEF InterruptsSpec

(***************************************************************************)
(* Every line in service will be acknowledged, by a handler that is on     *)
(* some stack: send_eoi is called by every handler, for the right line and *)
(* at both controllers, on whatever stack a tick has left the handler.     *)
(***************************************************************************)
THEOREM InterruptsCorrect == InterruptsSpec => []InterruptsInv
<1>1. InterruptsStrong => InterruptsInv
  BY DEF InterruptsStrong, InterruptsInv
<1> QED  BY <1>1, InterruptsAlways, PTL

(***************************************************************************)
(* pit_handler runs undisturbed on the current stack until it has left for *)
(* another one, except that after its send_eoi handlers nest on it while   *)
(* terminals are being started.                                            *)
(***************************************************************************)
THEOREM TickCorrect == InterruptsSpec => []TickUndisturbed
<1>1. InterruptsStrong => TickUndisturbed
  <2> SUFFICES ASSUME InterruptsStrong, NEW t \in Terms, NEW k \in 1 .. Len(frames[t]),
                      frames[t][k].irq = PIT_IRQ, frames[t][k].at # "out"
               PROVE  /\ t = flow
                      /\ k = 1 \/ (frames[t][k].at = "acked" /\ terminal_init <= NUM_TERMS)
    BY DEF TickUndisturbed
  <2>1. PitAt(t, k) /\ k \in Slots(t)
    BY DEF PitAt, Slots
  <2>2. t = flow /\ (Unserved(frames[t][k]) => k = 1) /\ (terminal_init > NUM_TERMS => k = 1)
    BY <2>1 DEF InterruptsStrong, OneTick, TickOnTop
  <2>3. frames[t][k] \in Frames
    BY StacksAre DEF InterruptsStrong
  <2>4. frames[t][k].at \in {"entry", "body", "switched", "acked", "late"}
    BY <2>3 DEF Frames, Points
  <2>5. frames[t][k].at # "late"
    BY <2>1, LineNumbers DEF InterruptsStrong, LateIsKeyboard
  <2>6. terminal_init \in Int /\ NUM_TERMS \in Int
    BY InterruptsAssumption DEF InterruptsStrong, IntTypeOK
  <2> QED  BY <2>2, <2>4, <2>5, <2>6 DEF Unserved
<1> QED  BY <1>1, InterruptsAlways, PTL
=============================================================================
