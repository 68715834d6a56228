-------------------------------- MODULE Rtc --------------------------------
(***************************************************************************)
(* The virtual RTC.  The device interrupts at MAX_VIR_FREQ; rtc_read waits *)
(* for the interrupts that a device of the program's own rate would raise. *)
(* The rate belongs to a pid, the wait flag and the counter to a terminal, *)
(* and the handler serves all terminals, whichever has the CPU.            *)
(*                                                                         *)
(* A terminal runs its base program or a child of it.  That a halting      *)
(* process closes its RTC is shown in module Files.                        *)
(***************************************************************************)
EXTENDS Integers

CONSTANTS
  NUM_TERMS,     \* number of terminals
  MAX_VIR_FREQ,  \* interrupts of the device per second
  MIN_VIR_FREQ,  \* rate of an RTC just opened
  Freqs,         \* the rates programs ask for
  HALF_RANGE     \* 2^31: the counters are 32 bit integers

ASSUME RtcAssumption ==
  /\ NUM_TERMS \in Nat \ {0}
  /\ MIN_VIR_FREQ \in Nat \ {0}
  /\ MAX_VIR_FREQ \in Nat /\ MIN_VIR_FREQ <= MAX_VIR_FREQ
  /\ Freqs \subseteq Int
  /\ HALF_RANGE \in Nat \ {0}

Terms == 0 .. NUM_TERMS - 1

\* Pid t is the base program of terminal t and t + NUM_TERMS its child.
Pids     == 0 .. 2 * NUM_TERMS - 1
Child(p) == p + NUM_TERMS

VARIABLES
  ta,                  \* terminal whose program has the CPU
  active_pid,          \* program on top of each terminal
  process_rtc,         \* rate of each pid
  terminal_rtc_count,  \* interrupts seen, per terminal
  terminal_rtc_wait,   \* 1 while the terminal's program has to wait
  reading,             \* reading[t], the program of t is in rtc_read
  waited               \* history: interrupts since its flag was set

rtcvars == <<ta, active_pid, process_rtc, terminal_rtc_count,
             terminal_rtc_wait, reading, waited>>

RtcTypeOK ==
  /\ ta \in Terms
  /\ active_pid \in [Terms -> Pids]
  /\ process_rtc \in [Pids -> MIN_VIR_FREQ .. MAX_VIR_FREQ]
  /\ terminal_rtc_count \in [Terms -> -HALF_RANGE .. HALF_RANGE - 1]
  /\ terminal_rtc_wait \in [Terms -> {0, 1}]
  /\ reading \in [Terms -> BOOLEAN]
  /\ waited \in [Terms -> Nat]

\* rtc_init
RtcInit ==
  /\ ta = 0
  /\ active_pid = [t \in Terms |-> t]
  /\ process_rtc = [p \in Pids |-> MAX_VIR_FREQ]
  /\ terminal_rtc_count = [t \in Terms |-> 0]
  /\ terminal_rtc_wait = [t \in Terms |-> 0]
  /\ reading = [t \in Terms |-> FALSE]
  /\ waited = [t \in Terms |-> 0]

-----------------------------------------------------------------------------
\* A signed counter wraps around.
Incremented(n) == IF n = HALF_RANGE - 1 THEN -HALF_RANGE ELSE n + 1

\* Mutant of rate_of: the rate of the program that has the CPU, for all.
rate_of_current(t) == process_rtc[active_pid[ta]]

\* The rate that counts for terminal t.
rate_of(t) == process_rtc[active_pid[t]]

\* The next virtual interrupt of t; the remainder is zero in C for the same
\* counters, negative ones included.
Due(t) ==
  Incremented(terminal_rtc_count[t]) % (MAX_VIR_FREQ \div rate_of(t)) = 0

\* Mutant of woken: the flag of one terminal only is cleared.
woken_active == [t \in Terms |-> IF t = ta /\ Due(t) THEN 0
                                 ELSE terminal_rtc_wait[t]]

woken == [t \in Terms |-> IF Due(t) THEN 0 ELSE terminal_rtc_wait[t]]

\* Waits longer than the longest period are not told apart.
LongestWait == MAX_VIR_FREQ \div MIN_VIR_FREQ + 1

rtc_handler ==
  /\ terminal_rtc_count' =
       [t \in Terms |-> Incremented(terminal_rtc_count[t])]
  /\ terminal_rtc_wait' = woken
  /\ waited' = [t \in Terms |->
                  IF terminal_rtc_wait[t] = 1 /\ waited[t] < LongestWait
                    THEN waited[t] + 1 ELSE waited[t]]
  /\ UNCHANGED <<ta, active_pid, process_rtc, reading>>

-----------------------------------------------------------------------------
Ready == ~ reading[ta]

\* rtc_open, rtc_close and rtc_write: only the caller's own rate changes.
set_rate(freq) ==
  /\ Ready
  /\ process_rtc' = [process_rtc EXCEPT ![active_pid[ta]] = freq]
  /\ UNCHANGED <<ta, active_pid, terminal_rtc_count, terminal_rtc_wait,
                 reading, waited>>

rtc_open  == set_rate(MIN_VIR_FREQ)
rtc_close == set_rate(MAX_VIR_FREQ)

ValidFreq(freq) == freq >= MIN_VIR_FREQ /\ freq <= MAX_VIR_FREQ

\* An invalid rate is refused.
rtc_write == \E freq \in Freqs : ValidFreq(freq) /\ set_rate(freq)

\* The flag is set, and polled until the handler has cleared it.
rtc_read ==
  /\ Ready
  /\ reading' = [reading EXCEPT ![ta] = TRUE]
  /\ terminal_rtc_wait' = [terminal_rtc_wait EXCEPT ![ta] = 1]
  /\ waited' = [waited EXCEPT ![ta] = 0]
  /\ UNCHANGED <<ta, active_pid, process_rtc, terminal_rtc_count>>

rtc_read_done ==
  /\ reading[ta]
  /\ terminal_rtc_wait[ta] = 0
  /\ reading' = [reading EXCEPT ![ta] = FALSE]
  /\ waited' = [waited EXCEPT ![ta] = 0]
  /\ UNCHANGED <<ta, active_pid, process_rtc, terminal_rtc_count,
                 terminal_rtc_wait>>

\* A child takes over the terminal, and gives it back with its RTC closed.
sys_execute ==
  /\ Ready
  /\ active_pid[ta] = ta
  /\ active_pid' = [active_pid EXCEPT ![ta] = Child(ta)]
  /\ UNCHANGED <<ta, process_rtc, terminal_rtc_count, terminal_rtc_wait,
                 reading, waited>>

halt_helper ==
  /\ Ready
  /\ active_pid[ta] = Child(ta)
  /\ active_pid' = [active_pid EXCEPT ![ta] = ta]
  /\ process_rtc' = [process_rtc EXCEPT ![Child(ta)] = MAX_VIR_FREQ]
  /\ UNCHANGED <<ta, terminal_rtc_count, terminal_rtc_wait, reading, waited>>

pit_handler ==
  /\ ta' = (ta + 1) % NUM_TERMS
  /\ UNCHANGED <<active_pid, process_rtc, terminal_rtc_count,
                 terminal_rtc_wait, reading, waited>>

RtcNext ==
  \/ rtc_handler
  \/ rtc_open
  \/ rtc_close
  \/ rtc_write
  \/ rtc_read
  \/ rtc_read_done
  \/ sys_execute
  \/ halt_helper
  \/ pit_handler

(***************************************************************************)
(* Both devices interrupt forever.  A reader polls its flag thousands of   *)
(* times in every time slice.                                              *)
(***************************************************************************)
RtcFairness ==
  /\ WF_rtcvars(rtc_handler)
  /\ WF_rtcvars(pit_handler)
  /\ \A t \in Terms : SF_rtcvars(ta = t /\ rtc_read_done)

RtcSpec == RtcInit /\ [][RtcNext]_rtcvars /\ RtcFairness

-----------------------------------------------------------------------------
(***************************************************************************)
(* A program waits for at most one period of its own rate, whatever rates  *)
(* other programs set, whoever has the CPU, and across the wrap-around of  *)
(* the counter, which the periods of the runs divide.                      *)
(***************************************************************************)
WokenInTime ==
  \A t \in Terms :
    LET period == MAX_VIR_FREQ \div process_rtc[active_pid[t]] IN
    reading[t] => \/ waited[t] < period
                  \/ waited[t] = period /\ terminal_rtc_wait[t] = 0

(***************************************************************************)
(* The two together: rates and the wrapping counters stay in range, and    *)
(* nobody waits longer than a period.                                      *)
(***************************************************************************)
RtcInv == RtcTypeOK /\ WokenInTime

(***************************************************************************)
(* Every rtc_read returns.                                                 *)
(***************************************************************************)
ReadsReturn == \A t \in Terms : reading[t] ~> ~ reading[t]
=============================================================================
