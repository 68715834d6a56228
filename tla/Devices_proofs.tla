-------------------------- MODULE Devices_proofs --------------------------
(***************************************************************************)
(* Proofs about the drivers of two devices, the keyboard (Keys, for any    *)
(* number of keys held down together) and the RTC (Rtc, for any number of  *)
(* terminals, any rates and a counter of any width).                       *)
(***************************************************************************)
EXTENDS Keys, Rtc, TLAPS

-----------------------------------------------------------------------------
(* The keyboard. *)

(***************************************************************************)
(* The last command says nothing about the flags the next one is decided   *)
(* on.  What the invariant adds is that between interrupts the six flags   *)
(* are exactly the keys held, and that a function key that is remembered   *)
(* is one of those held.                                                   *)
(***************************************************************************)
FlagsAreKeys == \A k \in FlagKeys : flag[k] = 1 <=> k \in held

FunctionIsHeld == function # 0 => \E k \in FunctionKeys : k \in held /\ F(k) = function

KeysStrong ==
  /\ KeysTypeOK
  /\ FlagsAreKeys
  /\ FunctionIsHeld
  /\ OnlyWhileHeld
  /\ CaseFollowsKeys

-----------------------------------------------------------------------------
\* The function keys have the numbers alt_helper asks for.
LEMMA FType == \A k \in FunctionKeys : F(k) \in 1 .. 3
BY DEF FunctionKeys, F

\* get_key gives a character of the tables, or 0.
LEMMA CharType ==
  ASSUME NEW key \in Keys, NEW down \in BOOLEAN
  PROVE  ascii(key, down) \in Chars
<1>1. shift \in BOOLEAN /\ (caps = 1) \in BOOLEAN /\ (shift # (caps = 1)) \in BOOLEAN
  BY DEF shift
<1>2. Shifted(key) \in BOOLEAN
  BY <1>1 DEF Shifted
<1> QED  BY <1>2 DEF ascii, Chars

\* keyboard_handler's decision is one of its commands.
LEMMA CommandType ==
  ASSUME NEW ch \in Chars, NEW fl, NEW fn
  PROVE  decide(ch, fl, fn) \in
           [kind : {"none", "type", "erase", "tab", "clear", "switch"}, ch : Chars]
<1>1. NoChar \in Chars
  BY DEF Chars
<1> QED  BY <1>1 DEF decide, ctrl_helper, alt_helper, Command

\* Which decision comes from which flags.
LEMMA DecisionReason ==
  ASSUME NEW ch, NEW fl, NEW fn
  PROVE  LET c == decide(ch, fl, fn) IN
         /\ c.kind = "type" => ch # NoChar /\ c.ch = ch
         /\ c.kind = "erase" => fl["backspace"] = 1
         /\ c.kind = "tab" => fl["tab"] = 1
         /\ c.kind = "clear" => fl["ctrl"] = 1 /\ ch.key = "l"
         /\ c.kind = "switch" => fl["alt"] = 1 /\ fn \in 1 .. 3
<1>1. CASE fl["ctrl"] = 1
  BY <1>1 DEF decide, ctrl_helper, Command, NoChar
<1>2. CASE fl["ctrl"] # 1
  BY <1>2 DEF decide, alt_helper, Command, NoChar
<1> QED  BY <1>1, <1>2

(***************************************************************************)
(* The interrupt of a press or a release: get_key brings the flags in line *)
(* with the keys held now, and the command is decided on those.            *)
(***************************************************************************)
LEMMA HandlerStep ==
  ASSUME KeysStrong, NEW key \in Keys, NEW down \in BOOLEAN,
         keyboard_handler(key, down),
         held' = IF down THEN held \cup {key} ELSE held \ {key}
  PROVE  KeysStrong'
<1>0. /\ held \subseteq Keys /\ flag \in [FlagKeys -> {0, 1}]
      /\ caps \in {0, 1} /\ function \in 0 .. 3
  BY DEF KeysStrong, KeysTypeOK
<1>1. KeysTypeOK'
  <2>1. held' \subseteq Keys
    BY <1>0
  <2>2. flag' \in [FlagKeys -> {0, 1}]
    BY <1>0 DEF keyboard_handler, flag_after
  <2>3. caps' \in {0, 1}
    BY <1>0 DEF keyboard_handler, caps_after
  <2>4. function' \in 0 .. 3
    BY <1>0, FType DEF keyboard_handler, function_after
  <2>5. event' \in [key : Keys \cup {"none"}, down : BOOLEAN]
    BY DEF keyboard_handler
  <2>6. command' \in [kind : {"none", "type", "erase", "tab", "clear", "switch"},
                      ch : Chars]
    BY CharType, CommandType DEF keyboard_handler
  <2> QED  BY <2>1, <2>2, <2>3, <2>4, <2>5, <2>6 DEF KeysTypeOK
<1>2. FlagsAreKeys'
  BY <1>0 DEF KeysStrong, FlagsAreKeys, keyboard_handler, flag_after
<1>3. FunctionIsHeld'
  <2>1. CASE key \in FunctionKeys
    BY <2>1, FType DEF FunctionIsHeld, keyboard_handler, function_after
  <2>2. CASE key \notin FunctionKeys
    BY <2>2 DEF KeysStrong, FunctionIsHeld, keyboard_handler, function_after
  <2> QED  BY <2>1, <2>2
<1> DEFINE ch == ascii(key, down)
<1>4. /\ command' = decide(ch, flag', function')
      /\ event' = [key |-> key, down |-> down]
  BY DEF keyboard_handler
<1>5. /\ ch # NoChar => down /\ key \in CharKeys /\ ch = [key |-> key, shifted |-> Shifted(key)]
      /\ ch.key = "l" => down /\ key = "l"
  BY DEF ascii, NoChar
<1> HIDE DEF ch
<1>6. OnlyWhileHeld'
  <2>1. {"backspace", "tab", "ctrl", "alt"} \subseteq FlagKeys
    BY DEF FlagKeys
  <2>2. command.kind' = "type" => event.down' /\ event.key' = command.ch.key'
    BY <1>4, <1>5, DecisionReason
  <2>3. command.kind' = "erase" => "backspace" \in held'
    BY <1>2, <1>4, <2>1, DecisionReason DEF FlagsAreKeys
  <2>4. command.kind' = "tab" => "tab" \in held'
    BY <1>2, <1>4, <2>1, DecisionReason DEF FlagsAreKeys
  <2>5. command.kind' = "clear" => {"ctrl", "l"} \subseteq held'
    BY <1>2, <1>4, <1>5, <2>1, DecisionReason DEF FlagsAreKeys
  <2>6. command.kind' = "switch" => "alt" \in held' /\ held' \cap FunctionKeys # {}
    BY <1>2, <1>3, <1>4, <2>1, DecisionReason DEF FlagsAreKeys, FunctionIsHeld
  <2> QED  BY <2>2, <2>3, <2>4, <2>5, <2>6 DEF OnlyWhileHeld
<1>7. CaseFollowsKeys'
  <2> SUFFICES ASSUME command.kind' = "type"
               PROVE  LET d == held' \cap {"l_shift", "r_shift"} # {} IN
                      /\ command.ch.key' = "digit" => command.ch.shifted' = d
                      /\ command.ch.key' \in {"letter", "l"} =>
                           command.ch.shifted' = (d # (caps' = 1))
    BY DEF CaseFollowsKeys
  <2>1. /\ down /\ key \in CharKeys
        /\ command.ch' = [key |-> key, shifted |-> Shifted(key)]
    BY <1>4, <1>5, DecisionReason
  <2>2. caps' = caps /\ held' = held \cup {key} /\ key \notin {"l_shift", "r_shift"}
    BY <2>1 DEF keyboard_handler, caps_after, CharKeys
  <2>3. shift = (held' \cap {"l_shift", "r_shift"} # {})
    BY <2>2 DEF shift, KeysStrong, FlagsAreKeys, FlagKeys
  <2>4. /\ key = "digit" => Shifted(key) = shift
        /\ key \in {"letter", "l"} => Shifted(key) = (shift # (caps = 1))
    BY DEF Shifted
  <2> QED  BY <2>1, <2>2, <2>3, <2>4
<1> QED  BY <1>1, <1>2, <1>3, <1>6, <1>7 DEF KeysStrong

\* At boot no key is held and no flag set.
LEMMA KeysStart == KeysInit => KeysStrong
<1> SUFFICES ASSUME KeysInit PROVE KeysStrong
  OBVIOUS
<1>1. KeysTypeOK
  BY DEF KeysInit, KeysTypeOK, Command, Chars
<1>2. FlagsAreKeys /\ FunctionIsHeld
  BY DEF KeysInit, FlagsAreKeys, FunctionIsHeld
<1>3. OnlyWhileHeld /\ CaseFollowsKeys
  BY DEF KeysInit, OnlyWhileHeld, CaseFollowsKeys, Command
<1> QED  BY <1>1, <1>2, <1>3 DEF KeysStrong

\* Every scan code keeps the invariant.
LEMMA KeysStep == KeysStrong /\ [KeysNext]_keyvars => KeysStrong'
<1> SUFFICES ASSUME KeysStrong, [KeysNext]_keyvars PROVE KeysStrong'
  OBVIOUS
<1>1. ASSUME NEW key \in Keys, press(key) PROVE KeysStrong'
  BY <1>1, HandlerStep DEF press
<1>2. ASSUME NEW key \in Keys, release(key) PROVE KeysStrong'
  BY <1>2, HandlerStep DEF release
<1>3. CASE UNCHANGED keyvars
  BY <1>3 DEF keyvars, KeysStrong, KeysTypeOK, FlagsAreKeys, FunctionIsHeld,
              OnlyWhileHeld, CaseFollowsKeys
<1> QED  BY <1>1, <1>2, <1>3 DEF KeysNext

(***************************************************************************)
(* No command of keyboard_handler sticks, whatever keys go up and down     *)
(* across each other and however many of them at a time.                   *)
(***************************************************************************)
THEOREM KeysCorrect == KeysSpec => []KeysInv
<1>1. KeysStrong => KeysInv
  BY DEF KeysStrong, KeysInv
<1> QED  BY <1>1, KeysStart, KeysStep, PTL DEF KeysSpec

(***************************************************************************)
(* get_key picks the table by the shift keys that are really held and by   *)
(* caps lock.                                                              *)
(***************************************************************************)
THEOREM CaseCorrect == KeysSpec => []CaseFollowsKeys
<1>1. KeysStrong => CaseFollowsKeys
  BY DEF KeysStrong
<1> QED  BY <1>1, KeysStart, KeysStep, PTL DEF KeysSpec

-----------------------------------------------------------------------------
(* The RTC. *)

\* The rates processes can have, and the interrupts in a period of a rate.
Rates        == {MIN_VIR_FREQ, MAX_VIR_FREQ} \cup {freq \in Freqs : ValidFreq(freq)}
Period(rate) == MAX_VIR_FREQ \div rate

(***************************************************************************)
(* The counter reaches a multiple of a period once in every period, also   *)
(* where it wraps around, if the periods divide its range: those of all    *)
(* rates that are powers of two do, 341 (rate 3) does not.                 *)
(***************************************************************************)
PeriodsDivide ==
  \A rate \in Rates : \E m \in Int : 2 * HALF_RANGE = Period(rate) * m

\* A pid is on top of one terminal only, whose rate is the program's own.
OwnPid == \A t \in Terms : active_pid[t] \in {t, Child(t)}

RatesUsed == \A p \in Pids : process_rtc[p] \in Rates

(***************************************************************************)
(* A reader has waited for no more interrupts than the counter has taken   *)
(* since the last multiple of its period.                                  *)
(***************************************************************************)
CountsTheWait ==
  \A t \in Terms :
    reading[t] =>
      IF terminal_rtc_wait[t] = 1
        THEN waited[t] <= terminal_rtc_count[t] % Period(rate_of(t))
        ELSE waited[t] <= Period(rate_of(t))

RtcStrong == RtcTypeOK /\ OwnPid /\ RatesUsed /\ CountsTheWait

\* A number of periods leaves no remainder.
LEMMA RemainderIs ==
  ASSUME NEW p \in Nat \ {0}, NEW q \in Int, NEW r \in 0 .. p - 1
  PROVE  (p * q + r) % p = r
OBVIOUS

\* Every number is a number of periods and a remainder.
LEMMA Remainder ==
  ASSUME NEW p \in Nat \ {0}, NEW x \in Int
  PROVE  \E q \in Int, r \in 0 .. p - 1 : x = p * q + r /\ x % p = r
<1>1. x % p \in 0 .. p - 1 /\ x \div p \in Int /\ x = (p * (x \div p)) + (x % p)
  OBVIOUS
<1> QED  BY <1>1

(***************************************************************************)
(* Incrementing the counter increments its remainder, up to the period,    *)
(* across the wrap-around too.                                             *)
(***************************************************************************)
LEMMA IncrementedIs ==
  ASSUME NEW p \in Nat \ {0}, NEW m \in Int, 2 * HALF_RANGE = p * m,
         NEW n \in -HALF_RANGE .. HALF_RANGE - 1
  PROVE  /\ Incremented(n) \in -HALF_RANGE .. HALF_RANGE - 1
         /\ Incremented(n) % p = IF n % p = p - 1 THEN 0 ELSE (n % p) + 1
<1>0. HALF_RANGE \in Nat \ {0} /\ n \in Int
  BY RtcAssumption
<1>1. PICK q \in Int, r \in 0 .. p - 1 : n = p * q + r /\ n % p = r
  BY <1>0, Remainder
<1>2. Incremented(n) \in -HALF_RANGE .. HALF_RANGE - 1
  BY <1>0 DEF Incremented
<1>3. \E k \in Int : Incremented(n) = p * k + (r + 1)
  <2>1. CASE n = HALF_RANGE - 1
    <3>1. Incremented(n) = (n + 1) - p * m
      BY <1>0, <2>1 DEF Incremented
    <3>2. q - m \in Int /\ p * (q - m) = p * q - p * m /\ p * q \in Int /\ p * m \in Int
      OBVIOUS
    <3>3. Incremented(n) = p * (q - m) + (r + 1)
      BY <1>0, <1>1, <3>1, <3>2
    <3> QED  BY <3>2, <3>3
  <2>2. CASE n # HALF_RANGE - 1
    BY <1>0, <1>1, <2>2 DEF Incremented
  <2> QED  BY <2>1, <2>2
<1>4. PICK k \in Int : Incremented(n) = p * k + (r + 1)
  BY <1>3
<1>5. CASE r = p - 1
  <2>1. k + 1 \in Int /\ Incremented(n) = p * (k + 1) + 0 /\ 0 \in 0 .. p - 1
    BY <1>4, <1>5
  <2> QED  BY <1>1, <1>2, <1>5, <2>1, RemainderIs
<1>6. CASE r # p - 1
  <2>1. r + 1 \in 0 .. p - 1
    BY <1>6
  <2> QED  BY <1>1, <1>2, <1>4, <1>6, <2>1, RemainderIs
<1> QED  BY <1>5, <1>6

\* A period is at least one interrupt.
LEMMA PeriodType ==
  ASSUME NEW rate \in Rates
  PROVE  rate \in MIN_VIR_FREQ .. MAX_VIR_FREQ /\ Period(rate) \in Nat \ {0}
<1>1. rate \in MIN_VIR_FREQ .. MAX_VIR_FREQ /\ rate \in Nat \ {0} /\ MAX_VIR_FREQ \in Nat
  BY RtcAssumption DEF Rates, ValidFreq
<1>2. \A x \in Nat, y \in Nat \ {0} : y <= x => x \div y \in Nat \ {0}
  OBVIOUS
<1>3. rate <= MAX_VIR_FREQ
  BY <1>1, RtcAssumption
<1> QED  BY <1>1, <1>2, <1>3 DEF Period

\* The invariant holds when the RTC is set up.
LEMMA RtcStart == RtcInit => RtcStrong
<1> SUFFICES ASSUME RtcInit PROVE RtcStrong
  OBVIOUS
<1>1. 0 \in Terms /\ Terms \subseteq Pids /\ 0 \in -HALF_RANGE .. HALF_RANGE - 1
      /\ MAX_VIR_FREQ \in MIN_VIR_FREQ .. MAX_VIR_FREQ
  BY RtcAssumption DEF Terms, Pids
<1>2. RtcTypeOK
  BY <1>1 DEF RtcInit, RtcTypeOK
<1> QED  BY <1>2 DEF RtcInit, RtcStrong, OwnPid, RatesUsed, CountsTheWait, Rates

\* The timer interrupt: everybody's counter is a step nearer to its period.
LEMMA RtcInterrupt ==
  ASSUME PeriodsDivide, RtcStrong, rtc_handler
  PROVE  RtcStrong'
<1>0. /\ terminal_rtc_count' = [t \in Terms |-> Incremented(terminal_rtc_count[t])]
      /\ terminal_rtc_wait' = [t \in Terms |-> IF Due(t) THEN 0 ELSE terminal_rtc_wait[t]]
      /\ waited' = [t \in Terms |->
                      IF terminal_rtc_wait[t] = 1 /\ waited[t] < LongestWait
                        THEN waited[t] + 1 ELSE waited[t]]
      /\ UNCHANGED <<ta, active_pid, process_rtc, reading>>
      /\ RtcTypeOK /\ OwnPid /\ RatesUsed /\ CountsTheWait
  BY DEF rtc_handler, woken, RtcStrong
<1>1. ASSUME NEW t \in Terms
      PROVE  LET P == Period(rate_of(t)) n == terminal_rtc_count[t] IN
             /\ P \in Nat \ {0} /\ n % P \in 0 .. P - 1
             /\ n \in -HALF_RANGE .. HALF_RANGE - 1
             /\ Incremented(n) \in -HALF_RANGE .. HALF_RANGE - 1
             /\ Incremented(n) % P = IF n % P = P - 1 THEN 0 ELSE (n % P) + 1
             /\ Due(t) <=> Incremented(n) % P = 0
  <2>1. rate_of(t) \in Rates
    BY <1>0 DEF RatesUsed, rate_of, RtcTypeOK
  <2>2. Period(rate_of(t)) \in Nat \ {0}
    BY <2>1, PeriodType
  <2>3. PICK m \in Int : 2 * HALF_RANGE = Period(rate_of(t)) * m
    BY <2>1 DEF PeriodsDivide
  <2>4. terminal_rtc_count[t] \in -HALF_RANGE .. HALF_RANGE - 1
    BY <1>0 DEF RtcTypeOK
  <2>5. Due(t) <=> Incremented(terminal_rtc_count[t]) % Period(rate_of(t)) = 0
    BY DEF Due, Period
  <2>6. terminal_rtc_count[t] \in Int
    BY <2>4, RtcAssumption
  <2>7. terminal_rtc_count[t] % Period(rate_of(t)) \in 0 .. Period(rate_of(t)) - 1
    BY <2>2, <2>6
  <2> QED  BY <2>2, <2>3, <2>4, <2>5, <2>7, IncrementedIs
<1>2. RtcTypeOK'
  <2>1. terminal_rtc_count' \in [Terms -> -HALF_RANGE .. HALF_RANGE - 1]
    BY <1>0, <1>1
  <2>2. terminal_rtc_wait' \in [Terms -> {0, 1}] /\ waited' \in [Terms -> Nat]
    BY <1>0 DEF RtcTypeOK
  <2> QED  BY <1>0, <2>1, <2>2 DEF RtcTypeOK
<1>3. CountsTheWait'
  <2> SUFFICES ASSUME NEW t \in Terms, reading'[t]
               PROVE  IF terminal_rtc_wait'[t] = 1
                        THEN waited'[t] <= terminal_rtc_count'[t] % Period(rate_of(t))
                        ELSE waited'[t] <= Period(rate_of(t))
    BY <1>0 DEF CountsTheWait, rate_of, Period
  <2> DEFINE P == Period(rate_of(t))
             n == terminal_rtc_count[t]
             w == waited[t]
  <2>1. /\ P \in Nat \ {0} /\ n % P \in 0 .. P - 1
        /\ Incremented(n) % P = IF n % P = P - 1 THEN 0 ELSE (n % P) + 1
        /\ Due(t) <=> Incremented(n) % P = 0
    BY <1>1
  <2>2. /\ terminal_rtc_count'[t] = Incremented(n)
        /\ terminal_rtc_wait'[t] = IF Due(t) THEN 0 ELSE terminal_rtc_wait[t]
        /\ w \in Nat /\ terminal_rtc_wait[t] \in {0, 1}
        /\ waited'[t] = w \/ (waited'[t] = w + 1 /\ terminal_rtc_wait[t] = 1)
    BY <1>0 DEF RtcTypeOK
  <2>3. IF terminal_rtc_wait[t] = 1 THEN w <= n % P ELSE w <= P
    BY <1>0 DEF CountsTheWait
  <2> HIDE DEF P, n, w
  <2>4. CASE terminal_rtc_wait[t] = 1 /\ Due(t)
    BY <2>1, <2>2, <2>3, <2>4 DEF P
  <2>5. CASE terminal_rtc_wait[t] = 1 /\ ~ Due(t)
    <3>1. w + 1 <= Incremented(n) % P /\ w <= Incremented(n) % P
      BY <2>1, <2>2, <2>3, <2>5
    <3> QED  BY <2>2, <2>5, <3>1 DEF P
  <2>6. CASE terminal_rtc_wait[t] = 0
    BY <2>1, <2>2, <2>3, <2>6 DEF P
  <2> QED  BY <2>2, <2>4, <2>5, <2>6
<1> QED  BY <1>0, <1>2, <1>3 DEF RtcStrong, OwnPid, RatesUsed

\* The programs of two terminals have different pids.
LEMMA ChildIs ==
  ASSUME NEW s \in Terms
  PROVE  /\ s \in Pids /\ Child(s) \in Pids
         /\ \A t \in Terms : t # s => {t, Child(t)} \cap {s, Child(s)} = {}
<1>1. NUM_TERMS \in Nat /\ s \in 0 .. NUM_TERMS - 1
  BY RtcAssumption DEF Terms
<1>2. s \in Pids /\ Child(s) \in Pids
  BY <1>1 DEF Pids, Child
<1>3. \A t \in 0 .. NUM_TERMS - 1 :
        t # s => t # s + NUM_TERMS /\ t + NUM_TERMS # s /\ t + NUM_TERMS # s + NUM_TERMS
  BY <1>1
<1> QED  BY <1>2, <1>3 DEF Terms, Child

\* The steps of a program change its own rate and its own wait only.
LEMMA RateStep ==
  ASSUME RtcStrong, NEW rate \in Rates, set_rate(rate)
  PROVE  RtcStrong'
<1>0. /\ process_rtc' = [process_rtc EXCEPT ![active_pid[ta]] = rate]
      /\ UNCHANGED <<ta, active_pid, terminal_rtc_count, terminal_rtc_wait, reading, waited>>
      /\ ~ reading[ta] /\ RtcTypeOK /\ OwnPid /\ RatesUsed /\ CountsTheWait
  BY DEF set_rate, Ready, RtcStrong
<1>1. RtcTypeOK' /\ RatesUsed'
  BY <1>0, PeriodType DEF RtcTypeOK, RatesUsed
<1>2. \A t \in Terms : t # ta => rate_of(t)' = rate_of(t)
  <2> SUFFICES ASSUME NEW t \in Terms, t # ta PROVE active_pid[t] # active_pid[ta]
    BY <1>0 DEF rate_of, RtcTypeOK
  <2> QED  BY <1>0, ChildIs DEF OwnPid, RtcTypeOK
<1>3. CountsTheWait'
  BY <1>0, <1>2 DEF CountsTheWait
<1> QED  BY <1>0, <1>1, <1>3 DEF RtcStrong, OwnPid

\* A program waits, is woken, and runs a child or returns to its parent.
LEMMA ProgramStep ==
  ASSUME RtcStrong, rtc_read \/ rtc_read_done \/ sys_execute \/ halt_helper
  PROVE  RtcStrong'
<1>0. /\ UNCHANGED <<ta, terminal_rtc_count>> /\ RtcTypeOK /\ OwnPid /\ RatesUsed /\ CountsTheWait
      /\ ta \in Terms /\ Child(ta) \in Pids /\ ta \in Pids
  BY ChildIs DEF rtc_read, rtc_read_done, sys_execute, halt_helper, RtcStrong, RtcTypeOK
<1>1. CASE rtc_read
  <2>1. /\ reading' = [reading EXCEPT ![ta] = TRUE]
        /\ terminal_rtc_wait' = [terminal_rtc_wait EXCEPT ![ta] = 1]
        /\ waited' = [waited EXCEPT ![ta] = 0]
        /\ UNCHANGED <<active_pid, process_rtc>>
    BY <1>1 DEF rtc_read
  <2>2. RtcTypeOK' /\ OwnPid' /\ RatesUsed'
    BY <1>0, <2>1 DEF RtcTypeOK, OwnPid, RatesUsed
  <2>3. \A t \in Terms : rate_of(t)' = rate_of(t) /\ 0 <= terminal_rtc_count[t] % Period(rate_of(t))
    <3> TAKE t \in Terms
    <3>1. Period(rate_of(t)) \in Nat \ {0}
      BY <1>0, PeriodType DEF RatesUsed, rate_of, RtcTypeOK
    <3>2. terminal_rtc_count[t] \in Int
      BY <1>0, RtcAssumption DEF RtcTypeOK
    <3>3. rate_of(t)' = rate_of(t)
      BY <2>1 DEF rate_of
    <3> QED  BY <3>1, <3>2, <3>3
  <2>4. CountsTheWait'
    BY <1>0, <2>1, <2>3 DEF CountsTheWait, RtcTypeOK
  <2> QED  BY <2>2, <2>4 DEF RtcStrong
<1>2. CASE rtc_read_done
  <2>1. /\ reading' = [reading EXCEPT ![ta] = FALSE]
        /\ waited' = [waited EXCEPT ![ta] = 0]
        /\ UNCHANGED <<active_pid, process_rtc, terminal_rtc_wait>>
    BY <1>2 DEF rtc_read_done
  <2>2. RtcTypeOK' /\ OwnPid' /\ RatesUsed'
    BY <1>0, <2>1 DEF RtcTypeOK, OwnPid, RatesUsed
  <2>3. CountsTheWait'
    BY <1>0, <2>1 DEF CountsTheWait, RtcTypeOK, rate_of
  <2> QED  BY <2>2, <2>3 DEF RtcStrong
<1>3. CASE sys_execute \/ halt_helper
  <2>1. /\ ~ reading[ta] /\ UNCHANGED <<terminal_rtc_wait, reading, waited>>
        /\ \/ active_pid' = [active_pid EXCEPT ![ta] = Child(ta)]
           \/ active_pid' = [active_pid EXCEPT ![ta] = ta]
        /\ \/ process_rtc' = process_rtc
           \/ process_rtc' = [process_rtc EXCEPT ![Child(ta)] = MAX_VIR_FREQ]
    BY <1>3 DEF sys_execute, halt_helper, Ready
  <2>2. MAX_VIR_FREQ \in Rates /\ MAX_VIR_FREQ \in MIN_VIR_FREQ .. MAX_VIR_FREQ
    BY RtcAssumption DEF Rates
  <2>3. RtcTypeOK' /\ RatesUsed'
    BY <1>0, <2>1, <2>2 DEF RtcTypeOK, RatesUsed
  <2>4. OwnPid'
    BY <1>0, <2>1 DEF OwnPid, RtcTypeOK
  <2>5. \A t \in Terms : t # ta => rate_of(t)' = rate_of(t)
    <3> SUFFICES ASSUME NEW t \in Terms, t # ta
                 PROVE  active_pid'[t] = active_pid[t] /\ active_pid[t] # Child(ta)
      BY <1>0, <2>1 DEF rate_of, RtcTypeOK
    <3> QED  BY <1>0, <2>1, ChildIs DEF OwnPid, RtcTypeOK
  <2>6. CountsTheWait'
    BY <1>0, <2>1, <2>5 DEF CountsTheWait
  <2> QED  BY <2>3, <2>4, <2>6 DEF RtcStrong
<1> QED  BY <1>1, <1>2, <1>3

\* The invariant is inductive.
LEMMA RtcStep == PeriodsDivide /\ RtcStrong /\ [RtcNext]_rtcvars => RtcStrong'
<1> SUFFICES ASSUME PeriodsDivide, RtcStrong, [RtcNext]_rtcvars PROVE RtcStrong'
  OBVIOUS
<1>1. CASE rtc_handler
  BY <1>1, RtcInterrupt
<1>2. CASE rtc_open \/ rtc_close \/ rtc_write
  BY <1>2, RateStep DEF rtc_open, rtc_close, rtc_write, Rates
<1>3. CASE rtc_read \/ rtc_read_done \/ sys_execute \/ halt_helper
  BY <1>3, ProgramStep
<1>4. CASE pit_handler
  <2>1. ta' \in Terms
    BY <1>4, RtcAssumption DEF pit_handler, RtcStrong, RtcTypeOK, Terms
  <2> QED  BY <1>4, <2>1 DEF pit_handler, RtcStrong, RtcTypeOK, OwnPid, RatesUsed, CountsTheWait, rate_of
<1>5. CASE UNCHANGED rtcvars
  BY <1>5 DEF rtcvars, RtcStrong, RtcTypeOK, OwnPid, RatesUsed, CountsTheWait, rate_of
<1> QED  BY <1>1, <1>2, <1>3, <1>4, <1>5 DEF RtcNext

\* The remainder is smaller than the period.
LEMMA RtcMeans == RtcStrong => RtcInv
<1> SUFFICES ASSUME RtcStrong, NEW t \in Terms, reading[t]
             PROVE  \/ waited[t] < Period(rate_of(t))
                    \/ waited[t] = Period(rate_of(t)) /\ terminal_rtc_wait[t] = 0
  BY DEF RtcInv, RtcStrong, WokenInTime, Period, rate_of
<1>1. Period(rate_of(t)) \in Nat \ {0}
  BY PeriodType DEF RtcStrong, RatesUsed, rate_of, RtcTypeOK
<1>2. terminal_rtc_count[t] \in Int /\ waited[t] \in Nat /\ terminal_rtc_wait[t] \in {0, 1}
  BY RtcAssumption DEF RtcStrong, RtcTypeOK
<1>3. terminal_rtc_count[t] % Period(rate_of(t)) \in 0 .. Period(rate_of(t)) - 1
  BY <1>1, <1>2
<1>4. IF terminal_rtc_wait[t] = 1
        THEN waited[t] <= terminal_rtc_count[t] % Period(rate_of(t))
        ELSE waited[t] <= Period(rate_of(t))
  BY DEF RtcStrong, CountsTheWait
<1> QED  BY <1>1, <1>2, <1>3, <1>4

(***************************************************************************)
(* rtc_read returns after at most one period of the rate its program set,  *)
(* whatever rates the others set, whoever has the CPU when rtc_handler     *)
(* runs, and across the wrap-around of the counter, provided the periods   *)
(* in use divide its range.                                                *)
(***************************************************************************)
THEOREM RtcCorrect ==
  ASSUME PeriodsDivide
  PROVE  RtcSpec => []RtcInv
<1>1. RtcStrong /\ [RtcNext]_rtcvars => RtcStrong'
  BY RtcStep
<1>2. RtcSpec => []RtcStrong
  BY <1>1, RtcStart, PTL DEF RtcSpec
<1> QED  BY <1>2, RtcMeans, PTL
=============================================================================
