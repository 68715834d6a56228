-------------------------------- MODULE Fish --------------------------------
(***************************************************************************)
(* The program fish, run from the shell beside the others: it reads two    *)
(* frames, two text files, makes a blinking character of every two         *)
(* characters in the same place, and lets them blink.  Then it adds one    *)
(* more, synchronises it with the first and removes it; that is one of     *)
(* the Scripts, the others are what another user of blink.S might ask for. *)
(***************************************************************************)
EXTENDS Programs, Blink

Sets == INSTANCE FiniteSets

CONSTANTS
  RtcName,      \* "rtc"
  Frames,       \* the names of the two frames
  Width,        \* characters of a line of the screen
  Offset,       \* where the picture starts in a line
  FrameLength,  \* ticks for which each frame shows
  Scripts,      \* what may be asked of mp1_ioctl afterwards
  WAIT          \* ticks between two changes

FISH == "fish"

Codes == {CAT, LS, GREP, COUNTER, SIGTEST, OWN, FISH}

\* The file starts with the magic characters.
HasMagic(d, n) ==
  /\ inode(n).length >= ELF_SIZE
  /\ \A k \in 1 .. ELF_SIZE : d[Contents(n)[k]] = ELF[k]

\* What may be asked of mp1_ioctl: places on the screen other than 0,
\* and times that fit.
Requests ==
  [op : {"add"}, location : Cells \ {0}, on : Times, off : Times]
    \cup [op : {"sync", "remove"}, location : Cells \ {0}]

(***************************************************************************)
(* The frames are files, and every executable of the image is one of the   *)
(* programs.                                                               *)
(***************************************************************************)
ASSUME FishAssumption ==
  /\ {Width, Offset, WAIT} \subseteq Nat \ {0} /\ FrameLength \in Times
  /\ Frames \in Seq(Seq(Letters) \ {DirName}) /\ Len(Frames) = 2
  /\ \A d \in Disks, n \in 0 .. NumInodes - 1 :
       HasMagic(d, n) =>
         inode(n).length > ELF_SIZE /\ d[Contents(n)[ELF_SIZE + 1]] \in Codes
  /\ \E e \in DOMAIN Directory : Directory[e] = RtcName /\ Types[e] = RTC_TYPE
  /\ Scripts \subseteq Seq(Requests)

fishvars == <<vars, bvars>>

\* A step of fish that leaves what blinks alone.
Still == UNCHANGED bvars

\* main does not look at whether the RTC could be opened; there is one, and a
\* new program has descriptors left.
fish_open_rtc ==
  /\ at = FISH /\ sys_open(RtcName) /\ GoTo("fish_open1")
  /\ StoresNothing /\ Still /\ UNCHANGED <<session, out>>
  /\ frame' = [rtc |-> fd']

fish_open1 ==
  /\ at = "fish_open1" /\ OpenOr(Frames[1], "fish_open2", 255) /\ Still
  /\ frame' = [rtc |-> frame.rtc, fds |-> <<fd'>>]

\* c holds the last character of each frame, at first one that is no newline.
fish_open2 ==
  /\ at = "fish_open2" /\ OpenOr(Frames[2], "fish_read", 255) /\ Still
  /\ frame' = [rtc |-> frame.rtc, fds |-> Append(frame.fds, fd'), f |-> 1,
               c |-> <<"0", "0">>, eof |-> <<FALSE, FALSE>>, row |-> 0, col |-> 0]

\* The next character of frame f, unless its line has ended.
fish_read ==
  /\ at = "fish_read" /\ frame.c[frame.f] # NEWLINE /\ Still
  /\ ReadThen(frame.fds[frame.f], "c", 1, "fish_got")
  /\ UNCHANGED frame

NextPlace == IF frame.f = 1 THEN "fish_read" ELSE "fish_pair"

fish_skip ==
  /\ at = "fish_read" /\ frame.c[frame.f] = NEWLINE /\ Still
  /\ Idle /\ StoresNothing /\ UNCHANGED out
  /\ frame' = [frame EXCEPT !.f = 3 - @]
  /\ GoTo(NextPlace)

\* The end of the file counts as a newline.
read_of(c) == IF c = << >> THEN NEWLINE ELSE c[1]

fish_got ==
  /\ at = "fish_got" /\ Idle /\ Still /\ StoresNothing /\ UNCHANGED out
  /\ frame' = [frame EXCEPT !.c[frame.f] = read_of(got),
                            !.eof[frame.f] = @ \/ got = << >>,
                            !.f = 3 - @]
  /\ GoTo(NextPlace)

OrSpace(c) == IF c = NEWLINE THEN SPACE ELSE c

\* Mutant of Blank: one blank is enough.
Blank_either(c) == \E f \in 1 .. 2 : c[f] \in {SPACE, NEWLINE}

Blank(c) == \A f \in 1 .. 2 : c[f] \in {SPACE, NEWLINE}

\* The two characters blink in their place, unless both are blank.
fish_pair ==
  /\ at = "fish_pair" /\ frame.c # <<NEWLINE, NEWLINE>>
  /\ Idle /\ StoresNothing /\ UNCHANGED out
  /\ IF Blank(frame.c) THEN Still
     ELSE mp1_ioctl_add(Blinking(frame.row * Width + frame.col + Offset,
                                 OrSpace(frame.c[1]), OrSpace(frame.c[2]),
                                 FrameLength, FrameLength))
  /\ frame' = [frame EXCEPT !.col = @ + 1]
  /\ GoTo("fish_read")

\* Both lines have ended.  A frame that has ended is closed; that fails when
\* it was closed on an earlier line.
fish_row ==
  /\ at = "fish_pair" /\ frame.c = <<NEWLINE, NEWLINE>> /\ pc = "idle"
  /\ fdt' = [d \in Fds |-> IF \E f \in 1 .. 2 : frame.eof[f] /\ frame.fds[f] = d
                             THEN Closed ELSE fdt[d]]
  /\ IF frame.eof = <<TRUE, TRUE>>
       THEN /\ \E script \in Scripts :
                 frame' = [rtc |-> frame.rtc, script |-> script, waited |-> 0]
            /\ GoTo("fish_wait")
       ELSE /\ frame' = [frame EXCEPT !.row = @ + 1, !.col = 0,
                           !.c = [f \in 1 .. 2 |-> IF frame.eof[f] THEN NEWLINE ELSE "0"]]
            /\ GoTo("fish_read")
  /\ StoresNothing /\ Still
  /\ UNCHANGED <<session, read_index, fd, reading, got, fsvars, out>>

\* One interrupt of the RTC that main has waited for.
fish_tick ==
  /\ at = "fish_wait" /\ frame.waited < WAIT
  /\ Idle /\ StoresNothing /\ UNCHANGED <<at, rval, out>>
  /\ mp1_rtc_tasklet
  /\ frame' = [frame EXCEPT !.waited = @ + 1]

\* Add a character with its lengths, synchronise one with the first, or
\* remove one.
fish_ioctl ==
  /\ at = "fish_wait" /\ frame.waited = WAIT /\ frame.script # << >>
  /\ Idle /\ StoresNothing /\ UNCHANGED <<at, rval, out>>
  /\ LET r == frame.script[1] IN
       CASE r.op = "add"    -> mp1_ioctl_add(Blinking(r.location, "I", "M", r.on, r.off))
         [] r.op = "sync"   -> mp1_ioctl_sync(Offset, r.location)
         [] r.op = "remove" -> mp1_ioctl_remove(r.location)
  /\ frame' = [frame EXCEPT !.script = Tail(@), !.waited = 0]

fish_end ==
  /\ at = "fish_wait" /\ frame.waited = WAIT /\ frame.script = << >> /\ pc = "idle"
  /\ sys_close(frame.rtc) /\ return(0)
  /\ StoresNothing /\ Still
  /\ UNCHANGED <<session, out, frame>>

fish ==
  \/ fish_open_rtc \/ fish_open1 \/ fish_open2
  \/ fish_read \/ fish_skip \/ fish_got \/ fish_pair \/ fish_row
  \/ fish_tick \/ fish_ioctl \/ fish_end

-----------------------------------------------------------------------------
\* The memory of fish is gone when the next command is typed.
forget ==
  /\ blink_array' = [s \in Slots |-> Zeroed]
  /\ next' = [s \in DOMAIN next |-> NULL]
  /\ mp1_list_head' = NULL /\ vmem' = [c \in Cells |-> SPACE]
  /\ ticks' = 0 /\ in_step' = {} /\ disturbed' = {}

FishInit == ProgramsInit /\ BlinkInit

FishRunning ==
  \/ Progress /\ Still
  \/ shell_reports /\ forget
  \/ fish

FishNext == (TypesLine /\ Still) \/ FishRunning

\* Whoever has the terminal gets the CPU again; the user may stay away.
FishSpec == FishInit /\ [][FishNext]_fishvars /\ WF_fishvars(FishRunning)

-----------------------------------------------------------------------------
FrameText(f) ==
  Text(EntryInodes[CHOOSE e \in DOMAIN Directory : Directory[e] = Frames[f]])

\* The character of frame f in a row and column, blank beyond its lines.
FrameChar(f, row, col) ==
  LET t     == FrameText(f)
      start == {k \in LineStarts(t) :
                  Sets!Cardinality({j \in LineStarts(t) : j < k}) = row}
      text  == IF start = {} THEN << >> ELSE LineAt(t, CHOOSE k \in start : TRUE)
  IN IF col < Len(text) THEN text[col + 1] ELSE SPACE

Picture ==
  LET Lengths == 0 .. Len(FrameText(1)) + Len(FrameText(2)) IN
  {p \in {<<row * Width + col + Offset, FrameChar(1, row, col), FrameChar(2, row, col)>> :
            row \in Lengths, col \in Lengths} :
     p[1] < NumCells /\ <<p[2], p[3]>> # <<SPACE, SPACE>>}

(***************************************************************************)
(* When the frames have been read, every place where one of them has a     *)
(* character alternates between their characters in that place, a blank    *)
(* where a line or a frame is shorter than the other's, and no other place *)
(* does; if blink_array has room for all.                                  *)
(***************************************************************************)
ShowsPicture ==
  at = "fish_wait" /\ ticks = 0 =>
    LET shown == {<<blink_array[s].location, blink_array[s].on_char,
                    blink_array[s].off_char>> : s \in Listed}
    IN shown = Picture \/ Sets!Cardinality(Picture) > NumSlots
=============================================================================
