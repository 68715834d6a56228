------------------------------ MODULE Programs ------------------------------
(***************************************************************************)
(* The user programs cat, ls, grep, counter and sigtest, run from the      *)
(* shell.  A program goes from one system call to the next; at names the   *)
(* place.  A program of the user's own stands for every other use of the   *)
(* file system.                                                            *)
(***************************************************************************)
EXTENDS Commands

Seqs == INSTANCE SequencesExt

CONSTANTS
  Maxima,  \* how far counter counts, for the choices it offers
  RADIX    \* the base it counts in

ASSUME ProgramsAssumption ==
  /\ RADIX \in Nat /\ RADIX > 1
  /\ \A c \in DOMAIN Maxima : Maxima[c] \in Nat

\* A program's image is named by the place where its code starts.
CAT     == "cat"
LS      == "ls"
GREP    == "grep"
COUNTER == "counter"
SIGTEST == "sigtest"
OWN     == "own"

VARIABLE frame  \* local variables of the program

NoFrame == << >>

vars == <<cvars, frame>>

GoTo(place) == at' = place /\ UNCHANGED rval

\* A step that opens d and goes on, or gives up.
OpenOr(fname, place, status) ==
  /\ sys_open(fname) /\ StoresNothing
  /\ IF fd' = -1 THEN return(status) ELSE GoTo(place)
  /\ UNCHANGED <<session, out>>

ReadThen(d, array, count, place) ==
  /\ sys_read(d, array, count)
  /\ GoTo(place)
  /\ UNCHANGED <<session, out>>

\* A step on the program's own memory, and what it writes.
Idle == pc = "idle" /\ UNCHANGED <<session, files, fsvars>>

ArgsOr(array, place, status) ==
  /\ Idle /\ UNCHANGED out
  /\ IF GetArgsFails(Size[array])
       THEN return(status) /\ StoresNothing
       ELSE GoTo(place) /\ Stores(array, Len(cmd_args))

-----------------------------------------------------------------------------
cat_args == at = CAT /\ ArgsOr("cat_buf", "cat_open", 3) /\ UNCHANGED frame
cat_open == at = "cat_open" /\ OpenOr(cmd_args, "cat_read", 2) /\ UNCHANGED frame
cat_read ==
  at = "cat_read" /\ ReadThen(fd, "cat_buf", CatBuf, "cat_write") /\ UNCHANGED frame

cat_write ==
  /\ at = "cat_write" /\ Idle
  /\ IF got = << >> THEN return(0) /\ StoresNothing
     ELSE GoTo("cat_read") /\ Stores("cat_buf", Len(got) - 1)
  /\ out' = out \o got
  /\ UNCHANGED frame

cat == cat_args \/ cat_open \/ cat_read \/ cat_write

ls_open == at = LS /\ OpenOr(DirName, "ls_read", 2) /\ UNCHANGED frame
ls_read ==
  at = "ls_read" /\ ReadThen(fd, "name_buf", SBUFSIZE - 1, "ls_write") /\ UNCHANGED frame

ls_line(name) == Append(name, NEWLINE)

ls_write ==
  /\ at = "ls_write" /\ Idle
  /\ IF got = << >> THEN return(0) /\ StoresNothing /\ UNCHANGED out
     ELSE /\ GoTo("ls_read") /\ Stores("name_buf", Len(got))
          /\ out' = out \o ls_line(got)
  /\ UNCHANGED frame

ls == ls_open \/ ls_read \/ ls_write

-----------------------------------------------------------------------------
(***************************************************************************)
(* grep: main goes through the directory, do_one_file through a file,      *)
(* with the start of an unfinished line moved to the front of data before  *)
(* the rest of it is read.                                                 *)
(***************************************************************************)
grep_args == at = GREP /\ ArgsOr("search", "grep_dir", 3) /\ UNCHANGED frame
grep_dir ==
  /\ at = "grep_dir" /\ OpenOr(DirName, "grep_next", 2)
  /\ frame' = [dir |-> fd', split |-> FALSE]

grep_next ==
  /\ at = "grep_next" /\ ReadThen(frame.dir, "name_buf", SBUFSIZE - 1, "grep_name")
  /\ UNCHANGED frame

\* Names that start with a dot are directories to grep.
grep_name ==
  /\ at = "grep_name" /\ Idle /\ UNCHANGED out
  /\ \/ got = << >> /\ return(0) /\ StoresNothing /\ UNCHANGED frame
     \/ got # << >> /\ got[1] = "." /\ GoTo("grep_next")
        /\ StoresNothing /\ UNCHANGED frame
     \/ got # << >> /\ got[1] # "." /\ GoTo("grep_open")
        /\ Stores("name_buf", Len(got))
        /\ frame' = [dir |-> frame.dir, split |-> frame.split, fname |-> got]

(***************************************************************************)
(* data is on the stack and never initialised: its elements, and the last  *)
(* one, past what is read into it, hold anything; what matters is whether  *)
(* that is a newline.  frame.split records that the last one has been one. *)
(***************************************************************************)
Uninitialised ==
  {[k \in 0 .. GrepBuf |-> IF k = GrepBuf THEN last ELSE first] :
     first \in {NEWLINE, "junk"}, last \in {NEWLINE, "junk"}}

grep_open ==
  /\ at = "grep_open" /\ OpenOr(frame.fname, "grep_read", 3)
  /\ \E data \in Uninitialised :
       frame' = [dir |-> frame.dir, fname |-> frame.fname, data |-> data,
                 last |-> 0, cnt |-> 0, line_start |-> 0,
                 split |-> frame.split \/ data[GrepBuf] = NEWLINE]

grep_read ==
  /\ at = "grep_read"
  /\ ReadThen(fd, "data", GrepBuf - frame.last, "grep_got")
  /\ UNCHANGED frame

grep_got ==
  /\ at = "grep_got" /\ Idle /\ GoTo("grep_line") /\ UNCHANGED out
  /\ Stores("data", frame.last + Len(got) - 1)
  /\ frame' =
       [frame EXCEPT !.data = [k \in DOMAIN @ |->
                                 IF k \in frame.last .. frame.last + Len(got) - 1
                                   THEN got[k - frame.last + 1] ELSE @[k]],
                     !.last = @ + Len(got), !.cnt = Len(got), !.line_start = 0]

IsLineEnd(f, e) ==
  /\ e = f.last \/ f.data[e] = NEWLINE
  /\ \A k \in f.line_start .. e - 1 : f.data[k] # NEWLINE

\* The elements of data from one index up to another.
Part(data, from, to) == [k \in 1 .. to - from |-> data[from + k - 1]]

\* The string that starts at an element of data.
String(data, from) ==
  LET ends == {k \in from .. GrepBuf : data[k] = NUL}
      end  == CHOOSE e \in ends : \A k \in ends : e <= k
  IN Part(data, from, end)

\* ece391_strcpy(data, data + from).
strcpy_down(data, from) ==
  LET s == String(data, from) IN
  [k \in DOMAIN data |-> IF k < Len(s) THEN s[k + 1]
                         ELSE IF k = Len(s) THEN NUL ELSE data[k]]

\* Some suffix of the line starts with what is searched for.
LineMatches(text, search) ==
  \E check \in 0 .. Len(text) - 1 :
    /\ Char(text, check) = search[1]
    /\ strncmp_equal(SubSeq(text, check + 1, Len(text)), search, Len(search))

\* Mutant of IsUnfinished: a line at the front of data is moved as well.
IsUnfinished_any(f, line_end) == f.data[line_end] # NEWLINE /\ f.cnt # 0

\* The line goes on past what has been read, and there is room to read more.
IsUnfinished(f, line_end) ==
  f.data[line_end] # NEWLINE /\ f.cnt # 0 /\ f.line_start # 0

\* The line that is complete up to line_end is searched, and printed if it
\* matches; the last one in data makes room for the next read.
search_line(line_end) ==
  \E ended \in {[frame.data EXCEPT ![line_end] = NUL]} :
    /\ out' = IF LineMatches(Part(ended, frame.line_start, line_end), cmd_args)
                THEN Append(out, <<frame.fname, String(ended, frame.line_start)>>)
                ELSE out
    /\ frame' = [frame EXCEPT !.data = ended, !.line_start = line_end + 1,
                              !.last = IF line_end + 1 >= @ THEN 0 ELSE @]
    /\ GoTo(CASE frame'.last # 0 -> "grep_line"
              [] frame.cnt = 0   -> "grep_close"
              [] OTHER           -> "grep_read")

move_line(line_end) ==
  /\ frame' = [frame EXCEPT !.data = strcpy_down([@ EXCEPT ![line_end] = NUL],
                                                 frame.line_start),
                            !.last = @ - frame.line_start]
  /\ GoTo(IF frame.cnt = 0 THEN "grep_close" ELSE "grep_read")
  /\ UNCHANGED out

grep_line ==
  /\ at = "grep_line" /\ Idle
  /\ \E line_end \in frame.line_start .. frame.last :
       /\ IsLineEnd(frame, line_end)
       /\ Stores("data", line_end)
       /\ \/ IsUnfinished(frame, line_end) /\ move_line(line_end)
          \/ ~ IsUnfinished(frame, line_end) /\ search_line(line_end)

grep_close ==
  /\ at = "grep_close" /\ pc = "idle"
  /\ sys_close(fd) /\ GoTo("grep_next") /\ StoresNothing
  /\ frame' = [dir |-> frame.dir, split |-> frame.split]
  /\ UNCHANGED <<session, out>>

grep ==
  \/ grep_args \/ grep_dir \/ grep_next \/ grep_name
  \/ grep_open \/ grep_read \/ grep_got \/ grep_line \/ grep_close

-----------------------------------------------------------------------------
\* counter offers as many choices as it has maxima; Enter alone counts to 0,
\* and anything else is wrong.
counter_choice ==
  /\ at = COUNTER /\ Idle /\ UNCHANGED out /\ StoresNothing
  /\ \/ \E c \in DOMAIN Maxima :
          frame' = [max |-> Maxima[c]] /\ GoTo("counter_loop")
     \/ frame' = [max |-> 0] /\ GoTo("counter_loop")
     \/ return(0) /\ UNCHANGED frame

\* The digits of a number, the lowest place first.
digits[n \in Nat] ==
  IF n = 0 THEN << >> ELSE <<n % RADIX>> \o digits[n \div RADIX]

strrev(s) == [k \in 1 .. Len(s) |-> s[Len(s) + 1 - k]]

itoa(value) == IF value = 0 THEN <<0>> ELSE strrev(digits[value])

counter_loop ==
  /\ at = "counter_loop" /\ Idle /\ StoresNothing
  /\ IF Len(out) < frame.max
       THEN out' = Append(out, itoa(Len(out) + 1)) /\ GoTo("counter_loop")
       ELSE return(0) /\ UNCHANGED out
  /\ UNCHANGED frame

\* sigtest: the kernel installs no handler, so the store through address 0
\* that follows the user's name ends the program.
sigtest_args == at = SIGTEST /\ ArgsOr("sig_buf", "sigtest_name", 3) /\ UNCHANGED frame
sigtest_fault ==
  /\ at = "sigtest_name" /\ Idle /\ StoresNothing
  /\ return(EXCEPTION_HALT)
  /\ UNCHANGED <<out, frame>>

\* A program of the user's own asks for any name or for any part of a file.
own_call ==
  /\ at = OWN
  /\ \/ \E fname \in Names : read_dentry_by_name(fname)
     \/ \E n \in 0 .. NumInodes, offset \in 0 .. MaxOffset, length \in 0 .. MaxLength :
          read_data(n, offset, length)
  /\ GoTo("own_end") /\ StoresNothing
  /\ UNCHANGED <<session, files, out, frame>>

own_end ==
  /\ at = "own_end" /\ Idle /\ return(0) /\ StoresNothing
  /\ UNCHANGED <<out, frame>>

own == own_call \/ own_end

-----------------------------------------------------------------------------
\* What the shell and the kernel do between and below the programs.
kernel ==
  /\ \/ parse_command \/ find_command \/ read_magic \/ check_magic \/ start_program
     \/ copying \/ copied \/ halt
  /\ UNCHANGED frame

shell_reports == report /\ frame' = NoFrame

ProgramsInit == CommandsInit /\ frame = NoFrame

\* Steps that wait for the user to type a line.
TypesLine ==
  \/ read_line /\ UNCHANGED frame
  \/ counter_choice
  \/ sigtest_fault

Progress ==
  \/ kernel
  \/ cat \/ ls \/ grep \/ counter_loop \/ sigtest_args \/ own

-----------------------------------------------------------------------------
(***************************************************************************)
(* Every store the shell, sys_execute, sys_getargs, dir_read and the       *)
(* programs make with a length found at run time is inside its array: the  *)
(* NUL after name and arguments, the NUL that dir_read puts behind the 32  *)
(* characters it stores whatever count it was given, the newline of ls,    *)
(* and the end marks of grep, one past what it reads.  For commands typed  *)
(* at the shell; a longer one would overrun cmd_args in sys_execute.       *)
(***************************************************************************)
StoresInside == \A s \in stored : s[2] < Size[s[1]]

\* The line consists of spaces, a name and, after one more space, rest.
Asks(name, rest) ==
  \E k \in 0 .. Len(line) :
    LET start == [j \in 1 .. k |-> SPACE] \o name IN
    \/ line = start /\ rest = << >>
    \/ line = start \o <<SPACE>> \o rest

IsProgram(e) ==
  LET t == Text(EntryInodes[e]) IN
  Len(t) >= ELF_SIZE /\ SubSeq(t, 1, ELF_SIZE) = ELF

(***************************************************************************)
(* sys_execute starts the program named by the first word of the line, and *)
(* gives it what follows one separator, spaces at either end included; the *)
(* shell says "no such command" only when the first word is not exactly    *)
(* the name of an executable.                                              *)
(***************************************************************************)
RunsWhatWasTyped ==
  /\ at = "load" => Asks(Directory[entry + 1], cmd_args) /\ IsProgram(entry + 1)
  /\ at = "report" /\ rval = -1 =>
       \A e \in DOMAIN Directory, k \in 1 .. Len(line) + 1 :
         Asks(Directory[e], SubSeq(line, k, Len(line))) => ~ IsProgram(e)

\* The program with the given code has come to its end.
Ended(code) ==
  /\ at = "report" /\ rval \notin {-1, FUNNY_NUMBER}
  /\ Text(Inode)[ELF_SIZE + 1] = code

\* What cat shows of an entry: the contents of a file, the names in a directory.
Shown(e) ==
  CASE Types[e] = FILE_TYPE -> Text(EntryInodes[e])
    [] Types[e] = DIR_TYPE  -> Seqs!FlattenSeq(Directory)
    [] Types[e] = RTC_TYPE  -> << >>

(***************************************************************************)
(* cat prints the whole file, in order and once, however many reads and    *)
(* blocks that takes, and ends with 0; 2 and 3 tell that there is no such  *)
(* file and that no argument was given.                                    *)
(***************************************************************************)
CatPrints ==
  Ended(CAT) =>
    \/ cmd_args = << >> /\ rval = 3 /\ out = << >>
    \/ \E e \in DOMAIN Directory :
         Directory[e] = cmd_args /\ rval = 0 /\ out = Shown(e)
    \/ /\ cmd_args # << >> /\ \A e \in DOMAIN Directory : Directory[e] # cmd_args
       /\ rval = 2 /\ out = << >>

(***************************************************************************)
(* ls prints every name of the directory on a line of its own, in order,   *)
(* also a name that fills its field, whatever ran and read the directory   *)
(* before it.                                                              *)
(***************************************************************************)
ListsNames ==
  Ended(LS) =>
    /\ rval = 0
    /\ out = Seqs!FlattenSeq([e \in DOMAIN Directory |-> Append(Directory[e], NEWLINE)])

LineStarts(t) == {k \in 1 .. Len(t) : k = 1 \/ t[k - 1] = NEWLINE}
LineAt(t, k)  ==
  SubSeq(t, k, CHOOSE e \in k - 1 .. Len(t) :
                 /\ e = Len(t) \/ t[e + 1] = NEWLINE
                 /\ \A j \in k .. e : t[j] # NEWLINE)

\* A text file whose lines fit the buffer of grep.
IsText(t) ==
  /\ \A k \in 1 .. Len(t) : t[k] # NUL
  /\ \A k \in LineStarts(t) : Len(LineAt(t, k)) <= GrepBuf

Promised ==
  {e \in DOMAIN Directory :
     /\ Types[e] = FILE_TYPE /\ Directory[e][1] # "."
     /\ IsText(Text(EntryInodes[e]))}

\* The lines of a file that contain the search string, in order.
Hits(e, search) ==
  LET t    == Text(EntryInodes[e])
      hits == {k \in LineStarts(t) :
                 \E j \in 1 .. Len(LineAt(t, k)) - Len(search) + 1 :
                   SubSeq(LineAt(t, k), j, j + Len(search) - 1) = search}
      nth  == Seqs!SetToSortSeq(hits, <)
  IN [j \in DOMAIN nth |-> <<Directory[e], LineAt(t, nth[j])>>]

(***************************************************************************)
(* grep prints the lines with the search string of every text file whose   *)
(* lines fit its buffer, each line whole and once, in order, wherever the  *)
(* reads cut the file, and whatever the buffer held before; except that    *)
(* its last byte, which is looked at before anything is stored there, must *)
(* not hold a newline.                                                     *)
(***************************************************************************)
GrepFinds ==
  Ended(GREP) =>
    IF cmd_args = << >> THEN rval = 3
    ELSE /\ rval = 0
         /\ frame.split
            \/ SelectSeq(out, LAMBDA x : \E e \in Promised : x[1] = Directory[e])
                 = Seqs!FlattenSeq([e \in DOMAIN Directory |->
                                 IF e \in Promised THEN Hits(e, cmd_args) ELSE << >>])

\* The number that a numeral stands for.
Number(s) ==
  LET upto[k \in 0 .. Len(s)] == IF k = 0 THEN 0 ELSE upto[k - 1] * RADIX + s[k]
  IN upto[Len(s)]

(***************************************************************************)
(* The numerals counter prints stand for 1, 2, 3 and so on, without        *)
(* leading zeros, up to the number chosen.                                 *)
(***************************************************************************)
CountsUp ==
  Ended(COUNTER) =>
    /\ Len(out) \in {0} \cup {Maxima[c] : c \in DOMAIN Maxima}
    /\ \A k \in DOMAIN out :
         Number(out[k]) = k /\ out[k][1] # 0

(***************************************************************************)
(* cat, ls and counter print what they are for: the whole of a file, every *)
(* name of the directory, the numbers up to the one chosen.                *)
(***************************************************************************)
PrintsRight == CatPrints /\ ListsNames /\ CountsUp

(***************************************************************************)
(* Every command comes back to the prompt, or waits for the user: the      *)
(* loops of the programs, that of grep over a buffer it refills and        *)
(* shifts, end for every content of the files.                             *)
(***************************************************************************)
AwaitsUser  == at \in {"prompt", COUNTER, "sigtest_name"}
CommandEnds == []<> AwaitsUser
=============================================================================
