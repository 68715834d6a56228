------------------------------- MODULE Files -------------------------------
(***************************************************************************)
(* File descriptors: open, close, read and write on the descriptor tables  *)
(* of the processes, and the two pieces of state behind them that are not  *)
(* in any table, the index of the next directory entry (read_index, one    *)
(* for the whole system) and the RTC rate (process_rtc, one per process).  *)
(*                                                                         *)
(* A system call runs with interrupts enabled.  Everything it touches is   *)
(* the caller's, except read_index: dir_read looks it up and increments it *)
(* in two steps here.  Waiting for a line or for an RTC interrupt is the   *)
(* subject of other modules.                                               *)
(***************************************************************************)
EXTENDS Integers

CONSTANTS
  Procs,          \* process slots
  NUM_MAX_FILES,  \* entries of a descriptor table
  FileLengths,    \* length of each regular file, by name
  NumEntries,     \* boot_block->num_dir_entries
  Counts,         \* byte counts passed to read
  Freqs,          \* frequencies passed to write on the RTC
  WORD            \* 2^32: file_pos is a uint32_t

MIN_FD_INDEX == 2
MIN_VIR_FREQ == 2
MAX_VIR_FREQ == 1024
DirName      == "."
RtcName      == "rtc"
FileNames    == DOMAIN FileLengths

ASSUME FilesAssumption ==
  /\ NUM_MAX_FILES \in Nat /\ NUM_MAX_FILES > MIN_FD_INDEX
  /\ WORD \in Nat \ {0} /\ \A f \in FileNames : FileLengths[f] \in 0 .. WORD - 2
  /\ FileNames \cap {DirName, RtcName} = {}
  /\ NumEntries \in Nat
  /\ Counts \subseteq Int /\ Freqs \subseteq Int

Fds     == 0 .. NUM_MAX_FILES - 1
FdArgs  == -1 .. NUM_MAX_FILES + 1
Unnamed == "none"

Entry(ops, name, pos, flags) ==
  [ops |-> ops, name |-> name, file_pos |-> pos, flags |-> flags]

Entries ==
  [ops : {"stdin", "stdout", "rtc", "dir", "file", "null"},
   name : FileNames \cup {DirName, RtcName, Unnamed},
   file_pos : 0 .. WORD - 1, flags : {0, 1}]

NullEntry == Entry("null", Unnamed, WORD - 1, 0)

VARIABLES
  running,      \* running[p], slot p holds a process
  fdt,          \* the descriptor tables
  read_index,   \* next directory entry, for everybody
  process_rtc,  \* RTC frequency of each slot
  dir_pending,  \* dir_pending[p], the descriptor p is in dir_read for, or -1
  wanted_rate,  \* history: the rate p asked for last, while it has the RTC
  expected,     \* history: next entry or byte each descriptor is owed
  delivered     \* the entry the step just taken delivered, and the one due

fvars == <<running, fdt, read_index, process_rtc, dir_pending, wanted_rate,
           expected, delivered>>

(***************************************************************************)
(* The histories say NoPromise where the code makes none: for directory    *)
(* descriptors that were open together with another one, they share        *)
(* read_index; for a process that has opened the RTC twice, closing one    *)
(* descriptor changes the rate of the other; and for a file after a failed *)
(* read, which moves its position back by one.                             *)
(***************************************************************************)
NoPromise == -1

\* Most steps deliver no directory entry.
Nothing  == [entry |-> 0, due |-> 0]
Quiet    == delivered' = Nothing

FilesTypeOK ==
  /\ running \in [Procs -> BOOLEAN]
  /\ fdt \in [Procs -> [Fds -> Entries]]
  /\ read_index \in 0 .. NumEntries
  /\ process_rtc \in [Procs -> MIN_VIR_FREQ .. MAX_VIR_FREQ]
  /\ dir_pending \in [Procs -> Fds \cup {-1}]
  /\ wanted_rate \in [Procs -> MIN_VIR_FREQ .. MAX_VIR_FREQ \cup {NoPromise}]
  /\ expected \in [Procs -> [Fds -> Int]]

FilesInit ==
  /\ running = [p \in Procs |-> FALSE]
  /\ fdt = [p \in Procs |-> [fd \in Fds |-> Entry("null", Unnamed, 0, 0)]]
  /\ read_index = 0
  /\ process_rtc = [p \in Procs |-> MAX_VIR_FREQ]
  /\ dir_pending = [p \in Procs |-> -1]
  /\ wanted_rate = [p \in Procs |-> MAX_VIR_FREQ]
  /\ expected = [p \in Procs |-> [fd \in Fds |-> 0]]
  /\ delivered = Nothing

\* p is running its program and not inside a system call.
Ready(p) == running[p] /\ dir_pending[p] = -1

-----------------------------------------------------------------------------
\* The table sys_execute gives a new process.
NewTable ==
  [fd \in Fds |-> CASE fd = 0 -> Entry("stdin", Unnamed, 0, 1)
                    [] fd = 1 -> Entry("stdout", Unnamed, 0, 1)
                    [] OTHER  -> NullEntry]

sys_execute(p) ==
  /\ ~ running[p]
  /\ running' = [running EXCEPT ![p] = TRUE]
  /\ fdt' = [fdt EXCEPT ![p] = NewTable]
  /\ Quiet
  /\ UNCHANGED <<read_index, process_rtc, dir_pending, wanted_rate, expected>>

\* Mutant of ClosedAtHalt: the loop of halt_helper ends one short.
ClosedButLast == MIN_FD_INDEX .. NUM_MAX_FILES - 2

\* The descriptors halt_helper passes to sys_close.
ClosedAtHalt == MIN_FD_INDEX .. NUM_MAX_FILES - 1

Open(p, fd)   == fdt[p][fd].flags # 0
HasOpen(p, S, ops) == \E fd \in S : Open(p, fd) /\ fdt[p][fd].ops = ops

\* Mutant of dir_close: the index stays where the listing stopped.
dir_close_keeps(closing) == read_index

\* dir_close and rtc_close, called if the closed descriptor is theirs.
dir_close(closing) == IF closing THEN 0 ELSE read_index

rtc_close(p, closing) ==
  IF closing THEN [process_rtc EXCEPT ![p] = MAX_VIR_FREQ] ELSE process_rtc

(***************************************************************************)
(* halt_helper for a process with a parent: the standard descriptors are   *)
(* zeroed, the others closed while cur_pid still names the process.  One   *)
(* without a parent, a base shell, closes nothing: it is started again and *)
(* gets a new table, and opened nothing in the old one.                    *)
(***************************************************************************)
end_process(p) ==
  /\ running' = [running EXCEPT ![p] = FALSE]
  /\ fdt' = [fdt EXCEPT ![p] = [fd \in Fds |->
               CASE fd < MIN_FD_INDEX -> Entry("null", Unnamed, 0, 0)
                 [] fd \in ClosedAtHalt /\ Open(p, fd) -> NullEntry
                 [] OTHER -> fdt[p][fd]]]
  /\ read_index' = dir_close(HasOpen(p, ClosedAtHalt, "dir"))
  /\ process_rtc' = rtc_close(p, HasOpen(p, ClosedAtHalt, "rtc"))
  /\ wanted_rate' = [wanted_rate EXCEPT ![p] = MAX_VIR_FREQ]
  /\ expected' = [expected EXCEPT ![p] = [fd \in Fds |-> 0]]
  /\ UNCHANGED dir_pending

halt_helper(p) == Ready(p) /\ end_process(p) /\ Quiet

-----------------------------------------------------------------------------
\* The first free descriptor from MIN_FD_INDEX on.
FirstFree(p, fd) ==
  /\ fd \in MIN_FD_INDEX .. NUM_MAX_FILES - 1
  /\ ~ Open(p, fd)
  /\ \A e \in MIN_FD_INDEX .. fd - 1 : Open(p, e)

DirInUse == \E p \in Procs : HasOpen(p, Fds, "dir")

\* The histories when p opens name as fd.
expect_from_start(p, fd, name) ==
  LET shared == name = DirName /\ DirInUse
      opened == [expected EXCEPT ![p][fd] = IF shared THEN NoPromise ELSE 0]
      IsDir(q, e) == Open(q, e) /\ fdt[q][e].ops = "dir" IN
  expected' = [q \in Procs |-> [e \in Fds |->
                 IF shared /\ IsDir(q, e) THEN NoPromise ELSE opened[q][e]]]

want_lowest_rate(p, name) ==
  wanted_rate' = IF name # RtcName THEN wanted_rate ELSE
    [wanted_rate EXCEPT ![p] = IF HasOpen(p, Fds, "rtc") THEN NoPromise
                                                         ELSE MIN_VIR_FREQ]

OpsFor(name) ==
  CASE name = RtcName -> "rtc" [] name = DirName -> "dir" [] OTHER -> "file"

\* Mutant of rtc_open: the rate of the last user of the slot stays.
rtc_open_keeps(p, opening) == process_rtc

rtc_open(p, opening) ==
  IF opening THEN [process_rtc EXCEPT ![p] = MIN_VIR_FREQ] ELSE process_rtc

\* rtc_open is called, dir_open and file_open are not.
sys_open(p, name) ==
  /\ Ready(p)
  /\ \E fd \in Fds :
       /\ FirstFree(p, fd)
       /\ fdt' = [fdt EXCEPT ![p][fd] = Entry(OpsFor(name), name, 0, 1)]
       /\ expect_from_start(p, fd, name)
  /\ process_rtc' = rtc_open(p, name = RtcName)
  /\ want_lowest_rate(p, name)
  /\ Quiet
  /\ UNCHANGED <<running, read_index, dir_pending>>

\* An unknown name, or a full table.
sys_open_refused(p) ==
  /\ Ready(p)
  /\ Quiet
  /\ UNCHANGED <<running, fdt, read_index, process_rtc, dir_pending,
                 wanted_rate, expected>>

Closable(p) == {fd \in MIN_FD_INDEX .. NUM_MAX_FILES - 1 : Open(p, fd)}

sys_close(p, fd) ==
  /\ Ready(p)
  /\ fd \in Closable(p)
  /\ read_index' = dir_close(fdt[p][fd].ops = "dir")
  /\ process_rtc' = rtc_close(p, fdt[p][fd].ops = "rtc")
  /\ fdt' = [fdt EXCEPT ![p][fd] = NullEntry]
  /\ wanted_rate' = IF HasOpen(p, Fds \ {fd}, "rtc")
                      THEN wanted_rate
                      ELSE [wanted_rate EXCEPT ![p] = MAX_VIR_FREQ]
  /\ expected' = [expected EXCEPT ![p][fd] = 0]
  /\ Quiet
  /\ UNCHANGED <<running, dir_pending>>

-----------------------------------------------------------------------------
\* The test sys_read and sys_write make: it lets NUM_MAX_FILES pass.
Rejected(p, fd) ==
  \/ fd < 0
  \/ fd > NUM_MAX_FILES
  \/ fd \in Fds /\ ~ Open(p, fd)

\* sys_read, sys_write and sys_close without effect.
refuse(p, call, fd) ==
  /\ Ready(p)
  /\ \/ call \in {"read", "write"} /\ Rejected(p, fd)
     \/ call = "close" /\ fd \notin Closable(p)
  /\ Quiet
  /\ UNCHANGED <<running, fdt, read_index, process_rtc, dir_pending,
                 wanted_rate, expected>>

(***************************************************************************)
(* Entry NUM_MAX_FILES of a table is the part of the PCB behind it:        *)
(* parent_pid as the operations table and cur_ebp, which is not zero, as   *)
(* the flags.  The call through it faults, and the process is halted.      *)
(***************************************************************************)
past_the_table(p) == Ready(p) /\ end_process(p) /\ Quiet

\* Mutant of Advanced: a read does not stop at the end of the file.
AdvancedByCount(pos, n, got) == (pos + n) % WORD

\* cur_fd->file_pos += bytes_read, whatever bytes_read is.
Advanced(pos, n, got) == (pos + got) % WORD

\* What read_data returns for n bytes of the file from pos on.
read_data(name, pos, n) ==
  IF pos > FileLengths[name] THEN -1
  ELSE IF pos + n <= FileLengths[name] THEN n ELSE FileLengths[name] - pos

file_read(name, pos, n) == IF n < 0 THEN -1 ELSE read_data(name, pos, n)

read_file(p, fd, n) ==
  LET e == fdt[p][fd]
      got == file_read(e.name, e.file_pos, n) IN
  /\ Ready(p)
  /\ Open(p, fd) /\ e.ops = "file"
  /\ fdt' = [fdt EXCEPT ![p][fd].file_pos = Advanced(e.file_pos, n, got)]
  /\ expected' = [expected EXCEPT ![p][fd] =
                    IF got < 0 \/ @ = NoPromise THEN NoPromise ELSE @ + got]
  /\ Quiet
  /\ UNCHANGED <<running, read_index, process_rtc, dir_pending, wanted_rate>>

(***************************************************************************)
(* dir_read: the entry is looked up and copied, and read_index incremented *)
(* later.  Past the last entry it returns 0 without incrementing.  The     *)
(* position of a directory descriptor is never looked at, and not kept.    *)
(***************************************************************************)
dir_read(p, fd) ==
  /\ Ready(p)
  /\ Open(p, fd) /\ fdt[p][fd].ops = "dir"
  /\ delivered' = [entry |-> read_index, due |-> expected[p][fd]]
  /\ IF read_index < NumEntries
       THEN /\ dir_pending' = [dir_pending EXCEPT ![p] = fd]
            /\ expected' = [expected EXCEPT ![p][fd] =
                              IF @ \in 0 .. NumEntries - 1 THEN @ + 1 ELSE @]
       ELSE UNCHANGED <<dir_pending, expected>>
  /\ UNCHANGED <<running, fdt, read_index, process_rtc, wanted_rate>>

\* read_index is a uint32_t; past NumEntries all its values act alike.
dir_read_done(p) ==
  /\ dir_pending[p] # -1
  /\ read_index' = IF read_index < NumEntries THEN read_index + 1 ELSE read_index
  /\ dir_pending' = [dir_pending EXCEPT ![p] = -1]
  /\ Quiet
  /\ UNCHANGED <<running, fdt, process_rtc, wanted_rate, expected>>

ValidFreq(freq) == freq >= MIN_VIR_FREQ /\ freq <= MAX_VIR_FREQ

rtc_write(p, fd, freq) ==
  /\ Ready(p)
  /\ Open(p, fd) /\ fdt[p][fd].ops = "rtc"
  /\ IF ValidFreq(freq)
       THEN /\ process_rtc' = [process_rtc EXCEPT ![p] = freq]
            /\ wanted_rate' = [wanted_rate EXCEPT ![p] =
                                  IF @ = NoPromise THEN NoPromise ELSE freq]
       ELSE UNCHANGED <<process_rtc, wanted_rate>>
  /\ Quiet
  /\ UNCHANGED <<running, fdt, read_index, dir_pending, expected>>

\* The operations that only fail: invalid_read_write, file_write, dir_write.
\* sys_read takes 1 from a position nobody looks at, which is not kept.
invalid_read_write(p, call, fd) ==
  /\ Ready(p)
  /\ Open(p, fd)
  /\ \/ call = "read" /\ fdt[p][fd].ops = "stdout"
     \/ call = "write" /\ fdt[p][fd].ops \in {"stdin", "file", "dir"}
  /\ Quiet
  /\ UNCHANGED <<running, fdt, read_index, process_rtc, dir_pending,
                 wanted_rate, expected>>

Calls(p) ==
  \/ sys_execute(p)
  \/ halt_helper(p)
  \/ \E name \in FileNames \cup {DirName, RtcName} : sys_open(p, name)
  \/ sys_open_refused(p)
  \/ \E fd \in Fds : sys_close(p, fd)
  \/ \E call \in {"read", "write", "close"}, fd \in FdArgs : refuse(p, call, fd)
  \/ past_the_table(p)
  \/ \E fd \in Fds, n \in Counts : read_file(p, fd, n)
  \/ \E fd \in Fds : dir_read(p, fd)
  \/ dir_read_done(p)
  \/ \E fd \in Fds, freq \in Freqs : rtc_write(p, fd, freq)
  \/ \E call \in {"read", "write"}, fd \in Fds : invalid_read_write(p, call, fd)

FilesNext == \E p \in Procs : Calls(p)

FilesSpec == FilesInit /\ [][FilesNext]_fvars

-----------------------------------------------------------------------------
(***************************************************************************)
(* A process leaves nothing behind in its slot, however it ends: all       *)
(* descriptors are closed and the RTC rate is back at its default, so the  *)
(* next program that gets the pid starts like the first.                   *)
(***************************************************************************)
CleanSlot ==
  \A p \in Procs : ~ running[p] =>
    /\ \A fd \in Fds : ~ Open(p, fd)
    /\ process_rtc[p] = MAX_VIR_FREQ

(***************************************************************************)
(* The two together: indices and rates stay in range whatever programs ask *)
(* for, and a free slot keeps nothing of its last owner.                   *)
(***************************************************************************)
FilesInv == FilesTypeOK /\ CleanSlot

(***************************************************************************)
(* The next read of a file continues where the last one ended and never    *)
(* past the end, whatever else the process and the others open, read and   *)
(* close, until a read of the descriptor fails.                            *)
(***************************************************************************)
PositionInFile ==
  \A p \in Procs, fd \in Fds :
    LET e == fdt[p][fd] IN
    Open(p, fd) /\ e.ops = "file" /\ expected[p][fd] # NoPromise =>
      /\ e.file_pos = expected[p][fd]
      /\ e.file_pos <= FileLengths[e.name]

(***************************************************************************)
(* Reading a directory that nobody else has open delivers its entries one  *)
(* after the other from the first on, then nothing, wherever the listings  *)
(* before it stopped.                                                      *)
(***************************************************************************)
ListsInOrder ==
  delivered.due # NoPromise => delivered.entry = delivered.due

(***************************************************************************)
(* While a process has the RTC open once, it runs at the rate set by its   *)
(* last open or write.                                                     *)
(***************************************************************************)
RtcAtWantedRate ==
  \A p \in Procs :
    HasOpen(p, Fds, "rtc") /\ wanted_rate[p] # NoPromise =>
      process_rtc[p] = wanted_rate[p]
=============================================================================
