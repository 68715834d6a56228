# Verification of the UnixLite kernel

UnixLite is a small Unix-like kernel for one x86 processor (`src/code/`): three
text terminals with a base shell each, up to six processes, round-robin
scheduling, a read-only in-memory file system, a virtualized real-time clock
(RTC) and ten system calls; with it come a shell and user programs. The modules
here model the parts of the kernel that keep state, and the shell and the
programs that do real work with it, check them with TLC on small instances, and
prove most of the safety properties, and four refinements, with TLAPS for all sizes.

## 1. Inventory

| component | state | operations | correct if |
|---|---|---|---|
| processes and scheduling (`system_call.c`, `pit.c`, `processes.h`, `kernel.c`, `idt.c`) | `pid_array`, `cur_pid`, `prev_pid`, PCBs, `ta`, `active_pid`, `terminal_init`, `tss.esp0`, the page of the program image | execute, halt, exceptions, timer tick, end of `entry()` | the table is exactly the processes that run or wait, every flow of control stays on its own kernel stack, every terminal runs again and again |
| line input (`keyboard.c`, `terminal.c`) | `keyboard_buf`, `key_idx`, `terminal_buf[]`, `buf_idx[]` | typing, editing, terminal switch, `terminal_read`, clearing at halt | a read delivers a whole line, typed on the reader's own terminal, and a reader does get it |
| keyboard driver (`keyboard.c`) | one flag per modifier and special key, caps lock, function key | press, release, repeat | no flag sticks, case follows the keys |
| terminal screens (`keyboard.c`, `pit.c`, `lib.c`, `paging.c`, `idt.c`) | the displayed page and one page per terminal, `video_mem`, the page behind vidmap, `ts`, `ta` | printing, writing through vidmap, echo, switch, tick, exception | output goes to the screen of the terminal it belongs to, and no screen is lost |
| console output (`lib.c`, `keyboard.c`, `terminal.c`) | the cells of a screen, `cursor_x`, `cursor_y`, with `keyboard_buf` | `putc`, `put_key`, `remc`, scrolling, clearing, drawing and undrawing the cursor; each key and each output | text is added at its end and not damaged by the blinking cursor; the user sees the line that will be read, and erases nothing else |
| file descriptors (`system_call.c`, `file.c`, `directory.c`, `rtc.c`) | descriptor tables, `read_index`, `process_rtc` | open, close, read, write, and what execute and halt do to the tables | positions, listings and rates are the caller's own, and nothing leaks to the next owner of a pid |
| file system image (`file_system.c`) | the image, which never changes | lookup by name, `read_data` | exact names, right bytes |
| virtual RTC (`rtc.c`) | a rate per pid, a counter and a wait flag per terminal | RTC interrupt, `rtc_read`, setting rates | a reader waits at most one period of its own rate, and returns |
| command line (`ece391shell.c`, `system_call.c`) | the line, `f_cmd`, `cmd_args` of the PCB | reading a line, parsing, look-up, check and loading of `sys_execute`, `sys_getargs`, halt | the program named first runs, with what follows as arguments; no array is overrun |
| interrupt controller and gates (`i8259.c`, `idt.c`, `*_link.S`) | masks, lines in service, the handlers suspended on each kernel stack | set-up, `enable_irq`, `send_eoi`, entry and end of handlers | what was taken is acknowledged, the timer is not disturbed, no line is blocked for good |
| paging set-up, boot | page tables, descriptor tables | straight-line code run once | only the entries that change later are modelled |
| user programs (`src/syscalls`) | buffers, positions in them, descriptors | `cat`, `ls`, `grep`, `counter`, `sigtest` | the right text comes out, for every content of the files, and they end |
| fish (`src/fish`) | `blink_array`, the list through it, the screen | reading two frames; add, remove, sync, and the tasklet of each RTC interrupt | the picture of the frames blinks, each character at its time; the list stays whole |
| tests, emulation on Linux | - | - | not part of the system |

**How the parts meet.** Everything is driven by interrupts on one processor. A
system call runs on the kernel stack of its process with interrupts *enabled*
(trap gates). The timer (`pit_handler`) suspends whatever runs, stores the flow
in the PCB of the active terminal's program and resumes another one. The
keyboard handler edits `keyboard_buf` for the *shown* terminal `ts`, while
`terminal_read` and `putc` work for the *active* terminal `ta`; a terminal
switch swaps both buffers and pages under the feet of all of them. The RTC
handler clears wait flags of all terminals and draws the cursor of the shown
one. Terminals do not otherwise communicate: the shared state is `pid_array`,
`keyboard_buf`, `video_mem`, `read_index` and the cursor.

**What is hard.** Ticks and keys between any two instructions outside
`cli()`/`sti()`; stack switches written in assembly that take the address to
return to from a PCB that may have been reused; pids reused in any order by
three terminals; state of a terminal split into a shared and a put-away copy
that ticks, switches, reads and halts all move; shared indices; the first few
ticks, when shells are started by the timer itself. `PROJECT.json` lists these
hazards line by line with the properties that watch them.

## 2. Modules

Every module describes one component with its own variables, one action per
handler or system call. In the modules of the kernel a program may call anything
at any time; there is no assumption on programs, except where a window (below)
says so. `Fish` extends `Programs`, `Commands` and `FileSystem`: there the programs
are the ones of the repository, on the file system below them.

| module | models | abstract specification |
|---|---|---|
| `Processes` | processes and scheduling | `Sessions`: a stack of processes per terminal |
| `LineInput` | line input | `LineEditors`: a line of its own per terminal |
| `Keys` | keyboard driver | - |
| `Screens` | video pages and the pointers to them | `VirtualScreens`: a screen per terminal |
| `Console` | operations on one screen, character by character | - |
| `Typing` | the screen and the keyboard buffer together | `ScrollingText`: a text that grows at its end |
| `Files` | descriptor tables, directory index, RTC rates | - |
| `FileSystem` | lookup and `read_data` | the reference definitions in its properties |
| `Commands` | the shell, `sys_execute`, `sys_getargs` and the file calls of one program | the reference definitions in `Programs` |
| `Programs` | `cat`, `ls`, `grep`, `counter`, `sigtest`, a program of the user's own | the reference definitions in its properties |
| `Blink` | the list of blinking characters | - |
| `Fish` | the program `fish`; the whole of the above | the picture of its property |
| `Rtc` | virtual RTC | - |
| `Interrupts` | interrupt controllers and nesting of handlers | - |

The `MC*` modules instantiate a component for TLC and hold its refinement
mapping. The theorems are in `Processes_proofs`, `LineInput_proofs`,
`Screens_proofs`, `Typing_proofs` (`Console` too), `Files_proofs`,
`Programs_proofs` (`FileSystem`, `Commands`, `Blink` and `Fish` too), `Devices_proofs` (`Keys`
and `Rtc`) and `Interrupts_proofs`;
a module that proves a refinement extends the `MC*` module with the mapping.

**Processes.** A flow of control is the point of the code it stands at (`boot`,
`user`, `haltret`) and the kernel stack whose frames brought it there. `launch`
is `sys_execute` from the search for a slot to `iret`; `entry`, `halt_base` and
`start_terminal` use it because the code calls `sys_execute` there.
`pcb[p].cur` is `cur_esp`/`cur_ebp`, `pcb[p].ebp` the frame halt returns to.
`esp0` and `image_frame` are hardware state. `switch_to` is the second half of
`pit_handler`. `ret` is what execute hands to its caller.

**LineInput.** Characters are a newline or another one, tagged with the terminal
they were typed on; the tag is only there for `OwnTyping`. `reader[t]` is the
position of the terminal's program in `terminal_read`: the scan for a newline
and the copy are two steps, because the code enables interrupts between them.
Turns of the polling loop that find nothing change nothing and are not steps.
The kernel is compiled without optimization, so each turn reads memory anew.

**Screens.** A page holds its last change: who made it and a version. Page 0 is
what the monitor shows. `handle_exception` clears the monitor whatever terminal
the program belongs to and prints through `video_mem`; the abstract
specification has the same exception. The rest of its message, after the first `sti()` of `putc`, is
steps of `putc`.

**Console and Typing.** Cells of a small screen; the cursor is an underscore in a
cell. `Console` holds the operations of `lib.c` as operators on a screen, `Typing`
the handlers that use them and what they do to `keyboard_buf`. Programs draw on the
page `sys_vidmap` gives them at any moment and any place, as `mp1_poke` of `fish` does,
and leave their picture behind (`vidmap_write`): `Picture` is what they drew,
whatever character it is. The kernel neither looks at it nor protects it, so the
properties are about the text under and around it, and the abstract specification
lets programs draw (`Draw`, and `pictured` for what is left where lines will end). A newline that a
program prints, or ctrl-Enter, does not undraw the cursor: the abstract
specification allows one mark at the end of a finished line. A tab is a loop and
takes a step per space. `apart`, `mixed` and `prompt` are history: they record the
three ways in which buffer and screen part (output into a line being typed, a key
with ctrl that finds the buffer full, an erased Enter) and where output ended.

**Files.** Two process slots. `wanted_rate` and `expected` are history
variables: what the process last asked for. They say `NoPromise` in three
situations where the code interferes with itself: two open directories share
`read_index`, closing one of two RTC descriptors of a process resets the rate of
the other, and a failed read moves the position back by one (from 0 to
2^32 - 1). These calls are all taken in the run. `dir_read` is two steps, since
`read_index` is read, and incremented later, with interrupts enabled. Positions
of descriptors that are not regular files are never looked at and not kept.
Reading or writing descriptor 8, which the range test admits, calls through the
bytes behind the table and halts the process (`past_the_table`).

**FileSystem.** `read_data` is a loop with one step per byte, so that the walk
over `data_blocks` is the code's and is compared with the contents of the file.
A byte is its block and place; `disk` in `Commands` gives it a character.

**Commands.** `at` is where the session is: the shell's prompt, a stage of
`sys_execute` (`parse`, `find`, `magic`, `load`), a place in a program, `halt` or the
shell's report. Each stage calls `FileSystem` for its look-up or bytes. `stored` is
history: the array elements the last step stored to with an index found at run
time, compared with the declared sizes in `Size`. The position in the descriptor
and `read_index` live through a program's calls; the process table is in
`Processes`, so a full one is a choice of `check_magic`. The byte behind the magic
number stands for the program's code.

**Programs.** From system call to system call. `grep` is taken loop round by loop
round, with `data` as an array: `IsLineEnd` is the inner scan, `move_line` and
`search_line` the two branches. `data` starts with arbitrary contents, as it is on
the stack. Messages for the user are left out, what is printed of files and names
is `out`. A program of the user's own makes any look-up and any `read_data`.

**Blink and Fish.** `next` threads the list through `blink_array`; `nth` walks it.
`mp1_rtc_tasklet` is one pass over the list. `born`, `ticks`, `in_step` and
`disturbed` are history; the last one names the elements whose place `mp1_ioctl_sync`
or a second character has drawn over, until they change again. `fish` reads one character of each frame per round and adds one blinking
character per place; then it waits for `WAIT` interrupts before each request of a
script: its own (add, sync, remove), or one that takes the list apart.

**Rtc.** Base programs and children come and go, so that rates of pids and flags
of terminals change independently.

**Keys.** The keys physically held are kept beside the flags of the driver.

**Interrupts.** The other modules take a handler as one step; this one takes it
apart. `frames[t]` are the handlers on the kernel stack of terminal `t`, each at
one of the points between which interrupts change: before `cli()`, after it,
around `send_eoi`, after the last `sti()`. `pit_leave` moves the processor to
another stack, whatever handlers wait there. The gates of `initialize_idt` have
type 15: trap gates, which leave interrupts enabled, although a comment calls
them interrupt gates (`idt.c:56`). The controllers' priorities and the rule that
a request is taken before the next instruction are hardware. Devices are kept to
their timing: `burst` allows a tick only when the running flow has got rid of the
handlers it was resumed with (30 ms against microseconds), one RTC interrupt until
the flow is at rest, and `KeyBurst` scan codes per slice. Nothing else bounds the
nesting; the state space is finite.

### Windows

Some disorders start from moments that are a few instructions wide. A constant
names those moments, so that a run can say whether they are hit:

| constant | window | what TLC finds when it is open |
|---|---|---|
| `Windows` | `"halt"`: a tick between `sti()` in `halt_helper` and its switch of stacks | `RunsOnOwnStack` fails (run `halt_gap_stack`); `ProcessTable` holds (theorem) |
| | `"boot"`: a tick between the last `sti()` of `entry()` and its `sys_execute` | terminal 1 gets the shell with pid 0: `BaseShells` fails |
| | `"init"`: a program executes another before all shells run | it takes a base shell's pid, has no parent: `BaseShells` and `ProcessTable` fail |
| `InputWindows` | `"gap"`: an interrupt between scan and copy of `terminal_read` | `OwnTyping` fails (trace in section 3), and so does `ReadsALine`: the newline may have been erased |
| | `"hidden"`: a program ends on a terminal that is not shown | `NoStuckReader` fails (run `hidden_halt`), `ImplementsLineEditors` with it |
| `ScreenWindows` | `"early"`: the user switches terminals before all shells run | `OwnScreen` fails: pages are copied, `video_mem` stays |

## 3. Runs

| run | bounds | shows |
|---|---|---|
| `processes` | 3 terminals, 6 pids, 2 statuses, no window | `ProcessTable`, `BaseShells`, `RunsOnOwnStack`, `EveryTerminalRuns`, `ImplementsSessions` |
| `processes_all` | 3 terminals, 4 pids, all windows | `TypeOK`, `MappedProcess`: even when boot goes wrong, esp0, image and `cur_pid` belong together |
| `halt_gap_stack` | 3 terminals, 5 pids, `"halt"` | **violated** `RunsOnOwnStack` |
| `line_input` | 2 terminals, buffer of 3, tab of 2, counts 1 and 4 | `InputInv`, `OwnTyping`, `ReadsALine`, `NoStuckReader`, `ImplementsLineEditors` |
| `hidden_halt` | the same with count 4 only, `"hidden"` | **violated** `NoStuckReader` |
| `keys` | 15 keys, at most 4 held | `KeysInv`, `CaseFollowsKeys` |
| `screens` | 3 terminals, 2 versions | `ScreensInv`, `OwnScreen`, `ImplementsVirtualScreens` |
| `typing` | 3 rows of 2 cells, blank and one letter, buffer of 3, tab of 2, at most 1 cell drawn by programs at a time | `ConsoleInv`, `EchoIsBuffer`, `PromptKept`, `ImplementsScrollingText` |
| `files` | 2 slots, 4 descriptors, a file of 2 bytes, 3 directory entries, positions mod 4 | `FilesInv`, `PositionInFile`, `ListsInOrder`, `RtcAtWantedRate` |
| `programs` | all lines of up to 4 characters of 3 letters and space; 10 entries with names of up to 2 letters, blocks of 2 bytes, files of 3, 4, 5 and 7; a text of 5 bytes with every content over a letter and newline; buffers of 3; a screen of 3 rows of 8, 7 blinking characters, 3 scripts | `LookupExact`, `ReadsTheFile`, `StoresInside`, `RunsWhatWasTyped`, `PrintsRight`, `GrepFinds`, `ListSound`, `BlinksInTime`, `ShowsPicture`, `CommandEnds` |
| `rtc` | 2 terminals with 2 pids each, device rate 8, rates 2, 3, 4 and 8, 3-bit counters | `RtcInv`, `ReadsReturn` |
| `interrupts` | 2 terminals, 1 scan code per slice | `InterruptsInv`, `TickUndisturbed`, `EveryIrqServed` |

An invariant called `...Inv` is the type invariant of its module together with the
property that makes an induction out of it: `CleanPastIndex`, `OnlyWhileHeld`,
`AimedAtOwnScreen`, `BlankFromCursor`, `CleanSlot`, `WokenInTime`, `Acknowledged`.
`PrintsRight` is `CatPrints`, `ListsNames` and `CountsUp`; `BlinksInTime` is
`BlinksOnTime` and `InStep`.

**Why these bounds are enough.** Three terminals and six pids are the real
values. In `processes_all` one pid beyond the shells is enough to be reused and
to fill the table during boot. A buffer of three cells has a first, a middle and
a last one; count 4 is larger than the buffer and count 1 shorter than a line;
tabs of two run into the end of the buffer. Two terminals suffice for line input
because a switch and a tick involve two at a time. Four keys allow both shifts,
a modifier and a character together. Three rows of two have a first, a middle and
a last row, and a buffer of three wraps over two of them and scrolls; one drawn
cell (`FewPictures`) may stand anywhere, be scrolled, be erased and drawn again
elsewhere, and the proofs cover any number. Two free
descriptors admit two of a kind. Blocks of two bytes and files of three to seven
have a full, a last and a broken block, and are no multiple of each other. Names
are prefixes of each other and fill their field. Lines of four characters hold a
name and an argument with a space before, between or behind them; they are one
shorter than every array they are copied to, as the code's 128 are. With a buffer of three
bytes a text of five has lines that end before, at and behind the buffer's end, are
as long as it and longer, and need to be moved. Seven places and two frames of
different length fill `blink_array`. The constraint `OneDiskForOwn` runs the user's
own program on one image only: its calls are about bytes, not characters. In `rtc`, rate 3 does
not divide the device rate; the counter wraps within the run. In `interrupts` two
stacks are enough for a handler to be suspended on one while any other runs on
the other; nesting goes nine deep.

**Fairness.** The timer and the RTC interrupt forever and no critical section is
endless, so `pit_handler` and `rtc_handler` are weakly fair; so are `entry` and
the last instructions of `halt_helper`, which nothing can disable. A polling
loop (`terminal_read`, `rtc_read`) turns thousands of times in a time slice;
when its condition holds in turn after turn, it is seen: strong fairness per
terminal. In `interrupts` the processor goes on, sections between `cli()` and
`sti()` end, and timer and RTC keep interrupting (weak fairness); `entry` is
strongly fair, since RTC interrupts come between its steps but do not fill the
milliseconds between them. In `programs`
whoever has the terminal gets the CPU again (`EveryTerminalRuns`), so what does not
wait for the user is weakly fair. Users and programs owe nobody a step. `NoStuckReader` is stated so
that the user may always take a line back.

Deadlock is checked in every run: some interrupt is always possible.

### Disagreements between code and comments

The first two are shown by the `violation` runs, the third by `LineInput.cfg` with
`InputWindows = {"gap"}`.

* `halt_helper` enables interrupts while it still stands on the stack of the
  halted process and before it reads the frame to return to from that process's
  PCB. After a tick there and a reuse of the pid by another terminal, it returns
  into the caller of the wrong program.
* `halt_helper` empties the put-away buffer of a hidden terminal but not its
  `buf_idx`. Later typing goes behind NULs and the next reader never returns.
* `terminal_read` looks for the newline, enables interrupts, and then copies. A
  switch in between makes it deliver, and clear, another terminal's line. The trace:
  a program on terminal 0 reads, the user types Enter there, the scan sees the
  newline; before the copy the user switches to terminal 1 and types Enter; the copy
  takes terminal 1's line. `BUG_LOG.md` (line 52) lists the corruption of the buffer
  by a switch as fixed. `OwnTyping` and `ReadsALine` say that they are about reads
  that nothing interrupts there.
* A handler can be interrupted before its first instruction, since the gates
  called interrupt gates are trap gates. A tick there leaves the keyboard's or
  the RTC's line in service until the terminal is scheduled again.
  `Acknowledged` and `EveryIrqServed` show that nothing worse comes of it, except
  that keys pressed all the time at the wrong moments can hold back the RTC.

Others are part of the models' behaviour and stated in the properties or the
abstract specifications: execute answers 69 instead of -1 when the table is full
(`Refused` in `MCProcesses`); `terminal_read` stores one byte more than the count
when the line is longer (`ReadsALine`); an exception on a hidden terminal clears
the shown one (`Fault` in `VirtualScreens`); a cursor stays behind in the text
(`Mark` in `ScrollingText`); the three cases of `NoPromise` in `Files`; descriptor
8 is not refused; what a program drew stays on the screen when it ends, and the
cursor, backspace and later text erase parts of it (`Draw` and `Fill` in
`ScrollingText`); `grep` looks at the byte behind its buffer before it stores there
(`GrepFinds` excludes a newline left in it); `mp1_ioctl_sync` draws `off_char` in
either phase, since its `cmovl` never moves after `testb` (`BlinksOnTime` leaves such
a character out until its next change, `disturbed` in `Blink`); a character that ctrl makes the keyboard
print although the buffer is full cannot be erased (`apart` in `Typing`).

## 4. Proofs

All theorems hold for every value of the constants that satisfies the assumptions
of the component's module: any number of terminals, pids, descriptors and directory
entries, any size of screens, buffers, blocks and files. The assumptions say what
the code's constants satisfy (at least one terminal, no fewer pids than terminals,
a keyboard buffer that fits on the screen with a line to spare, a directory whose
names fit their field, a line that fits every array it is copied to and whose
arguments, behind a name and a space, fit the buffer of `cat`, an image whose only
directory is `.`, which it has, and whose executables are the programs modelled, and
requests to `mp1_ioctl` for places on the screen other than 0 and times below 2^15).

| component | theorem | states, of the component's specification | assumes |
|---|---|---|---|
| processes | `TypeCorrect` | `[]TypeOK` | - |
| | `MappedCorrect` | `[]MappedProcess` | - |
| | `TableCorrect` | `[]ProcessTable` | `QuietBoot`: neither `"boot"` nor `"init"` is open |
| | `BaseShellsCorrect` | `[]BaseShells` | `QuietBoot` |
| | `StackCorrect` | `[]RunsOnOwnStack` | no window is open |
| | `SessionsRefined` | the safety part of `ImplementsSessions` | no window is open |
| line input | `InputCorrect` | `[]InputInv` | - |
| | `OwnTypingCorrect`, `ReadsALineCorrect` | `[]OwnTyping`, `[]ReadsALine` | `NoGap`: `"gap"` is not open |
| | `EditorsRefined` | `ImplementsLineEditors` | no window is open |
| screens | `ScreensCorrect` | `[]ScreensInv` | - |
| | `OwnScreenCorrect`, `ScreensRefine` | `[]OwnScreen`, `ImplementsVirtualScreens` | no window is open |
| console, typing | `ConsoleCorrect`, `PromptCorrect`, `EchoCorrect` | `[]ConsoleInv`, `[]PromptKept`, `[]EchoIsBuffer` | - |
| | `TextRefined` | `ImplementsScrollingText` | - |
| files | `FilesCorrect`, `PositionCorrect`, `ListsCorrect`, `RatesCorrect` | `[]FilesInv`, `[]PositionInFile`, `[]ListsInOrder`, `[]RtcAtWantedRate` | - |
| file system | `LookupCorrect`, `ReadsCorrect` | `[]LookupExact`, `[]ReadsTheFile` | - |
| commands, programs, `fish` | `SessionLookup`, `SessionReads` | `[]LookupExact`, `[]ReadsTheFile`, of `FishSpec` | - |
| | `StoresCorrect` | `[]StoresInside` | - |
| | `RunsCorrect` | `[]RunsWhatWasTyped` | `DistinctNames`: no two entries have the same name |
| | `PrintsCorrect` | `[]PrintsRight` | - |
| | `ListCorrect`, `BlinkCorrect` | `[]ListSound`, `[]BlinksInTime` | - |
| keys | `KeysCorrect`, `CaseCorrect` | `[]KeysInv`, `[]CaseFollowsKeys` | - |
| RTC | `RtcCorrect` | `[]RtcInv` | `PeriodsDivide`: the periods in use divide the range of the counters |
| interrupts | `InterruptsCorrect`, `TickCorrect` | `[]InterruptsInv`, `[]TickUndisturbed` | - |

A theorem without an assumption on windows covers all of them open. Section 2 says
what TLC finds when an assumption on windows is dropped.

**Processes.** *Types.* `TypeOK` admits `cur_pid = -1`, which `launch` and halt could
not use as an index; `TypeInv` adds that the kernel has a current process once it
has left the boot code.

*Table.* `TableInv` adds `BootOrder` (before the first shell the table is empty,
and while shells are missing only shells run) to `TypeInv` and `ProcessTable`.
The six parts of `ProcessTable` need each other: that halt leaves no orphan needs
that a parent waits for one child only; that the lowest free slot is not a base
shell's needs `BasePids`; that the new top of a terminal is not on top of another
needs `Waiting`. `Grounded`, the absence of cycles among parents, is stated with
sets of processes and so needs no recursion. One lemma per kind of step
(`PushTable`, `PopTable`, `RestartTable`, `EntryTable`, `StartTable`,
`RotateTable`) is proved from the tables alone and used for all actions of that
kind.

*Stacks.* `StackInv` adds `MappedProcess`, since the stack of the next kernel
entry is `esp0`, and `NoHaltReturn`: without a tick in the gap no flow is ever
stored on the stack of a halted process. The run `halt_gap_stack` shows that the
assumption cannot be dropped.

*Sessions.* `Paths` says that every started terminal `t` has a sequence of live
processes, each the parent of the next, from the base shell `t` to `active_pid[t]`.
The recursive function behind `Chain` gives exactly that sequence (`PathIsChain`):
it is defined (`GrowthExists`), and if the two differed somewhere they would differ
at a lowest place, below which they agree. So execute appends to the chain of one
terminal, halt removes its last element, and no other chain changes.

**Line input.** `InputInv` is inductive as it is. `ReadInv` adds that the
buffer of a terminal, in use or put away, holds only what was typed there
(`OwnBuffers`), and that a reader past its scan is on the shown terminal with the
newline still in the buffer (`LineIsThere`, which needs `NoGap`). The step to
`LineEditors` follows the buffer of each terminal, in use or put away.

**Screens.** `AimInv` adds to `ScreensInv` that `terminal_init` tells whether the
terminals rotate; `VirtualInv` that the terminal being started is the one shown
and both pointers are on the monitor (`ShownWhileStarting`). That two terminals never
share a page (`PagesDiffer`) makes the copies of a switch safe.

**Typing.** `ConsoleInv`, `TypingTypeOK` and the property in question together are
inductive, with programs drawing any cell between any two other steps. `ConsoleInv`
says that from the cursor on there is no text, only the cursor and what was drawn;
so what drawing and undrawing the cursor destroys is never text. The proofs go over places of the screen counted through all lines;
what scrolling, a new line and a wrapped line do to them is in lemmas of their own.

**Files.** `FilesStrong` joins the four properties with what they need: a
descriptor with the operations of a file is one of a file (`FileNamed`); only
descriptors that halt closes are of the RTC or the directory (`StandardOnly`); a
process without the RTC has the default rate (`IdleRate`) and one with two of them
no promise (`SharedRtc`); `read_index` is 0 when no directory is open
(`FreshIndex`) and where its only owner expects it, one short inside `dir_read`
(`DirPromise`).

**File system.** `Copied`: in the loop of `read_data` the bytes so far are those of
the file from the offset on, and `cur_dblock` is the block of the last one. That it
is still the right block when no boundary is crossed is a fact about quotients
(`SameBlock`). That strncmp over the longer length tells names apart is
`MatchesExact`. `LookupCorrect` and `ReadsCorrect` are about `FileSystemSpec`, in which
every call is made with any arguments.

**Commands and programs.** The theorems are about `FishSpec`, the composition of the
shell, `sys_execute`, the system calls and all programs over the file system.
`ProgramsStrong` has a part for each of them. `CallsPart`: an open descriptor has an
inode of the image and, for a file, a position inside it, so `read_data` never refuses
a program's read; a `file_read` under way copies from where its descriptor stands.
`LinePart`: line, name and arguments fit their arrays. `LoadPart`: what `sys_execute`
has asked `read_data` for, and that the file it loads starts with the magic characters
(`MagicIs`), so the code it jumps to is that of a program. `PlacePart`: what each
program knows at each place, such as that `grep` never has more in `data` than fits,
that what it opens is no directory, and that `ls` and `grep` list with a descriptor of
one. The proof that the descriptor of a directory is one of `.` and that of a file is
not needs the assumption on the image: `dir_read` stores 33 bytes whatever count it was
given, and the `data` of `grep` or the character of `fish` might be shorter. `RunPart`
adds what `sys_execute` knows of the line at each place. That `parsed` finds the only
decomposition of a line into spaces, a word and the rest is `AsksParsed` and
`AsksFirstWord`. `DistinctNames` is needed: of two entries with one name, the first is
found, and the second might be the program.

**What the programs print.** `PrintsCorrect` rests on three more invariants of
`FishSpec`, each proved from the ones before. `TidyPart`: a program starts with an
empty table and nothing written, and `read_index` is 0 whenever no directory is open,
so a listing starts with the first entry whatever ran before; `halt` closes what a
program leaves open. `WhoPart`: each place belongs to the program whose code was
loaded, and the arguments of a command that was found fit the buffer of `cat`, so its
status 3 means that there are none. `PrintPart`: at each place of `cat`, `ls` and
`counter`, what is written together with what has just been read is the text of the
file up to the position, the names up to `read_index`, the numerals up to the length
of what is written. A read that delivers nothing delivers it at the end (`CopiedText`).
Two recursive definitions are met, and for both the induction is one over a least
counterexample (`LeastOf`): `Flat` is what `FlattenSeq` computes up to its k-th
argument (`FlatIs`), and `ItoaIs` says that the digits `itoa` produces, reversed, stand
for the number they were made from, in any radix.

**Blinking characters.** `BlinkStrong`. `ListPart`: there is a path of m elements, all
different, from the head to NULL along `next`; its elements are exactly those in use
(`ArrayPart`). `nth` follows it (`NthIs`, again by a least counterexample), and since
no element occurs twice m is at most `NumSlots`, so NULL is reached in time
(`ListFits`). Adding puts an element in front of the path, removing takes one out
(`ListGrows`, `ListShrinks`). `TimePart`: status and countdown of each element are
those of its phase, the ticks since `born` modulo its period; a tick moves the phase
on by one (`NextPhase`, `PhaseStep`), and synchronising copies it. `DrawnPart` says
what an element that is not `disturbed` shows, and that two such elements do not share
a place; `StepPart` is `InStep` with the periods. `DrawPart` carries the invariant
through the places of `fish`.

**Keys.** `KeysStrong` adds that between interrupts the flags are exactly the keys
held and a remembered function key is one of them.

**RTC.** `RtcStrong` adds that a reader has waited for no more interrupts than the
counter has taken since the last multiple of the period (`CountsTheWait`), and that
a terminal's rate is that of a pid of its own (`OwnPid`). At the wrap of the counter this holds
only if the period divides the counter's range, as all powers of two do.

**Interrupts.** `InterruptsStrong` adds that at most one handler of the RTC is not
yet acknowledged (`OneRtc`), that the timer's handler is the only one of its kind,
on the current stack, with no further tick pending (`OneTick`), and that nothing
nests on it (`TickOnTop`). Which handlers are unserved on all stacks together is
compared with the lines in service, before and after each entry, acknowledgement
and return.

**Only model-checked:** liveness (`EveryTerminalRuns`, `NoStuckReader`,
`ReadsReturn`, `EveryIrqServed`, `CommandEnds` and the fairness in
`ImplementsSessions`), which is out of the prover's reach; `GrepFinds` and
`ShowsPicture`, whose reference definitions sort the lines of a text and choose the
end of each: a proof would need the invariant of a buffer that is cut and shifted
between reads, for texts of any length.

## 5. Left out

* *Composition of `Interrupts` with the other modules*: they take `pit_handler`,
  `keyboard_handler` and `rtc_handler` as one step each. `TickUndisturbed`
  justifies this for the timer once all shells run; for the other two, what
  happens before `cli()` and after the last `sti()` touches none of their state.
  `disable_irq` is never called.
* *Boot and paging set-up*: straight-line code without interaction.
* *`sys_vidmap`'s pointer check, `sys_set_handler`, `sys_sigreturn`*: single tests or
  constants.
* *Formatting, memory and string routines of `lib.c`* other than those the lookup
  and the console use.
* *`hello`, `testprint`, `pingpong`, `syserr`*: the first two print what they read, the
  third draws for ever without input, and the last checks error returns of calls
  that `Files` makes in any order. *`ece391emulate.c`* replaces the kernel by Linux.
  *`mp1_ioctl_find`* copies an element and is not called.
* *Commands longer than a line*: a program, unlike the shell, can pass `sys_execute`
  arguments that fill `cmd_args`, and then a NUL is stored behind it.
* *Characters at place 0 of the screen*: `blink.S` takes their element for a free
  one. `fish` has none, its places start at column 40.
* *Blinking times of 0x8000 and more*: the fields have 16 bits and `jg` takes them for
  negative, so the character would change at every tick. `fish` uses 15 at most;
  `Times` in `Blink` are the others.
* *A base shell that halts*, in `Files`: it has opened nothing and gets a new table.
  `Processes` has it (`halt_base`).
* *Tests*: `launch_tests` is not called.
* *Code nobody calls*: `set_active_terminal`, `init_user_page`, `close_user_page`,
  `set_rtc_wait`, `disable_irq`, `get_shown_terminal`, `test_interrupts`; and
  variables that are written and never read: `base_pid`, `exec_ready`, `vidmem_idx`,
  `eflag`, `rtc_wait`, `shell_freq`.
* *RTC counters* wrap only after 2^31 interrupts; `RtcCorrect` covers the wrap for
  periods that divide the range.

## 6. Plan

Done: the modules above, in the order processes, line input, screens, files,
console, keys, RTC, file system, interrupts, typing, commands, programs, fish.

The theorems of section 4.

What could follow: the proof of `GrepFinds` and `ShowsPicture`; and `Kernel`, a
composition of `Processes`, `LineInput` and `Screens` over one `ta` and `ts`, so that
halts and reads happen only in states process management allows.
