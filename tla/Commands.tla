------------------------------ MODULE Commands ------------------------------
(***************************************************************************)
(* From a line typed at the prompt to a running program and back: the      *)
(* shell, the parsing and loading of sys_execute, and the system calls a   *)
(* program makes about its arguments and files.  Names and contents come   *)
(* from the file system image, byte by byte, through FileSystem.           *)
(*                                                                         *)
(* One terminal with one shell; the process table is the subject of        *)
(* Processes, several processes with open files that of Files.             *)
(***************************************************************************)
EXTENDS FileSystem

CONSTANTS
  Disks,          \* the contents the image may have: a character for each byte
  Types,          \* file_type of each directory entry
  EntryInodes,    \* inode_num of each directory entry
  ELF,            \* the characters an executable starts with
  EXIT,           \* the word that ends the shell
  KEY_BUF_SIZE,   \* keyboard_buf, in which lines are typed
  FILE_STR_LEN,   \* bound on the command's name
  CMD_LINE_LEN,   \* cmd_args
  NUM_MAX_FILES,  \* descriptor table
  ShellBuf,       \* BUFSIZE of the shell and of sigtest
  CatBuf,         \* size of the buffer of cat
  SBUFSIZE,       \* the name buffers of ls and grep
  GrepBuf         \* BUFSIZE of grep

SPACE   == " "
NEWLINE == "newline"
DirName == <<".">>

RTC_TYPE  == 0
DIR_TYPE  == 1
FILE_TYPE == 2

MIN_FD_INDEX   == 2
FUNNY_NUMBER   == 69
EXCEPTION_HALT == 256

(***************************************************************************)
(* A line fits each array it is copied to, what is left of it behind a     *)
(* name and a space fits the buffer of cat, and a name the buffers that a  *)
(* directory is read into.  The image has one directory, itself.           *)
(***************************************************************************)
ASSUME CommandsAssumption ==
  /\ {KEY_BUF_SIZE, FILE_STR_LEN, CMD_LINE_LEN, NUM_MAX_FILES, ShellBuf,
      CatBuf, SBUFSIZE, GrepBuf} \subseteq Nat \ {0}
  /\ \A size \in {ShellBuf, FILE_STR_LEN, CMD_LINE_LEN} : KEY_BUF_SIZE <= size
  /\ MAX_STR_LENGTH < CatBuf /\ MAX_STR_LENGTH < SBUFSIZE
  /\ KEY_BUF_SIZE <= CatBuf + 2
  /\ NUM_MAX_FILES > MIN_FD_INDEX
  /\ {SPACE, NEWLINE} \cap Letters = {}
  /\ ELF \in Seq(STRING) /\ {DirName, EXIT} \subseteq Seq(Letters)
  /\ Types \in [DOMAIN Directory -> {RTC_TYPE, DIR_TYPE, FILE_TYPE}]
  /\ EntryInodes \in [DOMAIN Directory -> 0 .. NumInodes - 1]
  /\ \A e \in DOMAIN Directory : Types[e] = DIR_TYPE <=> Directory[e] = DirName
  /\ \E e \in DOMAIN Directory : Directory[e] = DirName

ELF_SIZE == Len(ELF)

VARIABLES
  disk,        \* the contents of the image, which never change
  at,          \* where the session is: in the shell, the kernel or a program
  line,        \* the line typed
  f_cmd,       \* the command's name
  cmd_args,    \* its arguments, then those in the PCB
  entry,       \* the directory entry executed
  fdt,         \* descriptor table of the program
  read_index,  \* next directory entry
  fd,          \* what the last sys_open returned
  reading,     \* the descriptor a file_read is under way for, or -1
  got,         \* the characters the last sys_read delivered
  rval,        \* exit status, or what sys_execute returned
  out,         \* what the program has written
  stored       \* the array elements the step just taken has stored to

session == <<disk, line, f_cmd, cmd_args, entry>>
files   == <<fdt, read_index, fd, reading, got>>
cvars   == <<session, files, fsvars, at, rval, out, stored>>

Fds      == MIN_FD_INDEX .. NUM_MAX_FILES - 1
Closed   == [type |-> -1, inode |-> -1, file_pos |-> -1]
NewTable == [d \in Fds |-> Closed]

\* Mutant of Size: data as long as what is read into it.
Size_no_end ==
  [shell_buf |-> ShellBuf, f_cmd |-> FILE_STR_LEN + 1, cmd_args |-> CMD_LINE_LEN,
   cat_buf |-> CatBuf, name_buf |-> SBUFSIZE, sig_buf |-> ShellBuf,
   search |-> GrepBuf, data |-> GrepBuf]

\* The arrays that a length found at run time is used to index.
Size ==
  [shell_buf |-> ShellBuf, f_cmd |-> FILE_STR_LEN + 1, cmd_args |-> CMD_LINE_LEN,
   cat_buf |-> CatBuf, name_buf |-> SBUFSIZE, sig_buf |-> ShellBuf,
   search |-> GrepBuf, data |-> GrepBuf + 1]

Stores(array, index) == stored' = {<<array, index>>}
StoresNothing        == stored' = {}

\* The characters of a sequence of bytes, and of a whole file.
Chars(bytes) == [k \in DOMAIN bytes |-> disk[bytes[k]]]
Text(n)      == Chars(Contents(n))

\* What the keyboard handler lets the user type before Enter.
Lines == UNION {[1 .. n -> Letters \cup {SPACE}] : n \in 0 .. KEY_BUF_SIZE - 1}

CommandsInit ==
  /\ disk \in Disks /\ at = "prompt"
  /\ line = << >> /\ f_cmd = << >> /\ cmd_args = << >> /\ entry = -1
  /\ fdt = NewTable /\ read_index = 0 /\ fd = -1 /\ reading = -1 /\ got = << >>
  /\ rval = 0 /\ out = << >> /\ stored = {}
  /\ FileSystemInit

-----------------------------------------------------------------------------
(***************************************************************************)
(* The shell reads a line without its newline, ends itself on EXIT, and is *)
(* then restarted or leaves the terminal to the shell it was started from. *)
(***************************************************************************)
read_line ==
  /\ at = "prompt"
  /\ \E s \in Lines :
       IF s = << >> \/ s = EXIT
         THEN UNCHANGED <<at, line, stored>>
         ELSE /\ at' = "parse" /\ line' = s
              /\ Stores("shell_buf", Len(s))
  /\ UNCHANGED <<disk, f_cmd, cmd_args, entry, files, fsvars, rval, out>>

\* Length of the run of characters of a set from index f on.
Run(s, f, set) ==
  LET ends == {n \in 0 .. Len(s) - f : n = Len(s) - f \/ s[f + n + 1] \notin set} IN
  CHOOSE n \in ends : \A m \in ends : n <= m

NameChars(command) == {command[k] : k \in DOMAIN command} \ {SPACE, NEWLINE}

Shorter(m, n) == IF m < n THEN m ELSE n

\* Mutant of parsed: the separator is left in front of the arguments.
parsed_with_separator(command) ==
  LET f == Run(command, 0, {SPACE})
      n == Shorter(Run(command, f, NameChars(command)), FILE_STR_LEN)
  IN [name |-> SubSeq(command, f + 1, f + n),
      args |-> SubSeq(command, f + n + 1, Shorter(f + n + CMD_LINE_LEN, Len(command)))]

\* sys_execute skips leading spaces, takes a name up to the next space, skips
\* that one character, and takes the rest as it is.
parsed(command) ==
  LET f == Run(command, 0, {SPACE})
      n == Shorter(Run(command, f, NameChars(command)), FILE_STR_LEN)
      a == f + n + 1
  IN [name |-> SubSeq(command, f + 1, f + n),
      args |-> SubSeq(command, a + 1, Shorter(a + CMD_LINE_LEN, Len(command)))]

\* sys_execute returns to the shell without having started a program.
execute_returns(status) ==
  /\ at' = "report" /\ rval' = status

parse_command ==
  /\ at = "parse" /\ at' = "find"
  /\ \E p \in {parsed(line)} :
       /\ f_cmd' = p.name /\ cmd_args' = p.args
       /\ stored' = {<<"f_cmd", Len(p.name)>>, <<"cmd_args", Len(p.args)>>}
  /\ UNCHANGED <<disk, line, entry, files, fsvars, rval, out>>

find_command ==
  /\ at = "find"
  /\ read_dentry_by_name(f_cmd)
  /\ entry' = result'
  /\ IF result' = -1
       THEN execute_returns(-1)
       ELSE at' = "magic" /\ UNCHANGED rval
  /\ StoresNothing
  /\ UNCHANGED <<disk, line, f_cmd, cmd_args, files, out>>

Inode == EntryInodes[entry + 1]

read_magic ==
  /\ at = "magic"
  /\ read_data(Inode, 0, ELF_SIZE)
  /\ at' = "check_magic" /\ StoresNothing
  /\ UNCHANGED <<session, files, rval, out>>

IsExecutable == result = ELF_SIZE /\ Chars(buf) = ELF

\* The process table may be full of the programs of other terminals.
check_magic ==
  /\ at = "check_magic" /\ pc = "idle"
  /\ \/ /\ IsExecutable
        /\ read_data(Inode, 0, inode(Inode).length)
        /\ at' = "load" /\ UNCHANGED rval
     \/ /\ IsExecutable /\ execute_returns(FUNNY_NUMBER)
        /\ UNCHANGED fsvars
     \/ /\ ~ IsExecutable /\ execute_returns(-1)
        /\ UNCHANGED fsvars
  /\ StoresNothing
  /\ UNCHANGED <<session, files, out>>

\* What the character after the magic ones stands for: the program's code.
Code == Chars(buf)[ELF_SIZE + 1]

\* The image is loaded; the new process gets a table without open files and
\* the arguments in its PCB, and the CPU.
start_program ==
  /\ at = "load" /\ pc = "idle"
  /\ at' = Code
  /\ fdt' = NewTable
  /\ Stores("cmd_args", Len(cmd_args))
  /\ UNCHANGED <<session, read_index, fd, reading, got, fsvars, rval, out>>

-----------------------------------------------------------------------------
\* Mutant of GetArgsFails: room for one character less.
GetArgsFails_early(nbytes) == Len(cmd_args) = 0 \/ Len(cmd_args) >= nbytes - 1

\* sys_getargs copies nothing when there are no arguments or no room for them.
GetArgsFails(nbytes) == Len(cmd_args) = 0 \/ Len(cmd_args) > nbytes - 1

FreeFds == {d \in Fds : fdt[d] = Closed}

sys_open(fname) ==
  /\ read_dentry_by_name(fname)
  /\ fd' = IF result' = -1 \/ FreeFds = {} THEN -1
           ELSE CHOOSE d \in FreeFds : \A e \in FreeFds : d <= e
  /\ fdt' = IF fd' = -1 THEN fdt
            ELSE [fdt EXCEPT ![fd'] = [type     |-> Types[result' + 1],
                                       inode    |-> EntryInodes[result' + 1],
                                       file_pos |-> 0]]
  /\ UNCHANGED <<read_index, reading, got>>

\* Closing a directory starts the next listing from the first entry.
dir_close(closed) ==
  IF \E d \in closed : fdt[d].type = DIR_TYPE THEN 0 ELSE read_index

sys_close(d) ==
  /\ fdt' = [fdt EXCEPT ![d] = Closed]
  /\ read_index' = dir_close({d})
  /\ UNCHANGED <<fd, reading, got, fsvars>>

\* Mutant of advanced: the next read starts at the same byte.
advanced_not(d, n) == fdt

\* sys_read adds what it delivered to the position.
advanced(d, n) == [fdt EXCEPT ![d].file_pos = @ + n]

(***************************************************************************)
(* Reads.  The RTC delivers nothing (its wait is in Rtc).  A directory     *)
(* delivers the next name, whatever count is, and stores MAX_STR_LENGTH    *)
(* characters and a NUL into array.  A file delivers what read_data        *)
(* copies; positions stay inside the file, so read_data does not refuse.   *)
(***************************************************************************)
rtc_read ==
  /\ got' = << >> /\ StoresNothing
  /\ UNCHANGED <<fdt, read_index, reading, fsvars>>

dir_read(d, array) ==
  /\ IF read_index < Len(Directory)
       THEN /\ got' = Directory[read_index + 1]
            /\ read_index' = read_index + 1
            /\ Stores(array, MAX_STR_LENGTH)
       ELSE /\ got' = << >> /\ StoresNothing
            /\ UNCHANGED read_index
  /\ fdt' = advanced(d, Len(got'))
  /\ UNCHANGED <<reading, fsvars>>

file_read(d, count) ==
  /\ read_data(fdt[d].inode, fdt[d].file_pos, count)
  /\ reading' = d /\ StoresNothing
  /\ UNCHANGED <<fdt, read_index, got>>

sys_read(d, array, count) ==
  /\ pc = "idle" /\ UNCHANGED fd
  /\ \/ fdt[d].type = RTC_TYPE /\ rtc_read
     \/ fdt[d].type = DIR_TYPE /\ dir_read(d, array)
     \/ fdt[d].type = FILE_TYPE /\ file_read(d, count)

\* read_data at work, for sys_execute or for a sys_read.
copying ==
  /\ copy_byte /\ StoresNothing
  /\ UNCHANGED <<session, files, at, rval, out>>

copied ==
  /\ read_data_done /\ StoresNothing
  /\ IF reading = -1 THEN UNCHANGED files
     ELSE /\ got' = Chars(buf)
          /\ fdt' = advanced(reading, i)
          /\ reading' = -1
          /\ UNCHANGED <<read_index, fd>>
  /\ UNCHANGED <<session, at, rval, out>>

-----------------------------------------------------------------------------
\* main returns, or an exception ends the program: halt_helper comes next.
return(status) == at' = "halt" /\ rval' = status

halt ==
  /\ at = "halt"
  /\ fdt' = NewTable
  /\ read_index' = dir_close(Fds)
  /\ at' = "report" /\ StoresNothing
  /\ UNCHANGED <<session, fd, reading, got, fsvars, rval, out>>

\* The shell says what rval means and prompts for the next line; the values of
\* the command that has ended are not looked at again.
report ==
  /\ at = "report" /\ at' = "prompt"
  /\ line' = << >> /\ f_cmd' = << >> /\ cmd_args' = << >> /\ entry' = -1
  /\ rval' = 0 /\ out' = << >> /\ StoresNothing
  /\ fd' = -1 /\ got' = << >> /\ args' = NoArgs /\ result' = NoValue
  /\ buf' = << >> /\ i' = 0 /\ cur_dblock' = NoBlock
  /\ UNCHANGED <<disk, fdt, read_index, reading, pc>>
=============================================================================
