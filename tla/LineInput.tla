----------------------------- MODULE LineInput -----------------------------
(***************************************************************************)
(* Line input: the keyboard interrupt fills one global keyboard_buf for    *)
(* the shown terminal, terminal_switch swaps it with the buffers of the    *)
(* other terminals, terminal_read polls it for a newline on behalf of the  *)
(* terminal that has the CPU, and halt_helper empties it.                  *)
(*                                                                         *)
(* Characters are reduced to what the code tells apart, a newline or any   *)
(* other one, and carry the terminal that was shown when they were typed.  *)
(* The behaviours start when all terminals run (term_init_done).           *)
(***************************************************************************)
EXTENDS Integers, Sequences

CONSTANTS
  NUM_TERMS,      \* number of terminals
  KEY_BUF_SIZE,   \* length of keyboard_buf and of every terminal_buf
  TAB_SPACE,      \* spaces a tab stands for
  ReadSizes,      \* the counts programs pass to read
  InputWindows    \* the moments at which ticks, keys and halts strike

(***************************************************************************)
(* The moments a run may open:                                             *)
(*   "gap"     an interrupt between the sti() at the end of terminal_read's*)
(*             scan and the cli() before its copy                          *)
(*   "hidden"  a program on a terminal that is not shown ends              *)
(***************************************************************************)
AllInputWindows == {"gap", "hidden"}

ASSUME InputAssumption ==
  /\ NUM_TERMS \in Nat \ {0}
  /\ KEY_BUF_SIZE \in Nat \ {0}
  /\ TAB_SPACE \in Nat
  /\ ReadSizes \subseteq Nat
  /\ InputWindows \subseteq AllInputWindows

Terms == 0 .. NUM_TERMS - 1
Index == 0 .. KEY_BUF_SIZE - 1

Cells   == [ch : {"char", "newline"}, from : Terms]
NUL     == [ch |-> "nul", from |-> -1]
Outside == [ch |-> "outside", from |-> -1]  \* memory past the buffer
Buffers == [Index -> Cells \cup {NUL}]

EmptyBuffer == [i \in Index |-> NUL]

Idle          == [at |-> "idle", nbytes |-> 0]
Scanning(n)   == [at |-> "scan", nbytes |-> n]
CopyReady(n)  == [at |-> "copy", nbytes |-> n]
Readers       == {Idle} \cup [at : {"scan", "copy"}, nbytes : ReadSizes]

VARIABLES
  ts,            \* terminal shown on the screen
  ta,            \* terminal whose program has the CPU
  keyboard_buf,  \* the buffer the keyboard writes
  key_idx,       \* number of cells in use
  terminal_buf,  \* the buffers put away by terminal_switch
  buf_idx,       \* and their key_idx
  reader,        \* where the program of each terminal is in terminal_read
  delivered      \* what the step just taken handed to a program

ivars == <<ts, ta, keyboard_buf, key_idx, terminal_buf, buf_idx, reader,
           delivered>>

Deliveries == [to : Terms, nbytes : ReadSizes,
               text : Seq(Cells \cup {NUL, Outside})]
Nothing == [to |-> 0, nbytes |-> 0, text |-> << >>]

InputTypeOK ==
  /\ ts \in Terms /\ ta \in Terms
  /\ keyboard_buf \in Buffers
  /\ key_idx \in 0 .. KEY_BUF_SIZE
  /\ terminal_buf \in [Terms -> Buffers]
  /\ buf_idx \in [Terms -> 0 .. KEY_BUF_SIZE]
  /\ reader \in [Terms -> Readers]
  /\ delivered = Nothing \/ delivered \in Deliveries

InputInit ==
  /\ ts = 0 /\ ta = 0
  /\ keyboard_buf = EmptyBuffer /\ key_idx = 0
  /\ terminal_buf = [t \in Terms |-> EmptyBuffer]
  /\ buf_idx = [t \in Terms |-> 0]
  /\ reader = [t \in Terms |-> Idle]
  /\ delivered = Nothing

-----------------------------------------------------------------------------
(***************************************************************************)
(* keyboard_handler                                                        *)
(***************************************************************************)

\* The last cell is kept for a newline.
HasRoom(idx, ch) ==
  /\ idx < KEY_BUF_SIZE
  /\ idx = KEY_BUF_SIZE - 1 => ch = "newline"

\* write_char: a character that finds no room is dropped.
write_char(ch) ==
  IF HasRoom(key_idx, ch)
    THEN /\ keyboard_buf' = [keyboard_buf EXCEPT
                               ![key_idx] = [ch |-> ch, from |-> ts]]
         /\ key_idx' = key_idx + 1
    ELSE UNCHANGED <<keyboard_buf, key_idx>>

\* A tab is written as spaces until there is no room.
tab_written(i, n) == i >= key_idx /\ i < key_idx + n

write_tab ==
  LET room == IF key_idx >= KEY_BUF_SIZE - 1 THEN 0
              ELSE KEY_BUF_SIZE - 1 - key_idx
      n    == IF TAB_SPACE < room THEN TAB_SPACE ELSE room IN
  /\ keyboard_buf' = [i \in Index |->
                        IF tab_written(i, n) THEN [ch |-> "char", from |-> ts]
                        ELSE keyboard_buf[i]]
  /\ key_idx' = key_idx + n

delete_char ==
  IF key_idx > 0
    THEN /\ key_idx' = key_idx - 1
         /\ keyboard_buf' = [keyboard_buf EXCEPT ![key_idx - 1] = NUL]
    ELSE UNCHANGED <<keyboard_buf, key_idx>>

\* Mutant of clear_keyboard_buf: the index is not reset.
clear_cells_only == keyboard_buf' = EmptyBuffer /\ key_idx' = key_idx

clear_keyboard_buf == keyboard_buf' = EmptyBuffer /\ key_idx' = 0

\* Alone or with ctrl held, a key other than ctrl-l ends up in the buffer.
type_key ==
  /\ \E ch \in {"char", "newline"} : write_char(ch)
  /\ delivered' = Nothing
  /\ UNCHANGED <<ts, ta, terminal_buf, buf_idx, reader>>

type_tab ==
  /\ write_tab
  /\ delivered' = Nothing
  /\ UNCHANGED <<ts, ta, terminal_buf, buf_idx, reader>>

type_backspace ==
  /\ delete_char
  /\ delivered' = Nothing
  /\ UNCHANGED <<ts, ta, terminal_buf, buf_idx, reader>>

\* Ctrl-l: the buffer is cleared with the screen.
ctrl_helper ==
  /\ clear_keyboard_buf
  /\ delivered' = Nothing
  /\ UNCHANGED <<ts, ta, terminal_buf, buf_idx, reader>>

\* Mutant of put_away: the index of the terminal left behind is not saved.
put_away_buffer_only(t) ==
  /\ terminal_buf' = [terminal_buf EXCEPT ![t] = keyboard_buf]
  /\ buf_idx' = buf_idx

put_away(t) ==
  /\ terminal_buf' = [terminal_buf EXCEPT ![t] = keyboard_buf]
  /\ buf_idx' = [buf_idx EXCEPT ![t] = key_idx]

\* Mutant of take_out: the index of the terminal left behind stays.
take_out_buffer_only(t) == keyboard_buf' = terminal_buf[t] /\ key_idx' = key_idx

take_out(t) == keyboard_buf' = terminal_buf[t] /\ key_idx' = buf_idx[t]

\* Alt and a function key: the buffers change places.
terminal_switch(t) ==
  /\ t # ts
  /\ put_away(ts)
  /\ take_out(t)
  /\ ts' = t
  /\ delivered' = Nothing
  /\ UNCHANGED <<ta, reader>>

alt_helper == \E t \in Terms : terminal_switch(t)

-----------------------------------------------------------------------------
(***************************************************************************)
(* terminal_read, for the program of the active terminal                   *)
(***************************************************************************)

\* Mutant of ShownIsActive: the test of ts against ta is left out.
AlwaysShown == TRUE

ShownIsActive == ts = ta

\* Mutant of ScanFindsNewline: one cell is enough to end the loop.
ScanFindsAnything == keyboard_buf[0] # NUL

\* The scan stops at the first NUL, and asks whether it met a newline.
ScanFindsNewline ==
  \E i \in Index : /\ keyboard_buf[i].ch = "newline"
                   /\ \A j \in 0 .. i - 1 : keyboard_buf[j] # NUL

CellAt(i) == IF i \in Index THEN keyboard_buf[i] ELSE Outside

\* The copy looks for a newline only, and takes the cell it stops at too.
CopyEnd(n) ==
  CHOOSE e \in 0 .. n :
    /\ e = n \/ CellAt(e).ch = "newline"
    /\ \A i \in 0 .. e - 1 : CellAt(i).ch # "newline"

Copied(n) == [i \in 1 .. CopyEnd(n) + 1 |-> CellAt(i - 1)]

terminal_read(n) ==
  /\ reader[ta] = Idle
  /\ reader' = [reader EXCEPT ![ta] = Scanning(n)]
  /\ delivered' = Nothing
  /\ UNCHANGED <<ts, ta, keyboard_buf, key_idx, terminal_buf, buf_idx>>

\* The last turn of the polling loop.  Earlier ones change nothing.
scan_done ==
  /\ reader[ta].at = "scan"
  /\ ScanFindsNewline
  /\ ShownIsActive
  /\ reader' = [reader EXCEPT ![ta] = CopyReady(@.nbytes)]
  /\ delivered' = Nothing
  /\ UNCHANGED <<ts, ta, keyboard_buf, key_idx, terminal_buf, buf_idx>>

copy_line ==
  LET n == reader[ta].nbytes IN
  /\ reader[ta].at = "copy"
  /\ delivered' = [to |-> ta, nbytes |-> n, text |-> Copied(n)]
  /\ reader' = [reader EXCEPT ![ta] = Idle]
  /\ clear_keyboard_buf
  /\ UNCHANGED <<ts, ta, terminal_buf, buf_idx>>

\* No interrupt strikes between scan and copy, unless a run opens the gap.
Undisturbed == reader[ta].at = "copy" => "gap" \in InputWindows

-----------------------------------------------------------------------------
\* The part of halt_helper that is about input; the base shells skip it.
halt_helper ==
  /\ reader[ta] = Idle
  /\ ts = ta \/ "hidden" \in InputWindows
  /\ terminal_buf' = [terminal_buf EXCEPT ![ta] = EmptyBuffer]
  /\ IF ts = ta THEN clear_keyboard_buf
                ELSE UNCHANGED <<keyboard_buf, key_idx>>
  /\ delivered' = Nothing
  /\ UNCHANGED <<ts, ta, buf_idx, reader>>

\* The part of pit_handler that is about input.
pit_handler ==
  /\ Undisturbed
  /\ ta' = (ta + 1) % NUM_TERMS
  /\ delivered' = Nothing
  /\ UNCHANGED <<ts, keyboard_buf, key_idx, terminal_buf, buf_idx, reader>>

keyboard_handler ==
  /\ Undisturbed
  /\ type_key \/ type_tab \/ type_backspace \/ ctrl_helper \/ alt_helper

InputNext ==
  \/ keyboard_handler
  \/ \E n \in ReadSizes : terminal_read(n)
  \/ scan_done
  \/ copy_line
  \/ halt_helper
  \/ pit_handler

(***************************************************************************)
(* The timer ticks forever.  A time slice is thousands of turns of the     *)
(* polling loop, so a reader whose turn comes again and again gets through *)
(* the loop in one of them: strong fairness.  Nobody has to type or read.  *)
(***************************************************************************)
InputFairness ==
  /\ WF_ivars(pit_handler)
  /\ \A t \in Terms : SF_ivars(ta = t /\ scan_done)
  /\ \A t \in Terms : SF_ivars(ta = t /\ copy_line)

InputSpec     == InputInit /\ [][InputNext]_ivars
InputFairSpec == InputSpec /\ InputFairness

-----------------------------------------------------------------------------
(***************************************************************************)
(* Properties                                                              *)
(***************************************************************************)

\* The buffer and index that belong to terminal t at this moment.
BufferOf(t) == IF t = ts THEN keyboard_buf ELSE terminal_buf[t]
IndexOf(t)  == IF t = ts THEN key_idx ELSE buf_idx[t]

(***************************************************************************)
(* Buffer and index stay together through typing, switching, reading and   *)
(* halting: past the index a terminal's buffer is NUL, so that a line is   *)
(* never continued by what an earlier one left, and the last cell can only *)
(* hold a newline, so that Enter still ends a line that has filled the     *)
(* buffer.                                                                 *)
(***************************************************************************)
CleanPastIndex ==
  \A t \in Terms :
    /\ \A i \in Index : i >= IndexOf(t) => BufferOf(t)[i] = NUL
    /\ BufferOf(t)[KEY_BUF_SIZE - 1].ch # "char"

(***************************************************************************)
(* The two together: indices and cells of all buffers, the one in use and  *)
(* those put away, stay in range, and buffer and index of a terminal       *)
(* belong together.                                                        *)
(***************************************************************************)
InputInv == InputTypeOK /\ CleanPastIndex

(***************************************************************************)
(* As long as nothing interrupts terminal_read between the sti() that ends *)
(* its scan and the cli() before its copy: what is typed while a terminal  *)
(* is shown stays in the buffer of that terminal through any order of      *)
(* switches, ticks, edits and reads, and only its programs get to read it. *)
(* The code does not promise more.  With "gap" open, a switch there makes  *)
(* the copy deliver the line of the terminal then shown.                   *)
(***************************************************************************)
OwnTyping ==
  /\ \A t \in Terms, i \in Index : BufferOf(t)[i].from \in {t, -1}
  /\ delivered # Nothing =>
       \A i \in DOMAIN delivered.text :
         delivered.text[i].from \in {delivered.to, -1}

(***************************************************************************)
(* "read until newline character": a read delivers a line with its newline *)
(* and nothing after it, or as much of one as the caller has asked for;    *)
(* never a NUL, nor memory past the buffer.  An interrupt in the gap       *)
(* between scan and copy can break this too, by erasing the newline.       *)
(***************************************************************************)
ReadsALine ==
  delivered # Nothing =>
    LET text == delivered.text IN
    /\ \A i \in 1 .. Len(text) - 1 : text[i].ch = "char"
    /\ \/ text[Len(text)].ch = "newline"
       \/ text[Len(text)].ch = "char" /\ Len(text) > delivered.nbytes

\* The program of the shown terminal waits and a newline has been typed.
LineWaits(t) ==
  /\ ts = t
  /\ reader[t].at = "scan"
  /\ \E i \in Index : keyboard_buf[i].ch = "newline"

(***************************************************************************)
(* A program that waits for a line gets the one that is in the buffer of   *)
(* its shown terminal, unless the user takes the line back: it never sits  *)
(* there for good.                                                         *)
(***************************************************************************)
NoStuckReader == \A t \in Terms : []<>(~ LineWaits(t))
=============================================================================
