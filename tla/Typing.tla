------------------------------- MODULE Typing -------------------------------
(***************************************************************************)
(* The keyboard buffer of a terminal and its screen together: what the     *)
(* user sees of what is typed.  keyboard_handler changes both; programs    *)
(* print and draw between any two keys, the RTC blinks the cursor, and a   *)
(* read or the end of a program empties the buffer only.                   *)
(*                                                                         *)
(* The buffer is the sequence of its cells up to key_idx; module LineInput *)
(* shows that the others are NUL, and how buffers follow the terminals.    *)
(***************************************************************************)
EXTENDS Console, Sequences

CONSTANTS
  KEY_BUF_SIZE,   \* length of keyboard_buf
  TAB_SPACE       \* spaces a tab stands for

(***************************************************************************)
(* A line that fills the buffer fits on the screen above the last row: 128 *)
(* characters on 25 rows of 80.                                            *)
(***************************************************************************)
ASSUME TypingAssumption ==
  /\ KEY_BUF_SIZE \in Nat \ {0}
  /\ KEY_BUF_SIZE <= (NUM_ROWS - 1) * NUM_COLS
  /\ TAB_SPACE \in Nat

VARIABLES
  keyboard_buf,  \* the characters typed and not read
  tabbing,       \* spaces the handler of a tab has yet to write
  apart,         \* history: what is typed is not what stands at the cursor
  mixed,         \* history: a program printed while the buffer was in use
  prompt         \* history: the cell behind what programs printed

tvars == <<cells, cursor_x, cursor_y, keyboard_buf, tabbing, apart, mixed,
           prompt>>

TypingInit ==
  /\ ConsoleInit
  /\ keyboard_buf = << >> /\ tabbing = 0
  /\ apart = FALSE /\ mixed = FALSE /\ prompt = 0

\* The part of a buffer after its last newline.
CurrentLine(buf) ==
  LET ends == {k \in 1 .. Len(buf) : buf[k] = NewlineCh} IN
  CHOOSE s \in {SubSeq(buf, k + 1, Len(buf)) : k \in ends \cup {0}} :
    \A k \in 1 .. Len(s) : s[k] # NewlineCh

(***************************************************************************)
(* The histories.  Text is apart from its echo until the line is finished  *)
(* or given up.  A scrolled screen takes the prompt along; far enough      *)
(* above the screen one place is as good as another.                       *)
(***************************************************************************)
NowApart(event) == apart' = ((apart \/ event) /\ CurrentLine(keyboard_buf') # << >>)

Moved(cell, s) ==
  LET up == IF s.scrolled THEN cell - NUM_COLS ELSE cell IN
  IF up < - KEY_BUF_SIZE THEN - KEY_BUF_SIZE ELSE up

\* The terminal's screen becomes s without output of a program.
echo(s) ==
  /\ becomes(s)
  /\ mixed' = (mixed /\ keyboard_buf' # << >>)
  /\ prompt' = IF mixed /\ keyboard_buf' = << >> THEN At(s.x, s.y)
                                               ELSE Moved(prompt, s)

-----------------------------------------------------------------------------
\* keyboard_handler runs to its end, a tab included, before anything else.
Ready == tabbing = 0

\* write_char: the last cell is kept for Enter.
HasRoom(ch) ==
  /\ Len(keyboard_buf) < KEY_BUF_SIZE
  /\ Len(keyboard_buf) = KEY_BUF_SIZE - 1 => ch = NewlineCh

\* The cursor is undrawn before Enter, and overwritten by anything else.
Undrawn(ch) ==
  IF ch = NewlineCh THEN check_cursor(cells, cursor_x, cursor_y) ELSE cells

type_key(ch) ==
  /\ Ready /\ HasRoom(ch)
  /\ keyboard_buf' = Append(keyboard_buf, ch)
  /\ echo(put_key(Undrawn(ch), ch))
  /\ NowApart(FALSE)
  /\ UNCHANGED tabbing

\* With ctrl held a character is echoed even if it found no room, and the
\* cursor is not undrawn.
ctrl_key(ch) ==
  /\ Ready
  /\ keyboard_buf' = IF HasRoom(ch) THEN Append(keyboard_buf, ch) ELSE keyboard_buf
  /\ echo(put_key(cells, ch))
  /\ NowApart(~ HasRoom(ch))
  /\ UNCHANGED tabbing

\* Ctrl-l.
ctrl_l ==
  /\ Ready
  /\ keyboard_buf' = << >>
  /\ becomes(clear_screen)
  /\ apart' = FALSE /\ mixed' = FALSE /\ prompt' = 0
  /\ UNCHANGED tabbing

\* Mutant of CanDelete: the result of delete_char is not looked at.
CanDelete_always(buf) == TRUE

\* delete_char
CanDelete(buf) == buf # << >>
Deleted(buf)   == SubSeq(buf, 1, Len(buf) - 1)

\* An Enter that is taken back leaves the cursor at the end of a line, not
\* behind the text.
type_backspace ==
  /\ Ready /\ CanDelete(keyboard_buf)
  /\ keyboard_buf' = Deleted(keyboard_buf)
  /\ echo(remc)
  /\ NowApart(\E k \in DOMAIN keyboard_buf :
                k = Len(keyboard_buf) /\ keyboard_buf[k] = NewlineCh)
  /\ UNCHANGED tabbing

\* A tab is a loop of write_char and put_key that ends when there is no room.
type_tab ==
  /\ Ready
  /\ tabbing' = TAB_SPACE
  /\ UNCHANGED <<cells, cursor_x, cursor_y, keyboard_buf, apart, mixed, prompt>>

tab_space ==
  /\ ~ Ready
  /\ IF HasRoom(BLANK)
       THEN /\ keyboard_buf' = Append(keyboard_buf, BLANK)
            /\ tabbing' = tabbing - 1
            /\ echo(put_key(cells, BLANK))
            /\ NowApart(FALSE)
       ELSE /\ tabbing' = 0
            /\ UNCHANGED <<cells, cursor_x, cursor_y, keyboard_buf, apart,
                           mixed, prompt>>

-----------------------------------------------------------------------------
\* terminal_read has found a line, or halt_helper ends a program.
clear_keyboard_buf ==
  /\ Ready
  /\ keyboard_buf' = << >>
  /\ apart' = FALSE /\ mixed' = FALSE
  /\ prompt' = Cursor
  /\ UNCHANGED <<cells, cursor_x, cursor_y, tabbing>>

\* The screen becomes s by the output of a program.
printed(s) ==
  /\ Ready
  /\ becomes(s)
  /\ mixed' = (mixed \/ keyboard_buf # << >>)
  /\ prompt' = At(s.x, s.y)
  /\ UNCHANGED <<keyboard_buf, tabbing>>
  /\ NowApart(TRUE)

print(ch) == printed(putc(ch))

\* The start of an exception message.
handle_exception == printed(clear_screen)

\* rtc_handler, every half second.
blink ==
  /\ Ready
  /\ becomes(put_cursor) \/ becomes(rem_cursor)
  /\ UNCHANGED <<keyboard_buf, tabbing, apart, mixed, prompt>>

\* A program that called sys_vidmap draws a character, anywhere on the screen.
vidmap_write ==
  /\ Ready
  /\ \E i \in Cells : becomes(mp1_poke(i))
  /\ UNCHANGED <<keyboard_buf, tabbing, apart, mixed, prompt>>

keyboard_handler ==
  \/ \E ch \in Chars : type_key(ch) \/ ctrl_key(ch)
  \/ ctrl_l \/ type_backspace \/ type_tab \/ tab_space

TypingNext ==
  \/ keyboard_handler
  \/ clear_keyboard_buf
  \/ \E ch \in Chars : print(ch)
  \/ handle_exception
  \/ blink
  \/ vidmap_write

TypingSpec == TypingInit /\ [][TypingNext]_tvars

-----------------------------------------------------------------------------
(***************************************************************************)
(* The user sees what a program will read: the line being typed stands on  *)
(* the screen right before the cursor, also after wrapping, scrolling,     *)
(* tabs cut short, erasing across rows and any number of repeats of a held *)
(* backspace.  It ends when a program prints into the line, when ctrl and  *)
(* a key are echoed without being stored, and when an Enter is erased.  A  *)
(* character of it can be hidden only by one a program drew there.         *)
(***************************************************************************)
EchoIsBuffer ==
  LET line == CurrentLine(keyboard_buf)
      n    == Len(line) IN
  ~ apart => /\ n <= Cursor
             /\ \A k \in 1 .. n : cells[Cursor - n + k - 1] \in {line[k], Picture}

(***************************************************************************)
(* Backspace erases what was typed and never what programs printed, the    *)
(* shell's prompt for one: every character in the buffer has a cell of its *)
(* own between the prompt and the cursor, erased Enters included, unless a *)
(* program has printed since the first of them was typed.                  *)
(***************************************************************************)
PromptKept == ~ mixed => prompt + Len(keyboard_buf) <= Cursor
=============================================================================
