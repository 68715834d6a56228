------------------------------ MODULE Screens ------------------------------
(***************************************************************************)
(* Video memory.  Page 0 is the memory the monitor shows (0xB8000), page   *)
(* t + 1 keeps the screen of terminal t while it is hidden.  The kernel    *)
(* prints through video_mem, programs that called vidmap write through the *)
(* page table entry pt_user, keys and the cursor go to page 0 directly.    *)
(* terminal_switch copies pages, and it and the timer aim both pointers.   *)
(*                                                                         *)
(* The content of a page is reduced to its last change: the terminal on    *)
(* whose behalf it was made, and one of a few versions.                    *)
(***************************************************************************)
EXTENDS Integers

CONSTANTS
  NUM_TERMS,      \* number of terminals, TOTAL_TERM
  Versions,       \* versions of a screen a terminal can produce
  ScreenWindows   \* the moments a run opens

(***************************************************************************)
(*   "early"  the user switches terminals before all base shells run       *)
(***************************************************************************)
AllScreenWindows == {"early"}

ASSUME ScreensAssumption ==
  /\ NUM_TERMS \in Nat \ {0}
  /\ Versions # {}
  /\ ScreenWindows \subseteq AllScreenWindows

Terms == 0 .. NUM_TERMS - 1
Pages == 0 .. NUM_TERMS
VIDEO == 0
Nobody == -1

VARIABLES
  ts,              \* terminal shown
  ta,              \* terminal whose program has the CPU
  terminal_init,   \* next base shell to start
  term_init_done,  \* all of them run
  video_mem,       \* page the kernel prints to
  pt_user,         \* page programs see at the vidmap address
  page             \* contents

screenvars == <<ts, ta, terminal_init, term_init_done, video_mem, pt_user, page>>

Content == [by : Terms \cup {Nobody}, version : Versions]
Blank   == [by |-> Nobody, version |-> CHOOSE v \in Versions : TRUE]

ScreensTypeOK ==
  /\ ts \in Terms /\ ta \in Terms
  /\ terminal_init \in 1 .. NUM_TERMS + 1
  /\ term_init_done \in BOOLEAN
  /\ video_mem \in Pages /\ pt_user \in Pages
  /\ page \in [Pages -> Content]

\* After paging_init, with the first base shell on terminal 0.
ScreensInit ==
  /\ ts = 0 /\ ta = 0
  /\ terminal_init = 1
  /\ term_init_done = FALSE
  /\ video_mem = VIDEO /\ pt_user = VIDEO
  /\ page = [i \in Pages |-> Blank]

-----------------------------------------------------------------------------
\* The page terminal t is kept in while it is hidden.
page_of(t) == t + 1

\* Where the program of terminal active has to write.
page_for(shown, active) == IF shown = active THEN VIDEO ELSE page_of(active)

aim(shown, active) ==
  /\ video_mem' = page_for(shown, active)
  /\ pt_user' = page_for(shown, active)

\* Mutant of copied_pages: the screen left behind is overwritten first.
copied_in_wrong_order(old, new) ==
  [page EXCEPT ![VIDEO] = page[page_of(new)],
               ![page_of(old)] = page[page_of(new)]]

\* memcpy of the monitor's page to the old terminal's, then of the new one's.
copied_pages(old, new) ==
  [page EXCEPT ![page_of(old)] = page[VIDEO],
               ![VIDEO] = page[page_of(new)]]

\* Mutant of aim_after_switch: the pointers stay where they were.
keep_aim(t) == UNCHANGED <<video_mem, pt_user>>

aim_after_switch(t) ==
  IF term_init_done THEN aim(t, ta) ELSE UNCHANGED <<video_mem, pt_user>>

\* Alt and a function key.
terminal_switch(t) ==
  /\ term_init_done \/ "early" \in ScreenWindows
  /\ t # ts
  /\ ts' = t
  /\ page' = copied_pages(ts, t)
  /\ aim_after_switch(t)
  /\ UNCHANGED <<ta, terminal_init, term_init_done>>

alt_helper == \E t \in Terms : terminal_switch(t)

\* A tick while base shells are missing shows the terminal it starts.
start_terminal ==
  LET t == terminal_init IN
  /\ t < NUM_TERMS
  /\ terminal_init' = t + 1
  /\ ta' = t
  /\ ts' = t
  /\ page' = IF t = ts THEN page ELSE copied_pages(ts, t)
  /\ UNCHANGED <<term_init_done, video_mem, pt_user>>

\* The next one goes back to terminal 0 and starts the rotation.
first_rotation ==
  /\ terminal_init = NUM_TERMS
  /\ terminal_init' = NUM_TERMS + 1
  /\ term_init_done' = TRUE
  /\ ts' = 0
  /\ page' = IF ts = 0 THEN page ELSE copied_pages(ts, 0)
  /\ ta' = (ta + 1) % NUM_TERMS
  /\ aim(0, (ta + 1) % NUM_TERMS)

rotate ==
  /\ terminal_init > NUM_TERMS
  /\ ta' = (ta + 1) % NUM_TERMS
  /\ aim(ts, (ta + 1) % NUM_TERMS)
  /\ UNCHANGED <<ts, terminal_init, term_init_done, page>>

pit_handler == start_terminal \/ first_rotation \/ rotate

-----------------------------------------------------------------------------
change(i, t) ==
  /\ \E v \in Versions : page' = [page EXCEPT ![i] = [by |-> t, version |-> v]]
  /\ UNCHANGED <<ts, ta, terminal_init, term_init_done, video_mem, pt_user>>

\* A program prints, through terminal_write.
putc == change(video_mem, ta)

\* A program writes to the page vidmap gave it.
vidmap_write == change(pt_user, ta)

\* Mutant of keyboard_echo: keys are echoed where the kernel prints.
echo_to_video_mem == change(video_mem, ts)

\* Echo, backspace, ctrl-l and the blinking cursor, for the shown terminal.
keyboard_echo == change(VIDEO, ts)

\* The monitor is cleared, whoever is shown, and the first character of the
\* message printed before putc's sti() ends the section; the characters after
\* it are steps of putc, which may come between any others.
handle_exception ==
  /\ \E v \in Versions :
       page' = [page EXCEPT ![VIDEO]     = Blank,
                            ![video_mem] = [by |-> ta, version |-> v]]
  /\ UNCHANGED <<ts, ta, terminal_init, term_init_done, video_mem, pt_user>>

ScreensNext ==
  \/ alt_helper
  \/ pit_handler
  \/ putc
  \/ vidmap_write
  \/ keyboard_echo
  \/ handle_exception

ScreensSpec == ScreensInit /\ [][ScreensNext]_screenvars

-----------------------------------------------------------------------------
\* The page that holds the screen of terminal t at this moment.
ScreenOf(t) == page[page_for(ts, t)]

(***************************************************************************)
(* Once the terminals rotate, the kernel's pointer and the programs' page  *)
(* table entry agree, and point at the monitor for the program of the      *)
(* shown terminal only, whichever of ticks and switches came last.         *)
(***************************************************************************)
AimedAtOwnScreen ==
  term_init_done => video_mem = page_for(ts, ta) /\ pt_user = page_for(ts, ta)

(***************************************************************************)
(* The two together: counters and pointers stay in range while ticks start *)
(* terminals and switches copy pages, and both pointers are aimed right.   *)
(***************************************************************************)
ScreensInv == ScreensTypeOK /\ AimedAtOwnScreen

(***************************************************************************)
(* A terminal's screen, shown or put away, holds what its own programs and *)
(* the keys typed on it produced, and never another terminal's output.     *)
(***************************************************************************)
OwnScreen == \A t \in Terms : ScreenOf(t).by \in {t, Nobody}
=============================================================================
