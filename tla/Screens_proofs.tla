--------------------------- MODULE Screens_proofs ---------------------------
(***************************************************************************)
(* Proofs about Screens, for every number of terminals and versions.       *)
(***************************************************************************)
EXTENDS MCScreens, TLAPS

(***************************************************************************)
(* The pointers can only be right if the timer, once it rotates, never     *)
(* starts a terminal again: that is what terminal_init records.            *)
(***************************************************************************)
AimInv ==
  /\ ScreensInv
  /\ term_init_done <=> terminal_init > NUM_TERMS

\* The next terminal of the rotation is a terminal.
LEMMA NextType == ASSUME ta \in Terms PROVE (ta + 1) % NUM_TERMS \in Terms
<1>1. NUM_TERMS \in Nat \ {0} /\ ta \in 0 .. NUM_TERMS - 1
  BY ScreensAssumption DEF Terms
<1>2. CASE ta + 1 < NUM_TERMS
  <2>1. (ta + 1) % NUM_TERMS = ta + 1
    BY <1>1, <1>2
  <2> QED  BY <1>1, <1>2, <2>1 DEF Terms
<1>3. CASE ta + 1 = NUM_TERMS
  <2>1. (ta + 1) % NUM_TERMS = 0
    BY <1>1, <1>3
  <2> QED  BY <1>1, <2>1 DEF Terms
<1> QED  BY <1>1, <1>2, <1>3

\* A terminal has its page, and no two terminals are ever kept in the same.
LEMMA PageType ==
  ASSUME NEW s \in Terms, NEW t \in Terms
  PROVE  page_for(s, t) \in Pages /\ page_of(t) \in Pages /\ VIDEO \in Pages
BY ScreensAssumption DEF page_for, page_of, Pages, Terms, VIDEO

\* Two terminals never have the same page.
LEMMA PagesDiffer ==
  ASSUME NEW s \in Terms, NEW t \in Terms, NEW u \in Terms, t # u
  PROVE  page_for(s, t) # page_for(s, u)
BY ScreensAssumption DEF page_for, page_of, Pages, Terms, VIDEO

\* A new terminal's screen, and what programs draw, are contents.
LEMMA ContentType ==
  /\ Blank \in Content
  /\ \A t \in Terms, v \in Versions : [by |-> t, version |-> v] \in Content
<1>1. (CHOOSE v \in Versions : TRUE) \in Versions
  BY ScreensAssumption
<1> QED  BY <1>1 DEF Blank, Content

\* The copies of terminal_switch keep pages pages.
LEMMA CopyType ==
  ASSUME page \in [Pages -> Content], NEW s \in Terms, NEW t \in Terms
  PROVE  copied_pages(s, t) \in [Pages -> Content]
BY PageType DEF copied_pages

\* Aiming by ticks and switches gives pages.
LEMMA AimType ==
  ASSUME NEW s \in Terms, NEW t \in Terms, aim(s, t)
  PROVE  /\ video_mem' \in Pages /\ pt_user' \in Pages
         /\ video_mem' = page_for(s, t) /\ pt_user' = page_for(s, t)
BY PageType DEF aim

\* At boot both pointers are on the monitor and every page is blank.
LEMMA AimInit == ScreensInit => AimInv
<1> SUFFICES ASSUME ScreensInit PROVE AimInv
  OBVIOUS
<1>1. page \in [Pages -> Content]
  BY ContentType DEF ScreensInit
<1>2. 0 \in Terms /\ VIDEO \in Pages /\ 1 \in 1 .. NUM_TERMS + 1
  BY ScreensAssumption DEF Terms, Pages, VIDEO
<1>3. term_init_done = FALSE /\ term_init_done \in BOOLEAN
  BY DEF ScreensInit
<1>4. ScreensTypeOK
  BY <1>1, <1>2, <1>3 DEF ScreensInit, ScreensTypeOK
<1>5. ~ (terminal_init > NUM_TERMS)
  BY ScreensAssumption DEF ScreensInit
<1> QED  BY <1>3, <1>4, <1>5 DEF AimInv, ScreensInv, AimedAtOwnScreen

\* Every handler and every output keeps pointers and pages in order.
LEMMA AimStep == AimInv /\ [ScreensNext]_screenvars => AimInv'
<1> SUFFICES ASSUME AimInv, [ScreensNext]_screenvars PROVE AimInv'
  OBVIOUS
<1> USE DEF AimInv, ScreensInv
<1>0. /\ ts \in Terms /\ ta \in Terms /\ terminal_init \in 1 .. NUM_TERMS + 1
      /\ term_init_done \in BOOLEAN /\ NUM_TERMS \in Nat \ {0}
      /\ video_mem \in Pages /\ pt_user \in Pages /\ page \in [Pages -> Content]
  BY ScreensAssumption DEF ScreensTypeOK
<1>1. ASSUME NEW t \in Terms, terminal_switch(t) PROVE AimInv'
  <2>1. page' \in [Pages -> Content]
    BY <1>0, <1>1, CopyType DEF terminal_switch
  <2>2. CASE term_init_done
    <3>1. aim(t, ta)
      BY <1>1, <2>2 DEF terminal_switch, aim_after_switch
    <3> QED  BY <1>0, <1>1, <2>1, <3>1, AimType
             DEF terminal_switch, ScreensTypeOK, AimedAtOwnScreen
  <2>3. CASE ~ term_init_done
    BY <1>0, <1>1, <2>1, <2>3
       DEF terminal_switch, aim_after_switch, ScreensTypeOK, AimedAtOwnScreen
  <2> QED  BY <2>2, <2>3
<1>2. CASE start_terminal
  <2>1. terminal_init \in Terms /\ ~ term_init_done
    BY <1>0, <1>2 DEF start_terminal, Terms
  <2>2. page' \in [Pages -> Content]
    BY <1>0, <1>2, <2>1, CopyType DEF start_terminal
  <2> QED  BY <1>0, <1>2, <2>1, <2>2
           DEF start_terminal, ScreensTypeOK, AimedAtOwnScreen
<1>3. CASE first_rotation
  <2>1. 0 \in Terms /\ ta' \in Terms
    BY <1>0, <1>3, NextType DEF first_rotation, Terms
  <2>2. page' \in [Pages -> Content]
    BY <1>0, <1>3, <2>1, CopyType DEF first_rotation
  <2>3. aim(0, ta')
    BY <1>3 DEF first_rotation
  <2>4. /\ video_mem' \in Pages /\ pt_user' \in Pages
        /\ video_mem' = page_for(0, ta') /\ pt_user' = page_for(0, ta')
    BY <2>1, <2>3, PageType DEF aim
  <2> QED  BY <1>0, <1>3, <2>1, <2>2, <2>4
           DEF first_rotation, ScreensTypeOK, AimedAtOwnScreen
<1>4. CASE rotate
  <2>1. ta' \in Terms /\ aim(ts, ta')
    BY <1>0, <1>4, NextType DEF rotate
  <2>2. /\ video_mem' \in Pages /\ pt_user' \in Pages
        /\ video_mem' = page_for(ts, ta') /\ pt_user' = page_for(ts, ta')
    BY <1>0, <2>1, PageType DEF aim
  <2> QED  BY <1>0, <1>4, <2>1, <2>2 DEF rotate, ScreensTypeOK, AimedAtOwnScreen
<1>5. ASSUME NEW i \in Pages, NEW t \in Terms, change(i, t) PROVE AimInv'
  <2>1. page' \in [Pages -> Content]
    BY <1>0, <1>5, ContentType DEF change
  <2> QED  BY <1>0, <1>5, <2>1 DEF change, ScreensTypeOK, AimedAtOwnScreen
<1>6. CASE putc \/ vidmap_write \/ keyboard_echo
  BY <1>0, <1>5, <1>6, PageType DEF putc, vidmap_write, keyboard_echo
<1>7. CASE handle_exception
  <2>1. page' \in [Pages -> Content]
    BY <1>0, <1>7, ContentType DEF handle_exception
  <2> QED  BY <1>0, <1>7, <2>1 DEF handle_exception, ScreensTypeOK, AimedAtOwnScreen
<1>8. CASE UNCHANGED screenvars
  BY <1>0, <1>8 DEF screenvars, ScreensTypeOK, AimedAtOwnScreen
<1> QED  BY <1>1, <1>2, <1>3, <1>4, <1>6, <1>7, <1>8
         DEF ScreensNext, alt_helper, pit_handler

(***************************************************************************)
(* terminal_switch and the timer keep both pointers aimed at the screen of *)
(* the program that runs, whatever the windows.                            *)
(***************************************************************************)
THEOREM ScreensCorrect == ScreensSpec => []ScreensInv
<1>1. AimInv => ScreensInv
  BY DEF AimInv
<1> QED  BY <1>1, AimInit, AimStep, PTL DEF ScreensSpec
-----------------------------------------------------------------------------
(***************************************************************************)
(* While no key is handled before all base shells run, the terminal that   *)
(* is being started is the one shown and both pointers are on the monitor; *)
(* so in every state they are aimed at the running program's screen.       *)
(***************************************************************************)
ShownWhileStarting ==
  ~ term_init_done => ts = ta /\ video_mem = VIDEO /\ pt_user = VIDEO

VirtualInv == AimInv /\ ShownWhileStarting

\* Starting a terminal shows it, and nothing else runs before the rotation.
LEMMA VirtualInvInit == ScreensInit => VirtualInv
BY AimInit DEF VirtualInv, ShownWhileStarting, ScreensInit

\* Without early switches, only the timer moves terminals before the rotation.
LEMMA VirtualInvStep ==
  ASSUME ScreenWindows = {}, VirtualInv, [ScreensNext]_screenvars
  PROVE  VirtualInv'
<1>1. AimInv'
  BY AimStep DEF VirtualInv
<1>2. /\ ShownWhileStarting
      /\ terminal_init \in 1 .. NUM_TERMS + 1 /\ NUM_TERMS \in Nat
      /\ term_init_done <=> terminal_init > NUM_TERMS
  BY ScreensAssumption DEF VirtualInv, AimInv, ScreensInv, ScreensTypeOK
<1> SUFFICES ShownWhileStarting'
  BY <1>1 DEF VirtualInv
<1>3. ASSUME NEW t \in Terms, terminal_switch(t) PROVE ShownWhileStarting'
  BY <1>3 DEF terminal_switch, ShownWhileStarting
<1>4. CASE start_terminal
  <2>1. ~ term_init_done
    BY <1>2, <1>4 DEF start_terminal
  <2> QED  BY <1>2, <1>4, <2>1 DEF start_terminal, ShownWhileStarting
<1>5. CASE first_rotation
  BY <1>5 DEF first_rotation, ShownWhileStarting
<1>6. CASE rotate
  <2>1. term_init_done
    BY <1>2, <1>6 DEF rotate
  <2> QED  BY <1>6, <2>1 DEF rotate, ShownWhileStarting
<1>7. ASSUME UNCHANGED <<ts, ta, term_init_done, video_mem, pt_user>>
      PROVE  ShownWhileStarting'
  BY <1>2, <1>7 DEF ShownWhileStarting
<1>8. CASE putc \/ vidmap_write \/ keyboard_echo \/ handle_exception \/ UNCHANGED screenvars
  BY <1>7, <1>8
     DEF putc, vidmap_write, keyboard_echo, handle_exception, change, screenvars
<1> QED  BY <1>3, <1>4, <1>5, <1>6, <1>8 DEF ScreensNext, alt_helper, pit_handler

\* Every state: both pointers are aimed at the running program's screen.
LEMMA AlwaysAimed ==
  ASSUME VirtualInv
  PROVE  video_mem = page_for(ts, ta) /\ pt_user = page_for(ts, ta)
<1>1. CASE term_init_done
  BY <1>1 DEF VirtualInv, AimInv, ScreensInv, AimedAtOwnScreen
<1>2. CASE ~ term_init_done
  BY <1>2 DEF VirtualInv, ShownWhileStarting, page_for
<1> QED  BY <1>1, <1>2

(***************************************************************************)
(* The copies of terminal_switch move every screen to the page where it is *)
(* looked for afterwards: the one put away, the one shown and the others.  *)
(***************************************************************************)
LEMMA CopyKeepsScreens ==
  ASSUME page \in [Pages -> Content],
         NEW s \in Terms, NEW t \in Terms, s # t, NEW u \in Terms
  PROVE  copied_pages(s, t)[page_for(t, u)] = page[page_for(s, u)]
BY PageType, ScreensAssumption
   DEF copied_pages, page_for, page_of, VIDEO, Terms, Pages

(***************************************************************************)
(* Writing the page aimed at for one terminal changes its screen and no    *)
(* other.                                                                  *)
(***************************************************************************)
LEMMA WriteOneScreen ==
  ASSUME page \in [Pages -> Content], NEW t \in Terms, NEW u \in Terms, NEW c,
         ts \in Terms
  PROVE  [page EXCEPT ![page_for(ts, t)] = c][page_for(ts, u)]
           = IF u = t THEN c ELSE page[page_for(ts, u)]
<1>1. page_for(ts, t) \in Pages /\ page_for(ts, u) \in Pages
  BY PageType
<1>2. u # t => page_for(ts, u) # page_for(ts, t)
  BY PagesDiffer
<1> QED  BY <1>1, <1>2

-----------------------------------------------------------------------------
\* What the programs of terminal t draw.
LEMMA DrawnType ==
  ASSUME NEW t \in Terms, NEW v \in Versions
  PROVE  /\ [by |-> t, version |-> v] \in DrawnBy(t)
         /\ [by |-> t, version |-> v] \in UNION {DrawnBy(u) : u \in Terms}
BY DEF DrawnBy, Content

\* A step that shows another terminal and keeps every screen.
LEMMA ShowStep ==
  ASSUME ts' \in Terms, \A u \in Terms : ScreenOf(u)' = ScreenOf(u)
  PROVE  Virtual!Show
BY DEF Virtual!Show

\* Output made for terminal t through the page that holds its screen.
LEMMA DrawStep ==
  ASSUME page \in [Pages -> Content], ts \in Terms, NEW t \in Terms,
         change(page_for(ts, t), t)
  PROVE  Virtual!Draw
<1>1. PICK v \in Versions :
        page' = [page EXCEPT ![page_for(ts, t)] = [by |-> t, version |-> v]]
  BY DEF change
<1> DEFINE c == [by |-> t, version |-> v]
<1>2. ts' = ts
  BY DEF change
<1>3. \A u \in Terms : ScreenOf(u)' = IF u = t THEN c ELSE ScreenOf(u)
  BY <1>1, <1>2, WriteOneScreen DEF ScreenOf
<1>4. c \in DrawnBy(t) /\ c \in UNION {DrawnBy(u) : u \in Terms}
  BY DrawnType
<1> HIDE DEF c
<1>5. [u \in Terms |-> ScreenOf(u)'] = [[u \in Terms |-> ScreenOf(u)] EXCEPT ![t] = c]
  BY <1>3
<1> QED  BY <1>2, <1>4, <1>5 DEF Virtual!Draw

\* A fault clears the monitor and prints on the screen of the program.
LEMMA FaultStep ==
  ASSUME page \in [Pages -> Content], ts \in Terms, ta \in Terms,
         video_mem = page_for(ts, ta), handle_exception
  PROVE  Virtual!Fault
<1>1. PICK v \in Versions :
        page' = [page EXCEPT ![VIDEO] = Blank,
                             ![video_mem] = [by |-> ta, version |-> v]]
  BY DEF handle_exception
<1> DEFINE c == [by |-> ta, version |-> v]
           cleared == [page EXCEPT ![VIDEO] = Blank]
<1>2. ts' = ts /\ VIDEO = page_for(ts, ts) /\ VIDEO \in Pages
  BY PageType DEF handle_exception, page_for
<1>3. cleared \in [Pages -> Content] /\ page' = [cleared EXCEPT ![video_mem] = c]
  BY <1>1, <1>2, ContentType
<1>4. \A u \in Terms : cleared[page_for(ts, u)] = IF u = ts THEN Blank ELSE ScreenOf(u)
  <2> TAKE u \in Terms
  <2>1. page_for(ts, u) \in Pages /\ (u # ts => page_for(ts, u) # VIDEO)
    BY <1>2, PageType, PagesDiffer
  <2> QED  BY <1>2, <2>1 DEF ScreenOf
<1>5. \A u \in Terms : ScreenOf(u)' = IF u = ta THEN c ELSE cleared[page_for(ts, u)]
  <2> TAKE u \in Terms
  <2>1. page_for(ts, u) \in Pages /\ video_mem \in Pages
    BY PageType
  <2>2. u # ta => page_for(ts, u) # video_mem
    BY PagesDiffer
  <2> HIDE DEF c, cleared
  <2> QED  BY <1>2, <1>3, <2>1, <2>2 DEF ScreenOf
<1>6. c \in DrawnBy(ta) /\ c \in UNION {DrawnBy(u) : u \in Terms}
  BY DrawnType
<1> HIDE DEF c, cleared
<1>7. [u \in Terms |-> ScreenOf(u)']
        = [[u \in Terms |-> ScreenOf(u)] EXCEPT ![ts] = Blank, ![ta] = c]
  BY <1>4, <1>5
<1> QED  BY <1>2, <1>6, <1>7 DEF Virtual!Fault

\* At boot every terminal has a blank screen and terminal 0 is shown.
LEMMA VirtualInitially == ScreensInit => Virtual!VirtualInit
<1> SUFFICES ASSUME ScreensInit PROVE Virtual!VirtualInit
  OBVIOUS
<1>1. 0 \in Terms
  BY ScreensAssumption DEF Terms
<1>2. \A t \in Terms : ScreenOf(t) = Blank
  BY <1>1, PageType DEF ScreensInit, ScreenOf
<1> QED  BY <1>1, <1>2 DEF Virtual!VirtualInit, ScreensInit

\* Every step of the kernel is a step of the virtual screens, or none.
LEMMA VirtualStep ==
  ASSUME VirtualInv, [ScreensNext]_screenvars, VirtualInv'
  PROVE  \/ Virtual!Draw \/ Virtual!Fault \/ Virtual!Show
         \/ UNCHANGED <<[t \in Terms |-> ScreenOf(t)], ts>>
<1>0. /\ page \in [Pages -> Content] /\ ts \in Terms /\ ta \in Terms
      /\ ts' \in Terms
      /\ video_mem = page_for(ts, ta) /\ pt_user = page_for(ts, ta)
  BY AlwaysAimed DEF VirtualInv, AimInv, ScreensInv, ScreensTypeOK
<1>1. ASSUME NEW t \in Terms, ts' = t,
             page' = IF t = ts THEN page ELSE copied_pages(ts, t)
      PROVE  Virtual!Show
  <2>1. \A u \in Terms : ScreenOf(u)' = ScreenOf(u)
    BY <1>0, <1>1, CopyKeepsScreens DEF ScreenOf
  <2> QED  BY <1>0, <2>1, ShowStep
<1>2. CASE alt_helper
  BY <1>0, <1>1, <1>2 DEF alt_helper, terminal_switch
<1>3. CASE start_terminal
  BY <1>0, <1>1, <1>3 DEF start_terminal
<1>4. CASE first_rotation
  BY <1>0, <1>1, <1>4 DEF first_rotation
<1>5. CASE rotate \/ UNCHANGED screenvars
  BY <1>5 DEF rotate, screenvars, ScreenOf
<1>6. CASE putc \/ vidmap_write
  BY <1>0, <1>6, DrawStep DEF putc, vidmap_write
<1>7. CASE keyboard_echo
  <2>1. VIDEO = page_for(ts, ts)
    BY DEF page_for
  <2> QED  BY <1>0, <1>7, <2>1, DrawStep DEF keyboard_echo
<1>8. CASE handle_exception
  BY <1>0, <1>8, FaultStep
<1> QED  BY <1>2, <1>3, <1>4, <1>5, <1>6, <1>7, <1>8 DEF ScreensNext, pit_handler

(***************************************************************************)
(* Four pages, the copies of terminal_switch and two aimed pointers        *)
(* implement one screen per terminal, while the user waits for the base    *)
(* shells before switching.                                                *)
(***************************************************************************)
THEOREM ScreensRefine ==
  ASSUME ScreenWindows = {} PROVE ScreensSpec => ImplementsVirtualScreens
<1>1. VirtualInv /\ [ScreensNext]_screenvars => VirtualInv'
  BY VirtualInvStep
<1>2. VirtualInv /\ [ScreensNext]_screenvars /\ VirtualInv'
        => [Virtual!Draw \/ Virtual!Fault \/ Virtual!Show]_<<[t \in Terms |-> ScreenOf(t)], ts>>
  BY VirtualStep
<1> QED  BY <1>1, <1>2, VirtualInvInit, VirtualInitially, PTL
         DEF ScreensSpec, ImplementsVirtualScreens, Virtual!VirtualSpec

\* Each of the promised steps leaves a screen to its own terminal.
LEMMA OwnStep ==
  ASSUME OwnScreen, ts \in Terms,
         \/ Virtual!Draw \/ Virtual!Fault \/ Virtual!Show
         \/ UNCHANGED <<[t \in Terms |-> ScreenOf(t)], ts>>
  PROVE  OwnScreen'
<1> SUFFICES ASSUME NEW u \in Terms PROVE ScreenOf(u)'.by \in {u, Nobody}
  BY DEF OwnScreen
<1>1. ScreenOf(u).by \in {u, Nobody} /\ Blank.by = Nobody
  BY DEF OwnScreen, Blank
<1>2. ASSUME NEW t \in Terms, NEW c \in DrawnBy(t) PROVE c.by = t
  BY DEF DrawnBy
<1>3. CASE Virtual!Draw
  BY <1>1, <1>2, <1>3 DEF Virtual!Draw
<1>4. CASE Virtual!Fault
  BY <1>1, <1>2, <1>4 DEF Virtual!Fault
<1>5. CASE Virtual!Show \/ UNCHANGED <<[t \in Terms |-> ScreenOf(t)], ts>>
  BY <1>1, <1>5 DEF Virtual!Show
<1> QED  BY <1>3, <1>4, <1>5

(***************************************************************************)
(* A terminal's screen never holds another terminal's output, whatever     *)
(* the order of ticks, switches, output, echo and faults.                  *)
(***************************************************************************)
THEOREM OwnScreenCorrect ==
  ASSUME ScreenWindows = {} PROVE ScreensSpec => []OwnScreen
<1>1. ScreensInit => OwnScreen
  BY PageType, ScreensAssumption DEF ScreensInit, OwnScreen, ScreenOf, Blank, Terms
<1>2. VirtualInv /\ [ScreensNext]_screenvars => VirtualInv'
  BY VirtualInvStep
<1>3. VirtualInv /\ [ScreensNext]_screenvars /\ VirtualInv' /\ OwnScreen => OwnScreen'
  BY VirtualStep, OwnStep DEF VirtualInv, AimInv, ScreensInv, ScreensTypeOK
<1> QED  BY <1>1, <1>2, <1>3, VirtualInvInit, PTL DEF ScreensSpec

=============================================================================
