-------------------------- MODULE LineInput_proofs --------------------------
(***************************************************************************)
(* Proofs about LineInput, for every number of terminals, buffer length,   *)
(* tab width and read size.                                                *)
(***************************************************************************)
EXTENDS MCLineInput, SequenceTheorems, WellFoundedInduction, TLAPS

-----------------------------------------------------------------------------
(* Terminals and buffers. *)

\* The terminal pit_handler goes to is a terminal.
LEMMA NextType == ASSUME ta \in Terms PROVE (ta + 1) % NUM_TERMS \in Terms
<1>1. NUM_TERMS \in Nat \ {0} /\ ta \in 0 .. NUM_TERMS - 1
  BY InputAssumption DEF Terms
<1>2. CASE ta + 1 < NUM_TERMS
  <2>1. (ta + 1) % NUM_TERMS = ta + 1
    BY <1>1, <1>2
  <2> QED  BY <1>1, <1>2, <2>1 DEF Terms
<1>3. CASE ta + 1 = NUM_TERMS
  <2>1. (ta + 1) % NUM_TERMS = 0
    BY <1>1, <1>3
  <2> QED  BY <1>1, <2>1 DEF Terms
<1> QED  BY <1>1, <1>2, <1>3

\* A buffer and the index that goes with it.
Clean(buf, idx) ==
  /\ buf \in Buffers
  /\ idx \in 0 .. KEY_BUF_SIZE
  /\ \A i \in Index : i >= idx => buf[i] = NUL
  /\ buf[KEY_BUF_SIZE - 1].ch # "char"

\* The invariant speaks of the buffer in use and of those put away.
LEMMA InvByBuffer ==
  InputInv <=>
    /\ InputTypeOK
    /\ Clean(keyboard_buf, key_idx)
    /\ \A t \in Terms : t # ts => Clean(terminal_buf[t], buf_idx[t])
BY DEF InputInv, InputTypeOK, CleanPastIndex, Clean, BufferOf, IndexOf

\* A fresh buffer.
LEMMA EmptyClean == Clean(EmptyBuffer, 0)
<1>1. KEY_BUF_SIZE \in Nat \ {0} /\ KEY_BUF_SIZE - 1 \in Index
  BY InputAssumption DEF Index
<1>2. EmptyBuffer[KEY_BUF_SIZE - 1].ch = "nul"
  BY <1>1 DEF EmptyBuffer, NUL
<1> QED  BY <1>1, <1>2 DEF Clean, EmptyBuffer, Buffers

\* An empty buffer is clean whatever index is kept for it.
LEMMA EmptyAnyIndex ==
  ASSUME NEW idx \in 0 .. KEY_BUF_SIZE PROVE Clean(EmptyBuffer, idx)
BY EmptyClean DEF Clean, EmptyBuffer

\* write_char fills the cell at the index, the last one with a newline only.
LEMMA WriteClean ==
  ASSUME Clean(keyboard_buf, key_idx), ts \in Terms,
         NEW ch \in {"char", "newline"}, write_char(ch)
  PROVE  Clean(keyboard_buf, key_idx)'
<1>1. KEY_BUF_SIZE \in Nat \ {0}
  BY InputAssumption
<1>2. CASE HasRoom(key_idx, ch)
  <2>1. key_idx \in Index /\ (key_idx = KEY_BUF_SIZE - 1 => ch = "newline")
    BY <1>1, <1>2 DEF HasRoom, Clean, Index
  <2>2. /\ keyboard_buf' = [keyboard_buf EXCEPT ![key_idx] = [ch |-> ch, from |-> ts]]
        /\ key_idx' = key_idx + 1
    BY <1>2 DEF write_char
  <2>3. keyboard_buf' \in Buffers
    BY <2>1, <2>2 DEF Clean, Buffers, Cells
  <2>4. keyboard_buf'[KEY_BUF_SIZE - 1].ch # "char"
    <3>1. KEY_BUF_SIZE - 1 \in Index
      BY <1>1 DEF Index
    <3>2. CASE key_idx = KEY_BUF_SIZE - 1
      BY <2>1, <2>2, <3>1, <3>2 DEF Clean, Buffers
    <3>3. CASE key_idx # KEY_BUF_SIZE - 1
      BY <2>1, <2>2, <3>1, <3>3 DEF Clean, Buffers
    <3> QED  BY <3>2, <3>3
  <2>5. \A i \in Index : i >= key_idx' => keyboard_buf'[i] = NUL
    BY <1>1, <2>1, <2>2 DEF Clean, Buffers, Index
  <2> QED  BY <1>1, <2>1, <2>2, <2>3, <2>4, <2>5 DEF Clean, Index
<1>3. CASE ~ HasRoom(key_idx, ch)
  BY <1>3 DEF write_char, Clean
<1> QED  BY <1>2, <1>3

\* A tab stops before the last cell.
LEMMA TabClean ==
  ASSUME Clean(keyboard_buf, key_idx), ts \in Terms, write_tab
  PROVE  Clean(keyboard_buf, key_idx)'
<1> DEFINE room == IF key_idx >= KEY_BUF_SIZE - 1 THEN 0 ELSE KEY_BUF_SIZE - 1 - key_idx
           n == IF TAB_SPACE < room THEN TAB_SPACE ELSE room
<1>1. /\ KEY_BUF_SIZE \in Nat \ {0} /\ TAB_SPACE \in Nat
      /\ key_idx \in 0 .. KEY_BUF_SIZE
  BY InputAssumption DEF Clean
<1>2. n \in Nat /\ (n > 0 => key_idx + n <= KEY_BUF_SIZE - 1)
  BY <1>1
<1>3. /\ keyboard_buf' = [i \in Index |->
             IF tab_written(i, n) THEN [ch |-> "char", from |-> ts] ELSE keyboard_buf[i]]
      /\ key_idx' = key_idx + n
  BY DEF write_tab
<1> HIDE DEF n, room
<1>4. keyboard_buf' \in Buffers
  BY <1>3 DEF Clean, Buffers, Cells
<1>5. KEY_BUF_SIZE - 1 \in Index /\ ~ tab_written(KEY_BUF_SIZE - 1, n)
  BY <1>1, <1>2 DEF Index, tab_written
<1>6. \A i \in Index : i >= key_idx' => ~ tab_written(i, n) /\ i >= key_idx
  BY <1>1, <1>2, <1>3 DEF Index, tab_written
<1>7. key_idx' \in 0 .. KEY_BUF_SIZE
  BY <1>1, <1>2, <1>3
<1> QED  BY <1>3, <1>4, <1>5, <1>6, <1>7 DEF Clean

\* delete_char leaves a NUL where it takes the index back to.
LEMMA DeleteClean ==
  ASSUME Clean(keyboard_buf, key_idx), delete_char
  PROVE  Clean(keyboard_buf, key_idx)'
<1>1. KEY_BUF_SIZE \in Nat \ {0} /\ key_idx \in 0 .. KEY_BUF_SIZE
  BY InputAssumption DEF Clean
<1>2. CASE key_idx > 0
  <2>1. key_idx - 1 \in Index /\ KEY_BUF_SIZE - 1 \in Index
    BY <1>1, <1>2 DEF Index
  <2>2. key_idx' = key_idx - 1 /\ keyboard_buf' = [keyboard_buf EXCEPT ![key_idx - 1] = NUL]
    BY <1>2 DEF delete_char
  <2>3. keyboard_buf' \in Buffers
    BY <2>2 DEF Clean, Buffers
  <2>4. keyboard_buf'[KEY_BUF_SIZE - 1].ch # "char"
    BY <2>1, <2>2 DEF Clean, Buffers, NUL
  <2>5. \A i \in Index : i >= key_idx' => keyboard_buf'[i] = NUL
    BY <1>1, <2>1, <2>2 DEF Clean, Buffers, Index
  <2> QED  BY <1>1, <1>2, <2>2, <2>3, <2>4, <2>5 DEF Clean
<1>3. CASE ~ (key_idx > 0)
  BY <1>3 DEF delete_char, Clean
<1> QED  BY <1>2, <1>3

-----------------------------------------------------------------------------
(* What terminal_read copies. *)

Below == {ss \in Nat \X Nat : ss[1] < ss[2]}

\* A set of natural numbers that has an element has a smallest one.
LEMMA LeastNumber ==
  ASSUME NEW S \in SUBSET Nat, S # {}
  PROVE  \E x \in S : \A y \in S : x <= y
<1>1. OpToRel(<, Nat) = Below
  BY DEF OpToRel, Below
<1>2. IsWellFoundedOn(Below, Nat)
  BY <1>1, NatLessThanWellFounded
<1>3. PICK x \in S : \A y \in S : ~ (<<y, x>> \in Below)
  BY <1>2, WFMin
<1>4. ASSUME NEW y \in S PROVE x <= y
  <2>1. <<y, x>> \in Nat \X Nat /\ <<y, x>> \notin Below
    BY <1>3
  <2>2. ~ (y < x)
    BY <2>1 DEF Below
  <2> QED  BY <2>2
<1> QED  BY <1>4

\* The copy ends at the first newline, or where the caller's count ends it.
LEMMA CopyEndIs ==
  ASSUME NEW n \in Nat
  PROVE  /\ CopyEnd(n) \in 0 .. n
         /\ CopyEnd(n) = n \/ CellAt(CopyEnd(n)).ch = "newline"
         /\ \A i \in 0 .. CopyEnd(n) - 1 : CellAt(i).ch # "newline"
<1> DEFINE S == {e \in 0 .. n : e = n \/ CellAt(e).ch = "newline"}
<1>1. S \in SUBSET Nat /\ n \in S
  OBVIOUS
<1>2. PICK e \in S : \A y \in S : e <= y
  BY <1>1, LeastNumber
<1>3. /\ e \in 0 .. n
      /\ e = n \/ CellAt(e).ch = "newline"
      /\ \A i \in 0 .. e - 1 : CellAt(i).ch # "newline"
  BY <1>2
<1> QED  BY <1>3 DEF CopyEnd

\* What terminal_read finds at an index.
LEMMA CellType ==
  ASSUME keyboard_buf \in Buffers
  PROVE  \A i : CellAt(i) \in Cells \cup {NUL, Outside}
BY DEF CellAt, Buffers

\* What terminal_read copies.
LEMMA CopiedType ==
  ASSUME keyboard_buf \in Buffers, NEW n \in Nat
  PROVE  /\ Copied(n) \in Seq(Cells \cup {NUL, Outside})
         /\ Len(Copied(n)) = CopyEnd(n) + 1
         /\ \A i \in 1 .. CopyEnd(n) + 1 : Copied(n)[i] = CellAt(i - 1)
<1>1. CopyEnd(n) + 1 \in Nat
  BY CopyEndIs
<1>2. \A i \in 1 .. CopyEnd(n) + 1 : CellAt(i - 1) \in Cells \cup {NUL, Outside}
  BY CellType
<1> QED  BY <1>1, <1>2 DEF Copied
-----------------------------------------------------------------------------
(* Buffer and index belong together. *)

\* The variables other than the buffers and what was delivered.
LEMMA ReaderType ==
  ASSUME InputTypeOK, reader[ta] # Idle
  PROVE  reader[ta].nbytes \in ReadSizes
BY DEF InputTypeOK, Readers, Idle

\* The buffers are clean at boot.
LEMMA InputStart == InputInit => InputInv
<1> SUFFICES ASSUME InputInit PROVE InputInv
  OBVIOUS
<1>1. 0 \in Terms /\ 0 \in 0 .. KEY_BUF_SIZE
  BY InputAssumption DEF Terms
<1>2. EmptyBuffer \in Buffers
  BY EmptyClean DEF Clean
<1>3. InputTypeOK
  BY <1>1, <1>2 DEF InputInit, InputTypeOK, Readers
<1> QED  BY <1>3, EmptyClean, InvByBuffer DEF InputInit

\* A key other than alt and a function key edits the buffer in use only.
LEMMA EditInv ==
  ASSUME InputInv, Clean(keyboard_buf, key_idx)', delivered' = Nothing,
         UNCHANGED <<ts, ta, terminal_buf, buf_idx, reader>>
  PROVE  InputInv'
<1>1. InputTypeOK'
  BY DEF InputInv, InputTypeOK, Clean
<1>2. \A t \in Terms : t # ts' => Clean(terminal_buf'[t], buf_idx'[t])
  BY InvByBuffer
<1>3. InputTypeOK' /\ Clean(keyboard_buf, key_idx)'
        /\ (\A t \in Terms : t # ts => Clean(terminal_buf[t], buf_idx[t]))'
      => InputInv'
  BY DEF InputInv, InputTypeOK, CleanPastIndex, Clean, BufferOf, IndexOf
<1> QED  BY <1>1, <1>2, <1>3 DEF Clean

\* Steps of a program in terminal_read and ticks leave the buffers alone.
LEMMA SameBuffersInv ==
  ASSUME InputInv, InputTypeOK',
         UNCHANGED <<ts, keyboard_buf, key_idx, terminal_buf, buf_idx>>
  PROVE  InputInv'
BY DEF InputInv, CleanPastIndex, BufferOf, IndexOf

\* Every key, read, switch, halt and tick keeps buffer and index together.
LEMMA InputStep == InputInv /\ [InputNext]_ivars => InputInv'
<1> SUFFICES ASSUME InputInv, [InputNext]_ivars PROVE InputInv'
  OBVIOUS
<1>0. /\ InputTypeOK /\ ts \in Terms /\ ta \in Terms
      /\ Clean(keyboard_buf, key_idx)
      /\ \A t \in Terms : t # ts => Clean(terminal_buf[t], buf_idx[t])
  BY InvByBuffer DEF InputTypeOK
<1>1. CASE type_key
  BY <1>0, <1>1, WriteClean, EditInv DEF type_key
<1>2. CASE type_tab
  BY <1>0, <1>2, TabClean, EditInv DEF type_tab
<1>3. CASE type_backspace
  BY <1>0, <1>3, DeleteClean, EditInv DEF type_backspace
<1>4. CASE ctrl_helper
  <2>1. Clean(keyboard_buf, key_idx)'
    BY <1>4, EmptyClean DEF ctrl_helper, clear_keyboard_buf, Clean
  <2> QED  BY <1>4, <2>1, EditInv DEF ctrl_helper
<1>5. ASSUME NEW t \in Terms, terminal_switch(t) PROVE InputInv'
  <2>1. /\ keyboard_buf' = terminal_buf[t] /\ key_idx' = buf_idx[t]
        /\ terminal_buf' = [terminal_buf EXCEPT ![ts] = keyboard_buf]
        /\ buf_idx' = [buf_idx EXCEPT ![ts] = key_idx]
        /\ ts' = t /\ t # ts /\ ta' = ta /\ reader' = reader
        /\ delivered' = Nothing
    BY <1>5 DEF terminal_switch, put_away, take_out
  <2>2. InputTypeOK'
    BY <1>0, <2>1 DEF InputTypeOK
  <2>3. CleanPastIndex'
    <3> SUFFICES ASSUME NEW u \in Terms
                 PROVE  /\ \A i \in Index : i >= IndexOf(u)' => BufferOf(u)'[i] = NUL
                        /\ BufferOf(u)'[KEY_BUF_SIZE - 1].ch # "char"
      BY DEF CleanPastIndex
    <3>1. BufferOf(u)' = BufferOf(u) /\ IndexOf(u)' = IndexOf(u)
      BY <1>0, <2>1 DEF BufferOf, IndexOf, InputTypeOK
    <3> QED  BY <3>1 DEF InputInv, CleanPastIndex
  <2> QED  BY <2>2, <2>3 DEF InputInv
<1>6. ASSUME NEW n \in ReadSizes, terminal_read(n) PROVE InputInv'
  <2>1. InputTypeOK'
    BY <1>0, <1>6 DEF terminal_read, InputTypeOK, Readers, Scanning
  <2> QED  BY <1>6, <2>1, SameBuffersInv DEF terminal_read
<1>7. CASE scan_done
  <2>1. CopyReady(reader[ta].nbytes) \in Readers
    <3>1. reader[ta] # Idle
      BY <1>7 DEF scan_done, Idle
    <3> QED  BY <1>0, <3>1, ReaderType DEF Readers, CopyReady
  <2>2. InputTypeOK'
    BY <1>0, <1>7, <2>1 DEF scan_done, InputTypeOK
  <2> QED  BY <1>7, <2>2, SameBuffersInv DEF scan_done
<1>8. CASE copy_line
  <2> DEFINE n == reader[ta].nbytes
  <2>1. n \in ReadSizes /\ n \in Nat
    <3>1. reader[ta] # Idle
      BY <1>8 DEF copy_line, Idle
    <3> QED  BY <1>0, <3>1, ReaderType, InputAssumption
  <2>2. delivered' \in Deliveries
    BY <1>0, <1>8, <2>1, CopiedType DEF copy_line, Deliveries, Clean
  <2>3. Clean(keyboard_buf, key_idx)'
    BY <1>8, EmptyClean DEF copy_line, clear_keyboard_buf, Clean
  <2>4. InputTypeOK'
    BY <1>0, <1>8, <2>2, <2>3 DEF copy_line, InputTypeOK, Readers, Clean
  <2>5. \A t \in Terms : t # ts' => Clean(terminal_buf[t], buf_idx[t])'
    BY <1>0, <1>8 DEF copy_line, Clean
  <2> QED  BY <2>3, <2>4, <2>5
           DEF InputInv, CleanPastIndex, Clean, BufferOf, IndexOf
<1>9. CASE halt_helper
  <2>1. EmptyBuffer \in Buffers
    BY EmptyClean DEF Clean
  <2>2. Clean(keyboard_buf, key_idx)'
    BY <1>0, <1>9, EmptyClean DEF halt_helper, clear_keyboard_buf, Clean
  <2>3. InputTypeOK'
    BY <1>0, <1>9, <2>1, <2>2 DEF halt_helper, InputTypeOK, Clean
  <2>4. ASSUME NEW t \in Terms, t # ts' PROVE Clean(terminal_buf[t], buf_idx[t])'
    <3>1. CASE t = ta
      BY <1>0, <1>9, <3>1, EmptyAnyIndex DEF halt_helper, InputTypeOK, Clean
    <3>2. CASE t # ta
      BY <1>0, <1>9, <2>4, <3>2 DEF halt_helper, InputTypeOK, Clean
    <3> QED  BY <3>1, <3>2
  <2> QED  BY <2>2, <2>3, <2>4
           DEF InputInv, CleanPastIndex, Clean, BufferOf, IndexOf
<1>10. CASE pit_handler
  <2>1. InputTypeOK'
    BY <1>0, <1>10, NextType DEF pit_handler, InputTypeOK
  <2> QED  BY <1>10, <2>1, SameBuffersInv DEF pit_handler
<1>11. CASE UNCHANGED ivars
  <2>1. InputTypeOK'
    BY <1>0, <1>11 DEF ivars, InputTypeOK
  <2> QED  BY <1>11, <2>1, SameBuffersInv DEF ivars
<1> QED  BY <1>1, <1>2, <1>3, <1>4, <1>5, <1>6, <1>7, <1>8, <1>9, <1>10, <1>11
         DEF InputNext, keyboard_handler, alt_helper

(***************************************************************************)
(* Buffer and index of every terminal stay together, with keys, ticks and  *)
(* halts at any moment, and Enter always finds a cell.                     *)
(***************************************************************************)
THEOREM InputCorrect == InputSpec => []InputInv
BY InputStart, InputStep, PTL DEF InputSpec
-----------------------------------------------------------------------------
(***************************************************************************)
(* What is read.  Between terminal_read's last scan and its copy nothing   *)
(* comes, as long as the gap between them is closed: the terminal that is  *)
(* about to copy has the CPU, is the one shown, and its line is still in   *)
(* the buffer.                                                             *)
(***************************************************************************)
NoGap == "gap" \notin InputWindows

LineIsThere ==
  \A t \in Terms : reader[t].at = "copy" =>
    t = ta /\ ts = ta /\ ScanFindsNewline

OwnBuffers == \A t \in Terms, i \in Index : BufferOf(t)[i].from \in {t, -1}

ReadInv ==
  /\ InputInv
  /\ LineIsThere
  /\ OwnBuffers
  /\ OwnTyping
  /\ ReadsALine

\* Nothing was handed over: nothing to show about it.
LEMMA NothingRead ==
  ASSUME InputInv, LineIsThere, OwnBuffers, delivered = Nothing
  PROVE  ReadInv
BY DEF ReadInv, OwnBuffers, OwnTyping, ReadsALine

\* The copy stops at or before the newline the scan met, so that it takes
\* typed characters only.
LEMMA CopiesTyped ==
  ASSUME InputInv, ScanFindsNewline, OwnBuffers, NEW n \in Nat
  PROVE  /\ \A j \in 0 .. CopyEnd(n) :
              /\ j \in Index /\ j < key_idx
              /\ CellAt(j) \in Cells /\ CellAt(j).from = ts
         /\ \A j \in 0 .. CopyEnd(n) - 1 : CellAt(j).ch = "char"
<1>0. /\ keyboard_buf \in Buffers /\ ts \in Terms /\ key_idx \in 0 .. KEY_BUF_SIZE
      /\ KEY_BUF_SIZE \in Nat
      /\ \A j \in Index : j >= key_idx => keyboard_buf[j] = NUL
  BY InputAssumption, InvByBuffer DEF InputTypeOK, Clean
<1>1. PICK i \in Index : /\ keyboard_buf[i].ch = "newline"
                         /\ \A j \in 0 .. i - 1 : keyboard_buf[j] # NUL
  BY DEF ScanFindsNewline
<1>2. keyboard_buf[i] # NUL /\ CellAt(i).ch = "newline"
  BY <1>1 DEF NUL, CellAt
<1>3. CopyEnd(n) \in Nat /\ CopyEnd(n) <= i
  BY <1>2, CopyEndIs, InputAssumption DEF Index
<1>4. ASSUME NEW j \in 0 .. CopyEnd(n)
      PROVE  /\ j \in Index /\ j < key_idx
             /\ CellAt(j) \in Cells /\ CellAt(j).from = ts
  <2>1. j \in Index /\ keyboard_buf[j] # NUL
    BY <1>0, <1>1, <1>2, <1>3 DEF Index
  <2>2. CellAt(j) \in Cells /\ CellAt(j) = keyboard_buf[j]
    BY <1>0, <2>1 DEF CellAt, Buffers
  <2>3. CellAt(j).from \in {ts, -1} /\ CellAt(j).from \in Terms
    BY <1>0, <2>1, <2>2 DEF OwnBuffers, BufferOf, Cells
  <2>4. -1 \notin Terms
    BY InputAssumption DEF Terms
  <2> QED  BY <1>0, <2>1, <2>2, <2>3, <2>4 DEF Index
<1>5. ASSUME NEW j \in 0 .. CopyEnd(n) - 1 PROVE CellAt(j).ch = "char"
  <2>1. CellAt(j) \in Cells /\ CellAt(j).ch # "newline"
    BY <1>3, <1>4, CopyEndIs
  <2> QED  BY <2>1 DEF Cells
<1> QED  BY <1>4, <1>5

\* Keys change the buffer of the shown terminal, on its behalf.
LEMMA EditOwn ==
  ASSUME InputInv, OwnBuffers,
         \A i \in Index : keyboard_buf'[i].from \in {ts, -1},
         UNCHANGED <<ts, terminal_buf>>
  PROVE  OwnBuffers'
BY DEF OwnBuffers, BufferOf

\* While no reader is past its scan, or nothing it relies on changes.
LEMMA NobodyCopies ==
  ASSUME InputInv, LineIsThere, NoGap, Undisturbed, reader' = reader
  PROVE  LineIsThere'
<1>1. ta \in Terms
  BY DEF InputInv, InputTypeOK
<1> QED  BY <1>1 DEF LineIsThere, Undisturbed, NoGap

\* Nobody is reading at boot.
LEMMA ReadStart == InputInit => ReadInv
<1> SUFFICES ASSUME InputInit PROVE ReadInv
  OBVIOUS
<1>1. LineIsThere
  BY DEF InputInit, LineIsThere, Idle
<1>2. OwnBuffers
  BY DEF InputInit, OwnBuffers, BufferOf, EmptyBuffer, NUL
<1> QED  BY <1>1, <1>2, InputStart, NothingRead DEF InputInit

\* Every step hands over a line of the terminal that reads, or nothing.
LEMMA ReadStep ==
  ASSUME NoGap, ReadInv, [InputNext]_ivars
  PROVE  ReadInv'
<1>0. /\ InputInv /\ LineIsThere /\ OwnBuffers
      /\ ts \in Terms /\ ta \in Terms /\ keyboard_buf \in Buffers
      /\ key_idx \in 0 .. KEY_BUF_SIZE /\ KEY_BUF_SIZE \in Nat \ {0}
      /\ terminal_buf \in [Terms -> Buffers] /\ reader \in [Terms -> Readers]
      /\ \A i \in Index : keyboard_buf[i].from \in {ts, -1}
  BY InputAssumption DEF ReadInv, InputInv, InputTypeOK, OwnBuffers, BufferOf
<1>1. InputInv'
  BY <1>0, InputStep
<1> DEFINE Rest == LineIsThere' /\ OwnBuffers' /\ delivered' = Nothing
<1>a. ASSUME Rest PROVE ReadInv'
  BY <1>1, <1>a DEF ReadInv, OwnBuffers, OwnTyping, ReadsALine
<1>2. CASE Undisturbed /\ type_key
  <2>1. \A i \in Index : keyboard_buf'[i].from \in {ts, -1}
    BY <1>0, <1>2 DEF type_key, write_char, Buffers
  <2>2. OwnBuffers'
    BY <1>0, <1>2, <2>1, EditOwn DEF type_key
  <2> QED  BY <1>0, <1>2, <2>2, <1>a, NobodyCopies DEF type_key
<1>3. CASE Undisturbed /\ type_tab
  <2>1. \A i \in Index : keyboard_buf'[i].from \in {ts, -1}
    BY <1>0, <1>3 DEF type_tab, write_tab
  <2>2. OwnBuffers'
    BY <1>0, <1>3, <2>1, EditOwn DEF type_tab
  <2> QED  BY <1>0, <1>3, <2>2, <1>a, NobodyCopies DEF type_tab
<1>4. CASE Undisturbed /\ type_backspace
  <2>1. \A i \in Index : keyboard_buf'[i].from \in {ts, -1}
    BY <1>0, <1>4 DEF type_backspace, delete_char, Buffers, NUL
  <2>2. OwnBuffers'
    BY <1>0, <1>4, <2>1, EditOwn DEF type_backspace
  <2> QED  BY <1>0, <1>4, <2>2, <1>a, NobodyCopies DEF type_backspace
<1>5. CASE Undisturbed /\ ctrl_helper
  <2>1. \A i \in Index : keyboard_buf'[i].from \in {ts, -1}
    BY <1>5 DEF ctrl_helper, clear_keyboard_buf, EmptyBuffer, NUL
  <2>2. OwnBuffers'
    BY <1>0, <1>5, <2>1, EditOwn DEF ctrl_helper
  <2> QED  BY <1>0, <1>5, <2>2, <1>a, NobodyCopies DEF ctrl_helper
<1>6. ASSUME NEW t \in Terms, terminal_switch(t), Undisturbed PROVE ReadInv'
  <2>1. \A u \in Terms : BufferOf(u)' = BufferOf(u)
    BY <1>0, <1>6 DEF terminal_switch, put_away, take_out, BufferOf
  <2>2. OwnBuffers'
    BY <1>0, <2>1 DEF OwnBuffers
  <2> QED  BY <1>0, <1>6, <2>2, <1>a, NobodyCopies DEF terminal_switch
<1>7. ASSUME NEW n \in ReadSizes, terminal_read(n) PROVE ReadInv'
  <2>1. LineIsThere'
    BY <1>0, <1>7 DEF terminal_read, LineIsThere, Scanning, ScanFindsNewline
  <2>2. OwnBuffers'
    BY <1>0, <1>7 DEF terminal_read, OwnBuffers, BufferOf
  <2> QED  BY <1>7, <2>1, <2>2, <1>a DEF terminal_read
<1>8. CASE scan_done
  <2>1. ScanFindsNewline' /\ ts' = ta'
    BY <1>8 DEF scan_done, ScanFindsNewline, ShownIsActive
  <2>2. LineIsThere'
    BY <1>0, <1>8, <2>1 DEF scan_done, LineIsThere
  <2>3. OwnBuffers'
    BY <1>0, <1>8 DEF scan_done, OwnBuffers, BufferOf
  <2> QED  BY <1>8, <2>2, <2>3, <1>a DEF scan_done
<1>9. CASE copy_line
  <2> DEFINE n == reader[ta].nbytes
  <2>1. n \in Nat
    <3>1. reader[ta] # Idle
      BY <1>9 DEF copy_line, Idle
    <3> QED  BY <1>0, <3>1, ReaderType, InputAssumption DEF InputInv
  <2>2. ts = ta /\ ScanFindsNewline
    BY <1>0, <1>9 DEF copy_line, LineIsThere
  <2>3. delivered' = [to |-> ta, nbytes |-> n, text |-> Copied(n)]
    BY <1>9 DEF copy_line
  <2>4. /\ Len(Copied(n)) = CopyEnd(n) + 1 /\ CopyEnd(n) \in 0 .. n
        /\ \A i \in 1 .. CopyEnd(n) + 1 : Copied(n)[i] = CellAt(i - 1)
        /\ DOMAIN Copied(n) = 1 .. CopyEnd(n) + 1
        /\ CopyEnd(n) = n \/ CellAt(CopyEnd(n)).ch = "newline"
    BY <1>0, <2>1, CopiedType, CopyEndIs DEF Copied
  <2>5. /\ \A j \in 0 .. CopyEnd(n) : CellAt(j) \in Cells /\ CellAt(j).from = ts
        /\ \A j \in 0 .. CopyEnd(n) - 1 : CellAt(j).ch = "char"
    BY <1>0, <2>1, <2>2, CopiesTyped
  <2>6. LineIsThere'
    BY <1>0, <1>9 DEF copy_line, LineIsThere, Idle
  <2>7. OwnBuffers'
    <3>1. \A i \in Index : keyboard_buf'[i].from \in {ts, -1}
      BY <1>9 DEF copy_line, clear_keyboard_buf, EmptyBuffer, NUL
    <3> QED  BY <1>0, <1>9, <3>1, EditOwn DEF copy_line
  <2> HIDE DEF n
  <2>8. \A i \in DOMAIN delivered'.text : delivered'.text[i].from = delivered'.to
    BY <2>1, <2>2, <2>3, <2>4, <2>5
  <2>9. OwnTyping'
    BY <2>7, <2>8 DEF OwnTyping, OwnBuffers
  <2>10. ReadsALine'
    <3>1. \A i \in 1 .. Len(Copied(n)) - 1 : Copied(n)[i].ch = "char"
      BY <2>1, <2>4, <2>5
    <3>2. Copied(n)[Len(Copied(n))] = CellAt(CopyEnd(n))
      BY <2>1, <2>4
    <3>3. CellAt(CopyEnd(n)).ch \in {"char", "newline"}
      BY <2>1, <2>4, <2>5 DEF Cells
    <3>4. \/ CellAt(CopyEnd(n)).ch = "newline"
          \/ CellAt(CopyEnd(n)).ch = "char" /\ Len(Copied(n)) > n
      BY <2>1, <2>4, <3>3
    <3> QED  BY <2>3, <3>1, <3>2, <3>4 DEF ReadsALine
  <2> QED  BY <1>1, <2>6, <2>7, <2>9, <2>10 DEF ReadInv
<1>10. CASE halt_helper
  <2>1. Undisturbed /\ reader' = reader
    BY <1>10 DEF halt_helper, Undisturbed, Idle
  <2>2. OwnBuffers'
    BY <1>0, <1>10
       DEF halt_helper, clear_keyboard_buf, EmptyBuffer, NUL, OwnBuffers, BufferOf
  <2> QED  BY <1>0, <1>10, <2>1, <2>2, <1>a, NobodyCopies DEF halt_helper
<1>11. CASE pit_handler
  <2>1. OwnBuffers'
    BY <1>0, <1>11 DEF pit_handler, OwnBuffers, BufferOf
  <2> QED  BY <1>0, <1>11, <2>1, <1>a, NobodyCopies DEF pit_handler
<1>12. CASE UNCHANGED ivars
  BY <1>12, <1>1 DEF ivars, ReadInv, LineIsThere, ScanFindsNewline, OwnBuffers,
                     BufferOf, OwnTyping, ReadsALine
<1> QED  BY <1>2, <1>3, <1>4, <1>5, <1>6, <1>7, <1>8, <1>9, <1>10, <1>11, <1>12
         DEF InputNext, keyboard_handler, alt_helper

(***************************************************************************)
(* Only the programs of a terminal see what is typed on it, if nothing     *)
(* strikes between terminal_read's scan and its copy.                      *)
(***************************************************************************)
THEOREM OwnTypingCorrect == ASSUME NoGap PROVE InputSpec => []OwnTyping
<1>1. ReadInv => OwnTyping
  BY DEF ReadInv
<1>2. ReadInv /\ [InputNext]_ivars => ReadInv'
  BY ReadStep
<1> QED  BY <1>1, <1>2, ReadStart, PTL DEF InputSpec

(***************************************************************************)
(* terminal_read hands over one line, or as much of it as was asked for,   *)
(* under the same condition.                                               *)
(***************************************************************************)
THEOREM ReadsALineCorrect == ASSUME NoGap PROVE InputSpec => []ReadsALine
<1>1. ReadInv => ReadsALine
  BY DEF ReadInv
<1>2. ReadInv /\ [InputNext]_ivars => ReadInv'
  BY ReadStep
<1> QED  BY <1>1, <1>2, ReadStart, PTL DEF InputSpec
-----------------------------------------------------------------------------
(***************************************************************************)
(* The refinement: the buffers implement a line of its own for every       *)
(* terminal.                                                               *)
(***************************************************************************)

\* Nothing delivered is no line handed over.
LEMMA HandedNothing == ASSUME delivered = Nothing PROVE HandedOver = [to |-> 0, text |-> << >>]
BY DEF HandedOver, Nothing

Marks == {"char", "newline", "nul"}

\* The first n cells of a buffer are the sequence that has them in order.
LEMMA LineEqual ==
  ASSUME NEW buf \in Buffers, NEW n \in 0 .. KEY_BUF_SIZE,
         NEW s \in Seq(Marks), Len(s) = n, \A i \in 1 .. n : s[i] = buf[i - 1].ch
  PROVE  [i \in 1 .. n |-> buf[i - 1].ch] = s
<1>1. DOMAIN s = 1 .. n /\ s \in [1 .. n -> Marks]
  BY LenProperties
<1> QED  BY <1>1

\* The line of a terminal is a sequence as long as its index says.
LEMMA LineType ==
  ASSUME InputInv, NEW t \in Terms
  PROVE  /\ LineOf(t) \in Seq(Marks)
         /\ Len(LineOf(t)) = IndexOf(t)
         /\ IndexOf(t) \in 0 .. KEY_BUF_SIZE
         /\ \A i \in 1 .. IndexOf(t) : LineOf(t)[i] = BufferOf(t)[i - 1].ch
<1>1. IndexOf(t) \in 0 .. KEY_BUF_SIZE /\ BufferOf(t) \in Buffers /\ KEY_BUF_SIZE \in Nat
  BY InputAssumption DEF InputInv, InputTypeOK, IndexOf, BufferOf
<1>2. ASSUME NEW i \in 1 .. IndexOf(t)
      PROVE  BufferOf(t)[i - 1].ch \in Marks
  <2>1. i - 1 \in Index
    BY <1>1 DEF Index
  <2> QED  BY <1>1, <2>1 DEF Buffers, Cells, NUL, Marks
<1> QED  BY <1>1, <1>2 DEF LineOf

\* A step that turns the shown terminal's line into new and no other one.
LEMMA EditStep ==
  ASSUME ts \in Terms, NEW new, LineOf(ts)' = new, delivered' = Nothing,
         UNCHANGED <<ts, terminal_buf, buf_idx>>
  PROVE  Editors!Edit(new)
<1>1. \A t \in Terms : t # ts => LineOf(t)' = LineOf(t)
  BY DEF LineOf, IndexOf, BufferOf
<1>2. [t \in Terms |-> LineOf(t)'] = [[t \in Terms |-> LineOf(t)] EXCEPT ![ts] = new]
  BY <1>1
<1>3. HandedOver' = [to |-> 0, text |-> << >>]
  BY DEF HandedOver, Nothing
<1> QED  BY <1>2, <1>3 DEF Editors!Edit

\* A step that changes no line and hands nothing over.
LEMMA DoneStep ==
  ASSUME UNCHANGED <<ts, keyboard_buf, key_idx, terminal_buf, buf_idx>>,
         delivered' = Nothing
  PROVE  Editors!Done
<1>1. \A t \in Terms : LineOf(t)' = LineOf(t)
  BY DEF LineOf, IndexOf, BufferOf
<1>2. HandedOver' = [to |-> 0, text |-> << >>]
  BY DEF HandedOver, Nothing
<1> QED  BY <1>1, <1>2 DEF Editors!Done

\* A character that finds room is appended, any other is dropped.
LEMMA KeyStep ==
  ASSUME InputInv, type_key, InputInv'
  PROVE  Editors!Enter \/ Editors!Letter \/ Editors!Done
<1>0. /\ ts \in Terms /\ keyboard_buf \in Buffers /\ key_idx \in 0 .. KEY_BUF_SIZE
      /\ KEY_BUF_SIZE \in Nat \ {0}
  BY InputAssumption DEF InputInv, InputTypeOK
<1>1. PICK ch \in {"char", "newline"} : write_char(ch)
  BY DEF type_key
<1>2. UNCHANGED <<ts, terminal_buf, buf_idx>> /\ delivered' = Nothing
  BY DEF type_key
<1>3. CASE ~ HasRoom(key_idx, ch)
  BY <1>1, <1>2, <1>3, DoneStep DEF write_char
<1>4. CASE HasRoom(key_idx, ch)
  <2>1. /\ keyboard_buf' = [keyboard_buf EXCEPT ![key_idx] = [ch |-> ch, from |-> ts]]
        /\ key_idx' = key_idx + 1 /\ key_idx \in Index
    BY <1>0, <1>1, <1>4 DEF write_char, HasRoom, Index
  <2>2. /\ LineOf(ts) \in Seq(Marks)
        /\ Len(LineOf(ts)) = key_idx
        /\ \A i \in 1 .. key_idx : LineOf(ts)[i] = keyboard_buf[i - 1].ch
    BY <1>0, LineType DEF IndexOf, BufferOf
  <2>3. LineOf(ts)' = [i \in 1 .. key_idx + 1 |-> keyboard_buf'[i - 1].ch]
    BY <1>2, <2>1 DEF LineOf, IndexOf, BufferOf
  <2>4. \A i \in 1 .. key_idx : i - 1 \in Index /\ i - 1 # key_idx
    BY <1>0 DEF Index
  <2>5. \A i \in 1 .. key_idx : keyboard_buf'[i - 1].ch = LineOf(ts)[i]
    BY <1>0, <2>1, <2>2, <2>4 DEF Buffers
  <2>6. keyboard_buf'[key_idx].ch = ch
    BY <1>0, <2>1 DEF Buffers
  <2>7. LineOf(ts)' = Append(LineOf(ts), ch)
    <3>1. /\ Append(LineOf(ts), ch) \in Seq(Marks)
          /\ Len(Append(LineOf(ts), ch)) = key_idx + 1
          /\ \A i \in 1 .. key_idx + 1 :
               Append(LineOf(ts), ch)[i] = IF i <= key_idx THEN LineOf(ts)[i] ELSE ch
      BY <1>0, <2>2, AppendProperties DEF Marks
    <3>2. ASSUME NEW i \in 1 .. key_idx + 1
          PROVE  keyboard_buf'[i - 1].ch = IF i <= key_idx THEN LineOf(ts)[i] ELSE ch
      <4>1. CASE i <= key_idx
        BY <1>0, <2>5, <4>1
      <4>2. CASE i = key_idx + 1
        BY <1>0, <2>6, <4>2
      <4> QED  BY <1>0, <4>1, <4>2
    <3>3. keyboard_buf' \in Buffers /\ key_idx + 1 \in 0 .. KEY_BUF_SIZE
      BY <1>0, <2>1 DEF InputInv, InputTypeOK, Index
    <3> DEFINE s == Append(LineOf(ts), ch)
    <3>4. s \in Seq(Marks) /\ Len(s) = key_idx + 1
      BY <3>1
    <3>5. \A i \in 1 .. key_idx + 1 : s[i] = keyboard_buf'[i - 1].ch
      BY <3>1, <3>2
    <3> HIDE DEF s
    <3>6. [i \in 1 .. key_idx + 1 |-> keyboard_buf'[i - 1].ch] = s
      BY <3>3, <3>4, <3>5, LineEqual
    <3> QED  BY <2>3, <3>6 DEF s
  <2>8. Editors!Edit(Append(LineOf(ts), ch))
    BY <1>0, <1>2, <2>7, EditStep
  <2>9. CASE ch = "newline"
    <3>1. key_idx < KEY_BUF_SIZE
      BY <1>4 DEF HasRoom
    <3> QED  BY <1>0, <2>2, <2>8, <2>9, <3>1 DEF Editors!Enter
  <2>10. CASE ch = "char"
    <3>1. key_idx < KEY_BUF_SIZE - 1
      BY <1>0, <1>4, <2>10 DEF HasRoom
    <3> QED  BY <1>0, <2>2, <2>8, <2>10, <3>1 DEF Editors!Letter
  <2> QED  BY <2>9, <2>10
<1> QED  BY <1>3, <1>4
\* A tab appends spaces as long as they fit.
LEMMA TabStep ==
  ASSUME InputInv, type_tab, InputInv'
  PROVE  Editors!Tab \/ Editors!Done
<1> DEFINE room == IF key_idx >= KEY_BUF_SIZE - 1 THEN 0 ELSE KEY_BUF_SIZE - 1 - key_idx
           n == IF TAB_SPACE < room THEN TAB_SPACE ELSE room
<1>0. /\ ts \in Terms /\ keyboard_buf \in Buffers /\ key_idx \in 0 .. KEY_BUF_SIZE
      /\ KEY_BUF_SIZE \in Nat \ {0} /\ TAB_SPACE \in Nat
      /\ keyboard_buf' \in Buffers
  BY InputAssumption DEF InputInv, InputTypeOK
<1>1. /\ n \in 0 .. TAB_SPACE
      /\ n > 0 => key_idx + n < KEY_BUF_SIZE /\ (n = TAB_SPACE \/ key_idx + n = KEY_BUF_SIZE - 1)
  BY <1>0
<1>2. /\ keyboard_buf' = [i \in Index |->
             IF tab_written(i, n) THEN [ch |-> "char", from |-> ts] ELSE keyboard_buf[i]]
      /\ key_idx' = key_idx + n
      /\ UNCHANGED <<ts, terminal_buf, buf_idx>> /\ delivered' = Nothing
  BY DEF type_tab, write_tab
<1> HIDE DEF n, room
<1>3. CASE n = 0
  <2>1. \A i \in Index : ~ tab_written(i, n)
    BY <1>0, <1>3 DEF tab_written, Index
  <2>2. keyboard_buf' = keyboard_buf /\ key_idx' = key_idx
    BY <1>0, <1>2, <1>3, <2>1 DEF Buffers
  <2> QED  BY <1>2, <2>2, DoneStep
<1>4. CASE n > 0
  <2> DEFINE spaces == [i \in 1 .. n |-> "char"]
             s == LineOf(ts) \o spaces
  <2>1. /\ LineOf(ts) \in Seq(Marks) /\ Len(LineOf(ts)) = key_idx
        /\ \A i \in 1 .. key_idx : LineOf(ts)[i] = keyboard_buf[i - 1].ch
    BY <1>0, LineType DEF IndexOf, BufferOf
  <2>2. spaces \in Seq(Marks) /\ Len(spaces) = n /\ \A i \in 1 .. n : spaces[i] = "char"
    BY <1>1 DEF Marks
  <2> HIDE DEF spaces
  <2>3. /\ s \in Seq(Marks) /\ Len(s) = key_idx + n
        /\ \A i \in 1 .. key_idx + n :
             s[i] = IF i <= key_idx THEN LineOf(ts)[i] ELSE spaces[i - key_idx]
    BY <2>1, <2>2, ConcatProperties
  <2> HIDE DEF s
  <2>4. ASSUME NEW i \in 1 .. key_idx + n PROVE s[i] = keyboard_buf'[i - 1].ch
    <3>1. i - 1 \in Index /\ (tab_written(i - 1, n) <=> i > key_idx)
      BY <1>0, <1>1, <1>4 DEF Index, tab_written
    <3>2. CASE i <= key_idx
      BY <1>0, <1>1, <1>2, <2>1, <2>3, <3>1, <3>2
    <3>3. CASE i > key_idx
      <4>1. i - key_idx \in 1 .. n
        BY <1>0, <1>1, <3>3
      <4> QED  BY <1>0, <1>1, <1>2, <2>2, <2>3, <3>1, <3>3, <4>1
    <3> QED  BY <1>0, <1>1, <3>2, <3>3
  <2>5. LineOf(ts)' = [i \in 1 .. key_idx + n |-> keyboard_buf'[i - 1].ch]
    BY <1>2 DEF LineOf, IndexOf, BufferOf
  <2>6. key_idx + n \in 0 .. KEY_BUF_SIZE
    BY <1>0, <1>1, <1>4
  <2>7. [i \in 1 .. key_idx + n |-> keyboard_buf'[i - 1].ch] = s
    BY <1>0, <2>3, <2>4, <2>6, LineEqual
  <2>8. Editors!Edit(s)
    BY <1>0, <1>2, <2>5, <2>7, EditStep
  <2> QED  BY <1>0, <1>1, <1>4, <2>1, <2>8 DEF Editors!Tab, s, spaces
<1> QED  BY <1>1, <1>3, <1>4

\* A backspace takes the last character back, if there is one.
LEMMA BackspaceStep ==
  ASSUME InputInv, type_backspace, InputInv'
  PROVE  Editors!Backspace \/ Editors!Done
<1>0. /\ ts \in Terms /\ keyboard_buf \in Buffers /\ key_idx \in 0 .. KEY_BUF_SIZE
      /\ KEY_BUF_SIZE \in Nat \ {0} /\ keyboard_buf' \in Buffers
  BY InputAssumption DEF InputInv, InputTypeOK
<1>1. UNCHANGED <<ts, terminal_buf, buf_idx>> /\ delivered' = Nothing /\ delete_char
  BY DEF type_backspace
<1>2. CASE ~ (key_idx > 0)
  BY <1>1, <1>2, DoneStep DEF delete_char
<1>3. CASE key_idx > 0
  <2> DEFINE s == SubSeq(LineOf(ts), 1, key_idx - 1)
  <2>1. key_idx' = key_idx - 1 /\ keyboard_buf' = [keyboard_buf EXCEPT ![key_idx - 1] = NUL]
    BY <1>1, <1>3 DEF delete_char
  <2>2. /\ LineOf(ts) \in Seq(Marks) /\ Len(LineOf(ts)) = key_idx
        /\ \A i \in 1 .. key_idx : LineOf(ts)[i] = keyboard_buf[i - 1].ch
    BY <1>0, LineType DEF IndexOf, BufferOf
  <2>3. /\ s \in Seq(Marks) /\ Len(s) = key_idx - 1
        /\ \A i \in 1 .. key_idx - 1 : s[i] = LineOf(ts)[i]
    <3>1. \A i \in 1 .. key_idx - 1 : LineOf(ts)[i] \in Marks
      BY <1>0, <2>2, ElementOfSeq
    <3>2. /\ s \in Seq(Marks)
          /\ Len(s) = IF 1 <= key_idx - 1 THEN key_idx - 1 - 1 + 1 ELSE 0
          /\ \A i \in 1 .. key_idx - 1 - 1 + 1 : s[i] = LineOf(ts)[1 + i - 1]
      BY <1>0, <3>1, SubSeqProperties
    <3> HIDE DEF s
    <3>3. Len(s) = key_idx - 1
      BY <1>0, <1>3, <3>2
    <3>4. ASSUME NEW i \in 1 .. key_idx - 1 PROVE s[i] = LineOf(ts)[i]
      <4>1. i \in 1 .. key_idx - 1 - 1 + 1 /\ 1 + i - 1 = i
        BY <1>0
      <4> QED  BY <3>2, <4>1
    <3> QED  BY <3>2, <3>3, <3>4
  <2>4. ASSUME NEW i \in 1 .. key_idx - 1 PROVE s[i] = keyboard_buf'[i - 1].ch
    <3>1. i \in 1 .. key_idx /\ i - 1 \in Index /\ i - 1 # key_idx - 1
      BY <1>0 DEF Index
    <3> QED  BY <1>0, <2>1, <2>2, <2>3, <3>1 DEF Buffers
  <2>5. LineOf(ts)' = [i \in 1 .. key_idx - 1 |-> keyboard_buf'[i - 1].ch]
    BY <1>1, <2>1 DEF LineOf, IndexOf, BufferOf
  <2>6. key_idx - 1 \in 0 .. KEY_BUF_SIZE
    BY <1>0, <1>3
  <2> HIDE DEF s
  <2>7. [i \in 1 .. key_idx - 1 |-> keyboard_buf'[i - 1].ch] = s
    BY <1>0, <2>3, <2>4, <2>6, LineEqual
  <2>8. Editors!Edit(s)
    BY <1>0, <1>1, <2>5, <2>7, EditStep
  <2>9. LineOf(ts) # << >>
    BY <1>0, <1>3, <2>2, EmptySeq
  <2> QED  BY <1>0, <2>2, <2>8, <2>9 DEF Editors!Backspace, Editors!Front, s
<1> QED  BY <1>0, <1>2, <1>3

\* A cleared buffer is an empty line.
LEMMA ClearedLine ==
  ASSUME clear_keyboard_buf, ts' = ts
  PROVE  LineOf(ts)' = << >>
BY DEF clear_keyboard_buf, LineOf, IndexOf

\* Showing another terminal changes no line.
LEMMA SwitchStep ==
  ASSUME InputInv, NEW t \in Terms, terminal_switch(t)
  PROVE  Editors!Show
<1>1. \A u \in Terms : BufferOf(u)' = BufferOf(u) /\ IndexOf(u)' = IndexOf(u)
  BY DEF InputInv, InputTypeOK, terminal_switch, put_away, take_out, BufferOf, IndexOf
<1>2. \A u \in Terms : LineOf(u)' = LineOf(u)
  BY <1>1 DEF LineOf
<1>3. HandedOver' = [to |-> 0, text |-> << >>] /\ ts' = t
  BY DEF terminal_switch, HandedOver, Nothing
<1> QED  BY <1>2, <1>3 DEF Editors!Show

\* The copy hands over the start of the shown terminal's line.
LEMMA CopyStep ==
  ASSUME ReadInv, copy_line
  PROVE  Editors!Read
<1> DEFINE n == reader[ta].nbytes
           m == CopyEnd(n) + 1
           s == SubSeq(LineOf(ts), 1, m)
           given == [i \in 1 .. m |-> Copied(n)[i].ch]
<1>0. /\ InputInv /\ OwnBuffers /\ ts \in Terms /\ ta \in Terms
      /\ keyboard_buf \in Buffers /\ key_idx \in 0 .. KEY_BUF_SIZE
      /\ KEY_BUF_SIZE \in Nat
  BY InputAssumption DEF ReadInv, InputInv, InputTypeOK
<1>1. n \in Nat
  <2>1. reader[ta] # Idle
    BY DEF copy_line, Idle
  <2> QED  BY <1>0, <2>1, ReaderType, InputAssumption DEF InputInv
<1>2. ts = ta /\ ScanFindsNewline
  BY <1>0 DEF copy_line, ReadInv, LineIsThere
<1>3. /\ CopyEnd(n) \in Nat
      /\ \A j \in 0 .. CopyEnd(n) : j \in Index /\ j < key_idx
      /\ \A j \in 0 .. CopyEnd(n) - 1 : CellAt(j).ch = "char"
  BY <1>0, <1>1, <1>2, CopiesTyped, CopyEndIs
<1>4. /\ LineOf(ts) \in Seq(Marks) /\ Len(LineOf(ts)) = key_idx
      /\ \A i \in 1 .. key_idx : LineOf(ts)[i] = keyboard_buf[i - 1].ch
  BY <1>0, LineType DEF IndexOf, BufferOf
<1>5. DOMAIN Copied(n) = 1 .. m /\ \A i \in 1 .. m : Copied(n)[i] = CellAt(i - 1)
  BY <1>0, <1>1, CopiedType DEF Copied
<1>6. HandedOver' = [to |-> ts, text |-> given]
  <2>1. delivered' = [to |-> ta, nbytes |-> n, text |-> Copied(n)]
    BY DEF copy_line
  <2>2. DOMAIN delivered'.text = 1 .. m /\ delivered'.to = ts
    BY <1>2, <1>5, <2>1
  <2>3. \A i \in 1 .. m : delivered'.text[i] = Copied(n)[i]
    BY <2>1
  <2> HIDE DEF n, m
  <2> QED  BY <2>2, <2>3 DEF HandedOver
<1> HIDE DEF n
<1>7. m \in 1 .. key_idx
  BY <1>0, <1>3
<1>8. ASSUME NEW i \in 1 .. m
      PROVE  /\ i \in 1 .. key_idx
             /\ LineOf(ts)[i] = CellAt(i - 1).ch
             /\ i \in 1 .. m - 1 => LineOf(ts)[i] # "newline"
  <2>1. i \in 1 .. key_idx /\ i - 1 \in Index /\ i - 1 \in 0 .. CopyEnd(n)
    BY <1>0, <1>3, <1>7 DEF Index
  <2>2. LineOf(ts)[i] = CellAt(i - 1).ch
    BY <1>4, <2>1 DEF CellAt
  <2>3. i \in 1 .. m - 1 => CellAt(i - 1).ch = "char"
    BY <1>3
  <2> QED  BY <2>1, <2>2, <2>3
<1>9. /\ s \in Seq(Marks) /\ Len(s) = m
      /\ \A i \in 1 .. m : s[i] = LineOf(ts)[i]
  <2>1. \A i \in 1 .. m : LineOf(ts)[i] \in Marks
    BY <1>4, <1>8, ElementOfSeq
  <2>2. m \in Nat \ {0}
    BY <1>0, <1>7
  <2> HIDE DEF m
  <2>3. /\ s \in Seq(Marks)
        /\ Len(s) = IF 1 <= m THEN m - 1 + 1 ELSE 0
        /\ \A i \in 1 .. m - 1 + 1 : s[i] = LineOf(ts)[1 + i - 1]
    BY <2>1, <2>2, SubSeqProperties
  <2> HIDE DEF s
  <2>4. ASSUME NEW i \in 1 .. m PROVE s[i] = LineOf(ts)[i]
    <3>1. i \in 1 .. m - 1 + 1 /\ 1 + i - 1 = i
      BY <2>2
    <3> QED  BY <2>3, <3>1
  <2>5. Len(s) = m
    BY <2>2, <2>3
  <2> QED  BY <2>3, <2>4, <2>5
<1> HIDE DEF m, s
<1>10. given = s
  <2>1. s \in [1 .. m -> Marks]
    BY <1>9, LenProperties
  <2>2. \A i \in 1 .. m : s[i] = Copied(n)[i].ch
    BY <1>5, <1>8, <1>9
  <2> QED  BY <2>1, <2>2
<1>11. /\ ts' = ts /\ LineOf(ts)' = << >>
       /\ \A t \in Terms : t # ts => LineOf(t)' = LineOf(t)
  BY ClearedLine DEF copy_line, LineOf, IndexOf, BufferOf
<1>12. [t \in Terms |-> LineOf(t)'] = [[t \in Terms |-> LineOf(t)] EXCEPT ![ts] = << >>]
  BY <1>11
<1>13. HandedOver' = [to |-> ts, text |-> s]
  BY <1>6, <1>10
<1>14. \A i \in 1 .. m - 1 : LineOf(ts)[i] # "newline"
  <2>1. m \in Nat
    BY <1>0, <1>7
  <2>2. \A i \in 1 .. m - 1 : i \in 1 .. m
    BY <2>1
  <2> QED  BY <1>8, <2>2
<1> QED  BY <1>0, <1>4, <1>7, <1>11, <1>12, <1>13, <1>14 DEF Editors!Read, s
\* The end of a program on the terminal shown takes its line with it.
LEMMA HaltStep ==
  ASSUME InputInv, halt_helper, "hidden" \notin InputWindows
  PROVE  Editors!EndProgram
<1>1. /\ ts = ta /\ ts \in Terms /\ ts' = ts /\ delivered' = Nothing /\ buf_idx' = buf_idx
      /\ terminal_buf' = [terminal_buf EXCEPT ![ta] = EmptyBuffer]
      /\ terminal_buf \in [Terms -> Buffers]
      /\ clear_keyboard_buf
  BY DEF halt_helper, InputInv, InputTypeOK
<1>2. LineOf(ts)' = << >>
  BY <1>1, ClearedLine
<1>3. \A t \in Terms : t # ts => LineOf(t)' = LineOf(t)
  BY <1>1 DEF LineOf, IndexOf, BufferOf
<1>4. [t \in Terms |-> LineOf(t)'] = [[t \in Terms |-> LineOf(t)] EXCEPT ![ts] = << >>]
  BY <1>1, <1>2, <1>3
<1>5. HandedOver' = [to |-> 0, text |-> << >>]
  BY <1>1 DEF HandedOver, Nothing
<1> QED  BY <1>1, <1>4, <1>5 DEF Editors!EndProgram

\* At the start every line is empty.
LEMMA EditorsStart == InputInit => Editors!EditorsInit
<1> SUFFICES ASSUME InputInit PROVE Editors!EditorsInit
  OBVIOUS
<1>1. 0 \in Terms
  BY InputAssumption DEF Terms
<1>2. \A t \in Terms : LineOf(t) = << >>
  BY DEF InputInit, LineOf, IndexOf
<1>3. HandedOver = [to |-> 0, text |-> << >>]
  BY HandedNothing DEF InputInit
<1>4. ts \in Terms
  BY <1>1 DEF InputInit
<1>5. [t \in Terms |-> LineOf(t)] = [t \in Terms |-> << >>]
  BY <1>2
<1> QED  BY <1>3, <1>4, <1>5 DEF Editors!EditorsInit

LineVars == <<[t \in Terms |-> LineOf(t)], ts, HandedOver>>

\* Every step of the kernel is a step of the line editors, or none.
LEMMA EditorsStep ==
  ASSUME InputWindows = {}, ReadInv, [InputNext]_ivars, ReadInv'
  PROVE  Editors!EditorsNext \/ UNCHANGED LineVars
<1>0. InputInv /\ InputInv' /\ ts \in Terms
  BY DEF ReadInv, InputInv, InputTypeOK
<1>1. CASE type_key
  BY <1>0, <1>1, KeyStep DEF Editors!EditorsNext
<1>2. CASE type_tab
  BY <1>0, <1>2, TabStep DEF Editors!EditorsNext
<1>3. CASE type_backspace
  BY <1>0, <1>3, BackspaceStep DEF Editors!EditorsNext
<1>4. CASE ctrl_helper
  <2>1. LineOf(ts)' = << >>
    BY <1>4, ClearedLine DEF ctrl_helper
  <2>2. Editors!Edit(<< >>)
    BY <1>0, <1>4, <2>1, EditStep DEF ctrl_helper
  <2> QED  BY <2>2 DEF Editors!Kill, Editors!EditorsNext
<1>5. CASE alt_helper
  BY <1>0, <1>5, SwitchStep DEF alt_helper, Editors!EditorsNext
<1>6. CASE (\E n \in ReadSizes : terminal_read(n)) \/ scan_done \/ pit_handler
  BY <1>6, DoneStep DEF terminal_read, scan_done, pit_handler, Editors!EditorsNext
<1>7. CASE copy_line
  BY <1>7, CopyStep DEF Editors!EditorsNext
<1>8. CASE halt_helper
  BY <1>0, <1>8, HaltStep DEF Editors!EditorsNext
<1>9. CASE UNCHANGED ivars
  BY <1>9 DEF ivars, LineVars, LineOf, IndexOf, BufferOf, HandedOver
<1> QED  BY <1>1, <1>2, <1>3, <1>4, <1>5, <1>6, <1>7, <1>8, <1>9
         DEF InputNext, keyboard_handler

(***************************************************************************)
(* One keyboard_buf, swapped by terminal_switch and cleared by reads and   *)
(* halts, implements a line of its own for every terminal, if neither the  *)
(* gap in terminal_read is hit nor a program ends on a hidden terminal.    *)
(***************************************************************************)
THEOREM EditorsRefined ==
  ASSUME InputWindows = {} PROVE InputSpec => ImplementsLineEditors
<1>1. ReadInv /\ [InputNext]_ivars => ReadInv'
  BY ReadStep DEF NoGap
<1>2. ReadInv /\ [InputNext]_ivars /\ ReadInv' => [Editors!EditorsNext]_LineVars
  BY EditorsStep
<1> QED  BY <1>1, <1>2, ReadStart, EditorsStart, PTL
         DEF InputSpec, ImplementsLineEditors, Editors!EditorsSpec, Editors!lvars, LineVars
=============================================================================
