---------------------------- MODULE Files_proofs ----------------------------
(***************************************************************************)
(* Proofs about Files, for any number of processes, descriptors, files,    *)
(* directory entries, counts and frequencies.                              *)
(***************************************************************************)
EXTENDS Files, TLAPS

Is(p, fd, ops) == Open(p, fd) /\ fdt[p][fd].ops = ops

(***************************************************************************)
(* The standard descriptors are never the RTC or the directory: those that *)
(* halt_helper closes are all there are.                                   *)
(***************************************************************************)
StandardOnly ==
  \A p \in Procs, fd \in Fds :
    fd < MIN_FD_INDEX /\ Open(p, fd) => fdt[p][fd].ops \in {"stdin", "stdout"}

\* A descriptor with the operations of a file is one of a file.
FileNamed ==
  \A p \in Procs, fd \in Fds : Is(p, fd, "file") => fdt[p][fd].name \in FileNames

\* A process without the RTC has the default rate.
IdleRate ==
  \A p \in Procs : ~ HasOpen(p, Fds, "rtc") => process_rtc[p] = MAX_VIR_FREQ

\* No rate is promised to a process that has the RTC open twice.
SharedRtc ==
  \A p \in Procs, fd, e \in Fds :
    fd # e /\ Is(p, fd, "rtc") /\ Is(p, e, "rtc") => wanted_rate[p] = NoPromise

\* A process inside dir_read has the directory open, as the descriptor it reads.
PendingDir ==
  \A p \in Procs : dir_pending[p] # -1 => Is(p, dir_pending[p], "dir")

(***************************************************************************)
(* The one read_index is at the start when no directory is open, and where *)
(* the owner of the only one expects it otherwise; one short while that    *)
(* owner is inside dir_read.                                               *)
(***************************************************************************)
FreshIndex == ~ DirInUse => read_index = 0

OnlyDir(p, fd) ==
  \A q \in Procs, e \in Fds : Is(q, e, "dir") => q = p /\ e = fd

IndexIsDue(p, fd) ==
  IF dir_pending[p] = fd
    THEN read_index < NumEntries /\ expected[p][fd] = read_index + 1
    ELSE expected[p][fd] = read_index

DirPromise ==
  \A p \in Procs, fd \in Fds :
    Is(p, fd, "dir") /\ expected[p][fd] # NoPromise =>
      OnlyDir(p, fd) /\ IndexIsDue(p, fd)

RtcPart == StandardOnly /\ IdleRate /\ SharedRtc /\ RtcAtWantedRate
DirPart == PendingDir /\ FreshIndex /\ DirPromise /\ ListsInOrder

FilesStrong == FilesInv /\ FileNamed /\ PositionInFile /\ RtcPart /\ DirPart
-----------------------------------------------------------------------------
\* The constants, as the proofs use them.
LEMMA Bounds ==
  /\ NUM_MAX_FILES \in Nat /\ NUM_MAX_FILES > 2 /\ MIN_FD_INDEX = 2
  /\ WORD \in Nat \ {0} /\ NumEntries \in Nat
  /\ MIN_VIR_FREQ = 2 /\ MAX_VIR_FREQ = 1024 /\ NoPromise = -1
  /\ \A f \in FileNames : FileLengths[f] \in 0 .. WORD - 2
  /\ FileNames \cap {DirName, RtcName} = {}
BY FilesAssumption DEF MIN_FD_INDEX, MIN_VIR_FREQ, MAX_VIR_FREQ, NoPromise

\* Entries written by the code are entries.
LEMMA EntryType ==
  /\ NullEntry \in Entries /\ NullEntry.flags = 0
  /\ Entry("null", Unnamed, 0, 0) \in Entries
  /\ NewTable \in [Fds -> Entries]
  /\ \A name \in FileNames \cup {DirName, RtcName} :
       Entry(OpsFor(name), name, 0, 1) \in Entries
<1>1. 0 \in 0 .. WORD - 1 /\ WORD - 1 \in 0 .. WORD - 1
  BY Bounds
<1>2. \A ops \in {"stdin", "stdout", "rtc", "dir", "file", "null"},
         name \in FileNames \cup {DirName, RtcName, Unnamed},
         pos \in {0, WORD - 1}, flags \in {0, 1} : Entry(ops, name, pos, flags) \in Entries
  BY <1>1 DEF Entry, Entries
<1>3. \A name : OpsFor(name) \in {"rtc", "dir", "file"}
  BY DEF OpsFor
<1>4. NullEntry \in Entries /\ NullEntry.flags = 0
  BY <1>2 DEF NullEntry, Entry
<1> QED  BY <1>2, <1>3, <1>4 DEF NewTable

\* At boot no slot is in use.
LEMMA FilesStart == FilesInit => FilesStrong
<1> SUFFICES ASSUME FilesInit PROVE FilesStrong
  OBVIOUS
<1>1. \A p \in Procs, fd \in Fds : fdt[p][fd] = Entry("null", Unnamed, 0, 0) /\ ~ Open(p, fd)
  BY DEF FilesInit, Open, Entry
<1>2. FilesTypeOK
  <2>1. 0 \in 0 .. NumEntries /\ MAX_VIR_FREQ \in MIN_VIR_FREQ .. MAX_VIR_FREQ
    BY Bounds
  <2> QED  BY <2>1, EntryType DEF FilesInit, FilesTypeOK
<1>3. CleanSlot /\ FileNamed /\ PositionInFile
  BY <1>1 DEF FilesInit, CleanSlot, FileNamed, PositionInFile, Is
<1>4. RtcPart
  BY <1>1 DEF FilesInit, RtcPart, StandardOnly, IdleRate, SharedRtc, RtcAtWantedRate, HasOpen, Is
<1>5. DirPart
  BY <1>1 DEF FilesInit, DirPart, PendingDir, FreshIndex, DirPromise, ListsInOrder, Nothing, Is
<1> QED  BY <1>2, <1>3, <1>4, <1>5 DEF FilesStrong, FilesInv

-----------------------------------------------------------------------------
(* One lemma for each call, all from the same invariant. *)

\* A new process gets a table with nothing open behind the standard ones.
LEMMA ExecuteStep ==
  ASSUME FilesStrong, NEW p \in Procs, sys_execute(p)
  PROVE  FilesStrong'
<1>0. /\ FilesTypeOK /\ running[p] = FALSE
      /\ running' = [running EXCEPT ![p] = TRUE]
      /\ fdt' = [fdt EXCEPT ![p] = NewTable]
      /\ delivered' = Nothing
      /\ UNCHANGED <<read_index, process_rtc, dir_pending, wanted_rate, expected>>
  BY DEF FilesStrong, FilesInv, FilesTypeOK, sys_execute, Quiet
<1>1. FilesTypeOK'
  BY <1>0, EntryType DEF FilesTypeOK
<1>2. \A q \in Procs, e \in Fds : q # p =>
        /\ fdt'[q][e] = fdt[q][e] /\ (Open(q, e)' <=> Open(q, e))
        /\ \A ops : Is(q, e, ops)' <=> Is(q, e, ops)
  BY <1>0 DEF FilesTypeOK, Open, Is
<1>3. \A e \in Fds :
        /\ ~ Open(p, e)
        /\ fdt'[p][e] = IF e = 0 THEN Entry("stdin", Unnamed, 0, 1)
                        ELSE IF e = 1 THEN Entry("stdout", Unnamed, 0, 1) ELSE NullEntry
  BY <1>0 DEF FilesStrong, FilesInv, CleanSlot, FilesTypeOK, NewTable
<1>4. \A e \in Fds :
        /\ Open(p, e)' => e < 2 /\ fdt'[p][e].ops \in {"stdin", "stdout"}
        /\ \A ops \in {"rtc", "dir", "file"} : ~ Is(p, e, ops) /\ ~ Is(p, e, ops)'
  BY <1>3 DEF Open, Is, Entry, NullEntry, Fds
<1>5. CleanSlot'
  BY <1>0, <1>2 DEF FilesStrong, FilesInv, CleanSlot, FilesTypeOK
<1>6. PositionInFile'
  BY <1>0, <1>2, <1>4 DEF FilesStrong, PositionInFile
<1>7. \A q \in Procs, S \in SUBSET Fds, ops \in {"rtc", "dir"} : HasOpen(q, S, ops)' <=> HasOpen(q, S, ops)
  BY <1>2, <1>4 DEF HasOpen, Is
<1>8. RtcPart'
  <2>1. StandardOnly'
    BY <1>2, <1>4, <1>0 DEF FilesStrong, RtcPart, StandardOnly
  <2>2. IdleRate' /\ RtcAtWantedRate'
    BY <1>0, <1>7 DEF FilesStrong, RtcPart, IdleRate, RtcAtWantedRate
  <2>3. SharedRtc'
    BY <1>0, <1>2, <1>4 DEF FilesStrong, RtcPart, SharedRtc
  <2> QED  BY <2>1, <2>2, <2>3 DEF RtcPart
<1>9. DirPart'
  <2>1. \A q \in Procs, e \in Fds : Is(q, e, "dir")' <=> Is(q, e, "dir")
    BY <1>2, <1>4
  <2>2. PendingDir'
    BY <1>0, <2>1 DEF FilesStrong, DirPart, PendingDir, FilesTypeOK
  <2>3. FreshIndex'
    BY <1>0, <1>7 DEF FilesStrong, DirPart, FreshIndex, DirInUse
  <2>4. DirPromise'
    BY <1>0, <2>1 DEF FilesStrong, DirPart, DirPromise, OnlyDir, IndexIsDue
  <2> QED  BY <1>0, <2>2, <2>3, <2>4 DEF DirPart, ListsInOrder, Nothing
<1>10. FileNamed'
  BY <1>2, <1>4 DEF FilesStrong, FileNamed
<1> QED  BY <1>1, <1>5, <1>6, <1>8, <1>9, <1>10 DEF FilesStrong, FilesInv

(***************************************************************************)
(* However a process ends, its descriptors are closed and its rate and the *)
(* directory index are reset if one of them was the RTC or the directory.  *)
(***************************************************************************)
LEMMA EndStep ==
  ASSUME FilesStrong, NEW p \in Procs, Ready(p), end_process(p), Quiet
  PROVE  FilesStrong'
<1>0. /\ FilesTypeOK /\ dir_pending[p] = -1 /\ delivered' = Nothing
      /\ running' = [running EXCEPT ![p] = FALSE]
      /\ read_index' = IF HasOpen(p, ClosedAtHalt, "dir") THEN 0 ELSE read_index
      /\ process_rtc' = IF HasOpen(p, ClosedAtHalt, "rtc")
                          THEN [process_rtc EXCEPT ![p] = MAX_VIR_FREQ] ELSE process_rtc
      /\ wanted_rate' = [wanted_rate EXCEPT ![p] = MAX_VIR_FREQ]
      /\ expected' = [expected EXCEPT ![p] = [fd \in Fds |-> 0]]
      /\ dir_pending' = dir_pending
  BY DEF FilesStrong, FilesInv, Ready, end_process, dir_close, rtc_close, Quiet
<1>1. \A q \in Procs, e \in Fds : q # p =>
        /\ fdt'[q][e] = fdt[q][e] /\ (Open(q, e)' <=> Open(q, e))
        /\ \A ops : Is(q, e, ops)' <=> Is(q, e, ops)
  BY <1>0 DEF end_process, FilesTypeOK, Open, Is
<1>2. \A e \in Fds : fdt'[p][e] \in Entries /\ ~ Open(p, e)'
  <2> TAKE e \in Fds
  <2>1. fdt'[p][e] = CASE e < MIN_FD_INDEX -> Entry("null", Unnamed, 0, 0)
                       [] e \in ClosedAtHalt /\ Open(p, e) -> NullEntry
                       [] OTHER -> fdt[p][e]
    BY <1>0 DEF end_process, FilesTypeOK
  <2>2. CASE e < MIN_FD_INDEX
    <3>1. fdt'[p][e] = Entry("null", Unnamed, 0, 0)
      BY <2>1, <2>2, Bounds DEF ClosedAtHalt
    <3> QED  BY <3>1, EntryType DEF Open, Entry
  <2>3. CASE ~ (e < MIN_FD_INDEX)
    <3>1. e \in ClosedAtHalt /\ fdt[p][e] \in Entries
      BY <1>0, <2>3, Bounds DEF ClosedAtHalt, Fds, FilesTypeOK
    <3>2. fdt'[p][e] = IF Open(p, e) THEN NullEntry ELSE fdt[p][e]
      BY <2>1, <2>3, <3>1
    <3> QED  BY <3>1, <3>2, EntryType DEF Open
  <2> QED  BY <2>2, <2>3
<1>3. FilesTypeOK'
  <2>1. fdt' \in [Procs -> [Fds -> Entries]]
    <3> DEFINE T == [fd \in Fds |->
                       CASE fd < MIN_FD_INDEX -> Entry("null", Unnamed, 0, 0)
                         [] fd \in ClosedAtHalt /\ Open(p, fd) -> NullEntry
                         [] OTHER -> fdt[p][fd]]
    <3>1. fdt' = [fdt EXCEPT ![p] = T] /\ T = [fd \in Fds |-> T[fd]]
      BY DEF end_process
    <3> HIDE DEF T
    <3>2. fdt'[p] = T
      BY <1>0, <3>1 DEF FilesTypeOK
    <3>3. T \in [Fds -> Entries]
      BY <1>2, <3>1, <3>2
    <3> QED  BY <1>0, <3>1, <3>3 DEF FilesTypeOK
  <2>2. read_index' \in 0 .. NumEntries
    BY <1>0, Bounds DEF FilesTypeOK
  <2>3. /\ process_rtc' \in [Procs -> MIN_VIR_FREQ .. MAX_VIR_FREQ]
        /\ wanted_rate' \in [Procs -> MIN_VIR_FREQ .. MAX_VIR_FREQ \cup {NoPromise}]
    <3>1. MAX_VIR_FREQ \in MIN_VIR_FREQ .. MAX_VIR_FREQ
      BY Bounds
    <3> QED  BY <1>0, <3>1 DEF FilesTypeOK
  <2> QED  BY <1>0, <2>1, <2>2, <2>3 DEF FilesTypeOK
<1>4. \A e \in Fds : Is(p, e, "rtc") \/ Is(p, e, "dir") => e \in ClosedAtHalt
  BY Bounds DEF FilesStrong, RtcPart, StandardOnly, Is, Fds, ClosedAtHalt
<1>5. HasOpen(p, Fds, "rtc") => HasOpen(p, ClosedAtHalt, "rtc")
  BY <1>4 DEF HasOpen, Is
<1>6. process_rtc'[p] = MAX_VIR_FREQ
  BY <1>0, <1>5 DEF FilesStrong, RtcPart, IdleRate, FilesTypeOK
<1>7. CleanSlot'
  BY <1>0, <1>1, <1>2, <1>6 DEF FilesStrong, FilesInv, CleanSlot, FilesTypeOK
<1>8. PositionInFile'
  BY <1>0, <1>1, <1>2 DEF FilesStrong, PositionInFile, FilesTypeOK
<1>9. RtcPart'
  <2>1. StandardOnly'
    BY <1>1, <1>2 DEF FilesStrong, RtcPart, StandardOnly
  <2>2. IdleRate'
    BY <1>0, <1>1, <1>6 DEF FilesStrong, RtcPart, IdleRate, HasOpen, FilesTypeOK
  <2>3. RtcAtWantedRate'
    BY <1>0, <1>1, <1>2 DEF FilesStrong, RtcPart, RtcAtWantedRate, HasOpen, FilesTypeOK
  <2>4. SharedRtc'
    BY <1>0, <1>1, <1>2 DEF FilesStrong, RtcPart, SharedRtc, Is, FilesTypeOK
  <2> QED  BY <2>1, <2>2, <2>3, <2>4 DEF RtcPart
<1>10. DirPart'
  <2>1. PendingDir'
    BY <1>0, <1>1 DEF FilesStrong, DirPart, PendingDir, FilesTypeOK
  <2>2. HasOpen(p, ClosedAtHalt, "dir") <=> \E e \in Fds : Is(p, e, "dir")
    BY <1>4, Bounds DEF HasOpen, Is, ClosedAtHalt, Fds
  <2>3. FreshIndex'
    BY <1>0, <1>1, <1>2, <2>2 DEF FilesStrong, DirPart, FreshIndex, DirInUse, HasOpen, Is
  <2>4. DirPromise'
    <3> SUFFICES ASSUME NEW q \in Procs, NEW e \in Fds,
                        Is(q, e, "dir")', expected'[q][e] # NoPromise
                 PROVE  OnlyDir(q, e)' /\ IndexIsDue(q, e)'
      BY DEF DirPromise
    <3>1. q # p /\ Is(q, e, "dir") /\ expected[q][e] # NoPromise
      BY <1>0, <1>1, <1>2 DEF Is, FilesTypeOK
    <3>2. OnlyDir(q, e) /\ IndexIsDue(q, e)
      BY <3>1 DEF FilesStrong, DirPart, DirPromise
    <3>3. ~ HasOpen(p, ClosedAtHalt, "dir")
      BY <2>2, <3>1, <3>2 DEF OnlyDir
    <3>4. OnlyDir(q, e)'
      BY <1>1, <1>2, <3>2 DEF OnlyDir, Is
    <3> QED  BY <1>0, <3>1, <3>2, <3>3, <3>4 DEF IndexIsDue, FilesTypeOK
  <2> QED  BY <1>0, <2>1, <2>3, <2>4 DEF DirPart, ListsInOrder, Nothing
<1>11. FileNamed'
  BY <1>1, <1>2 DEF FilesStrong, FileNamed, Is
<1> QED  BY <1>3, <1>7, <1>8, <1>9, <1>10, <1>11 DEF FilesStrong, FilesInv

\* A file, the directory or the RTC is opened in the first free descriptor.
LEMMA OpenStep ==
  ASSUME FilesStrong, NEW p \in Procs,
         NEW name \in FileNames \cup {DirName, RtcName}, sys_open(p, name)
  PROVE  FilesStrong'
<1>1. PICK fd \in Fds :
        /\ FirstFree(p, fd)
        /\ fdt' = [fdt EXCEPT ![p][fd] = Entry(OpsFor(name), name, 0, 1)]
        /\ expect_from_start(p, fd, name)
  BY DEF sys_open
<1> DEFINE new == Entry(OpsFor(name), name, 0, 1)
           shared == name = DirName /\ DirInUse
<1>0. /\ FilesTypeOK /\ running[p] /\ dir_pending[p] = -1 /\ delivered' = Nothing
      /\ process_rtc' = IF name = RtcName
                          THEN [process_rtc EXCEPT ![p] = MIN_VIR_FREQ] ELSE process_rtc
      /\ want_lowest_rate(p, name)
      /\ UNCHANGED <<running, read_index, dir_pending>>
  BY DEF FilesStrong, FilesInv, Ready, sys_open, rtc_open, Quiet
<1>2. fd >= 2 /\ ~ Open(p, fd)
  BY <1>1, Bounds DEF FirstFree
<1>3. \A q \in Procs, e \in Fds :
        fdt'[q][e] = IF q = p /\ e = fd THEN new ELSE fdt[q][e]
  BY <1>0, <1>1 DEF FilesTypeOK
<1>4. /\ new.flags = 1 /\ new.name = name /\ new.file_pos = 0
      /\ new.ops = IF name = RtcName THEN "rtc" ELSE IF name = DirName THEN "dir" ELSE "file"
      /\ new.ops = "file" => name \in FileNames
      /\ DirName # RtcName
  BY DEF Entry, OpsFor, DirName, RtcName
<1>5. \A q \in Procs, e \in Fds : Open(q, e)' <=> Open(q, e) \/ (q = p /\ e = fd)
  BY <1>3, <1>4 DEF Open
<1>6. \A q \in Procs, e \in Fds : \A ops :
        Is(q, e, ops)' <=> IF q = p /\ e = fd THEN new.ops = ops ELSE Is(q, e, ops)
  BY <1>3, <1>4, <1>5 DEF Is
<1>7. \A q \in Procs, e \in Fds :
        expected'[q][e] =
          IF shared /\ Is(q, e, "dir") THEN NoPromise
          ELSE IF q = p /\ e = fd THEN (IF shared THEN NoPromise ELSE 0)
          ELSE expected[q][e]
  BY <1>0, <1>1 DEF expect_from_start, Is, FilesTypeOK
<1>8. FilesTypeOK'
  <2>1. fdt' \in [Procs -> [Fds -> Entries]]
    BY <1>0, <1>1, EntryType DEF FilesTypeOK
  <2>2. expected' \in [Procs -> [Fds -> Int]]
    <3>1. expected' = [q \in Procs |-> [e \in Fds |-> expected'[q][e]]]
      BY <1>1 DEF expect_from_start
    <3>2. \A q \in Procs, e \in Fds : expected'[q][e] \in Int
      BY <1>0, <1>7, Bounds DEF FilesTypeOK
    <3> QED  BY <3>1, <3>2
  <2>3. process_rtc' \in [Procs -> MIN_VIR_FREQ .. MAX_VIR_FREQ]
    BY <1>0, Bounds DEF FilesTypeOK
  <2>4. wanted_rate' \in [Procs -> MIN_VIR_FREQ .. MAX_VIR_FREQ \cup {NoPromise}]
    BY <1>0, Bounds DEF FilesTypeOK, want_lowest_rate
  <2> QED  BY <1>0, <2>1, <2>2, <2>3, <2>4 DEF FilesTypeOK
<1> HIDE DEF new, shared
<1>9. CleanSlot'
  BY <1>0, <1>5 DEF FilesStrong, FilesInv, CleanSlot, FilesTypeOK
<1>10. PositionInFile'
  <2> SUFFICES ASSUME NEW q \in Procs, NEW e \in Fds,
                      Open(q, e)', fdt'[q][e].ops = "file", expected'[q][e] # NoPromise
               PROVE  /\ fdt'[q][e].file_pos = expected'[q][e]
                      /\ fdt'[q][e].file_pos <= FileLengths[fdt'[q][e].name]
    BY DEF PositionInFile
  <2>1. CASE q = p /\ e = fd
    <3>1. new.ops = "file" /\ name \in FileNames
      BY <1>3, <1>4, <2>1
    <3>2. ~ shared /\ ~ Is(q, e, "dir")
      BY <1>2, <1>4, <2>1, <3>1 DEF shared, Is
    <3>3. expected'[q][e] = 0
      BY <1>7, <2>1, <3>2
    <3> QED  BY <1>3, <1>4, <2>1, <3>1, <3>3, Bounds
  <2>2. CASE ~ (q = p /\ e = fd)
    BY <1>3, <1>5, <1>7, <2>2 DEF FilesStrong, PositionInFile, Is
  <2> QED  BY <2>1, <2>2
<1>11. RtcPart'
  <2>1. StandardOnly'
    BY <1>2, <1>3, <1>5, Bounds DEF FilesStrong, RtcPart, StandardOnly, Fds
  <2>2. \A q \in Procs :
          HasOpen(q, Fds, "rtc")' <=> HasOpen(q, Fds, "rtc") \/ (q = p /\ name = RtcName)
    BY <1>2, <1>4, <1>6 DEF HasOpen, Is
  <2>3. IdleRate'
    BY <1>0, <2>2 DEF FilesStrong, RtcPart, IdleRate, FilesTypeOK
  <2>4. RtcAtWantedRate'
    BY <1>0, <2>2 DEF FilesStrong, RtcPart, RtcAtWantedRate, FilesTypeOK, want_lowest_rate
  <2>5. SharedRtc'
    <3> SUFFICES ASSUME NEW q \in Procs, NEW d \in Fds, NEW e \in Fds, d # e,
                        Is(q, d, "rtc")', Is(q, e, "rtc")'
                 PROVE  wanted_rate'[q] = NoPromise
      BY DEF SharedRtc
    <3>1. CASE q = p /\ name = RtcName
      <4>1. Is(p, d, "rtc") \/ Is(p, e, "rtc")
        BY <1>6, <3>1
      <4>2. HasOpen(p, Fds, "rtc")
        BY <4>1 DEF HasOpen, Is
      <4> QED  BY <1>0, <3>1, <4>2 DEF want_lowest_rate, FilesTypeOK
    <3>2. CASE ~ (q = p /\ name = RtcName)
      <4>1. Is(q, d, "rtc") /\ Is(q, e, "rtc")
        BY <1>4, <1>6, <3>2
      <4>2. wanted_rate[q] = NoPromise
        BY <4>1 DEF FilesStrong, RtcPart, SharedRtc
      <4> QED  BY <1>0, <3>2, <4>2 DEF want_lowest_rate, FilesTypeOK
    <3> QED  BY <3>1, <3>2
  <2> QED  BY <2>1, <2>3, <2>4, <2>5 DEF RtcPart
<1>12. DirPart'
  <2>0. \A q \in Procs, e \in Fds :
          /\ Is(q, e, "dir")' <=> Is(q, e, "dir") \/ (q = p /\ e = fd /\ name = DirName)
          /\ Is(q, e, "dir") => ~ (q = p /\ e = fd)
    BY <1>2, <1>4, <1>6 DEF Is
  <2>1. PendingDir'
    BY <1>0, <2>0 DEF FilesStrong, DirPart, PendingDir, FilesTypeOK
  <2>2. DirInUse <=> \E q \in Procs, e \in Fds : Is(q, e, "dir")
    BY DEF DirInUse, HasOpen, Is
  <2>3. DirInUse' <=> \E q \in Procs, e \in Fds : Is(q, e, "dir")'
    BY DEF DirInUse, HasOpen, Is
  <2>4. FreshIndex'
    BY <1>0, <2>0, <2>2, <2>3 DEF FilesStrong, DirPart, FreshIndex
  <2>5. DirPromise'
    <3> SUFFICES ASSUME NEW q \in Procs, NEW e \in Fds,
                        Is(q, e, "dir")', expected'[q][e] # NoPromise
                 PROVE  OnlyDir(q, e)' /\ IndexIsDue(q, e)'
      BY DEF DirPromise
    <3>1. ~ shared
      BY <1>7, <2>0
    <3>2. CASE name = DirName
      <4>1. ~ DirInUse
        BY <3>1, <3>2 DEF shared
      <4>2. q = p /\ e = fd /\ expected'[q][e] = 0
        BY <1>7, <2>0, <2>2, <3>1, <4>1
      <4>3. read_index = 0 /\ dir_pending[p] # fd
        BY <1>0, <1>2, <4>1 DEF FilesStrong, DirPart, FreshIndex
      <4>4. OnlyDir(q, e)'
        BY <2>0, <2>2, <4>1, <4>2 DEF OnlyDir
      <4> QED  BY <1>0, <4>2, <4>3, <4>4 DEF IndexIsDue
    <3>3. CASE name # DirName
      <4>1. Is(q, e, "dir") /\ expected'[q][e] = expected[q][e]
        BY <1>7, <2>0, <3>1, <3>3
      <4>2. OnlyDir(q, e) /\ IndexIsDue(q, e)
        BY <4>1 DEF FilesStrong, DirPart, DirPromise
      <4>3. OnlyDir(q, e)'
        BY <2>0, <3>3, <4>2 DEF OnlyDir
      <4> QED  BY <1>0, <4>1, <4>2, <4>3 DEF IndexIsDue
    <3> QED  BY <3>2, <3>3
  <2> QED  BY <1>0, <2>1, <2>4, <2>5 DEF DirPart, ListsInOrder, Nothing
<1>13. FileNamed'
  BY <1>3, <1>4, <1>6 DEF FilesStrong, FileNamed
<1> QED  BY <1>8, <1>9, <1>10, <1>11, <1>12, <1>13 DEF FilesStrong, FilesInv

(***************************************************************************)
(* Closing resets the index or the rate if the descriptor is the           *)
(* directory or the RTC.                                                   *)
(***************************************************************************)
LEMMA CloseStep ==
  ASSUME FilesStrong, NEW p \in Procs, NEW fd \in Fds, sys_close(p, fd)
  PROVE  FilesStrong'
<1>0. /\ FilesTypeOK /\ running[p] /\ dir_pending[p] = -1 /\ delivered' = Nothing
      /\ fdt' = [fdt EXCEPT ![p][fd] = NullEntry]
      /\ expected' = [expected EXCEPT ![p][fd] = 0]
      /\ wanted_rate' = IF HasOpen(p, Fds \ {fd}, "rtc") THEN wanted_rate
                        ELSE [wanted_rate EXCEPT ![p] = MAX_VIR_FREQ]
      /\ UNCHANGED <<running, dir_pending>>
  BY DEF FilesStrong, FilesInv, Ready, sys_close, Quiet
<1>1. /\ fd >= 2 /\ Open(p, fd)
      /\ read_index' = IF Is(p, fd, "dir") THEN 0 ELSE read_index
      /\ process_rtc' = IF Is(p, fd, "rtc")
                          THEN [process_rtc EXCEPT ![p] = MAX_VIR_FREQ] ELSE process_rtc
  BY Bounds DEF sys_close, Closable, dir_close, rtc_close, Is
<1>2. \A q \in Procs, e \in Fds :
        /\ fdt'[q][e] = IF q = p /\ e = fd THEN NullEntry ELSE fdt[q][e]
        /\ expected'[q][e] = IF q = p /\ e = fd THEN 0 ELSE expected[q][e]
  BY <1>0 DEF FilesTypeOK
<1>3. \A q \in Procs, e \in Fds : Open(q, e)' <=> Open(q, e) /\ ~ (q = p /\ e = fd)
  BY <1>2, EntryType DEF Open
<1>4. \A ops : \A q \in Procs, e \in Fds : Is(q, e, ops)' <=> Is(q, e, ops) /\ ~ (q = p /\ e = fd)
  BY <1>2, <1>3 DEF Is
<1>5. FilesTypeOK'
  <2>1. MAX_VIR_FREQ \in MIN_VIR_FREQ .. MAX_VIR_FREQ /\ 0 \in 0 .. NumEntries
    BY Bounds
  <2>2. /\ fdt' \in [Procs -> [Fds -> Entries]]
        /\ expected' \in [Procs -> [Fds -> Int]]
    BY <1>0, EntryType DEF FilesTypeOK
  <2>3. /\ process_rtc' \in [Procs -> MIN_VIR_FREQ .. MAX_VIR_FREQ]
        /\ wanted_rate' \in [Procs -> MIN_VIR_FREQ .. MAX_VIR_FREQ \cup {NoPromise}]
        /\ read_index' \in 0 .. NumEntries
    BY <1>0, <1>1, <2>1 DEF FilesTypeOK
  <2> QED  BY <1>0, <2>2, <2>3 DEF FilesTypeOK
<1>6. CleanSlot'
  BY <1>0, <1>1, <1>3 DEF FilesStrong, FilesInv, CleanSlot, FilesTypeOK
<1>7. PositionInFile'
  BY <1>2, <1>3 DEF FilesStrong, PositionInFile
<1>8. RtcPart'
  <2>1. StandardOnly'
    BY <1>2, <1>3 DEF FilesStrong, RtcPart, StandardOnly
  <2>0. /\ \A q \in Procs : HasOpen(q, Fds, "rtc")' <=> \E e \in Fds : Is(q, e, "rtc")'
        /\ \A q \in Procs : HasOpen(q, Fds, "rtc") <=> \E e \in Fds : Is(q, e, "rtc")
        /\ HasOpen(p, Fds \ {fd}, "rtc") <=> \E e \in Fds \ {fd} : Is(p, e, "rtc")
    BY DEF HasOpen, Is
  <2>2. /\ HasOpen(p, Fds, "rtc")' <=> HasOpen(p, Fds \ {fd}, "rtc")
        /\ HasOpen(p, Fds, "rtc") <=> HasOpen(p, Fds \ {fd}, "rtc") \/ Is(p, fd, "rtc")
        /\ \A q \in Procs \ {p} : HasOpen(q, Fds, "rtc")' <=> HasOpen(q, Fds, "rtc")
    BY <1>4, <2>0
  <2>3. IdleRate'
    BY <1>0, <1>1, <2>2 DEF FilesStrong, RtcPart, IdleRate, FilesTypeOK
  <2>4. HasOpen(p, Fds \ {fd}, "rtc") /\ Is(p, fd, "rtc") => wanted_rate[p] = NoPromise
    BY DEF FilesStrong, RtcPart, SharedRtc, HasOpen, Is
  <2>5. RtcAtWantedRate'
    BY <1>0, <1>1, <2>2, <2>4 DEF FilesStrong, RtcPart, RtcAtWantedRate, FilesTypeOK
  <2>6. SharedRtc'
    <3> SUFFICES ASSUME NEW q \in Procs, NEW d \in Fds, NEW e \in Fds, d # e,
                        Is(q, d, "rtc")', Is(q, e, "rtc")'
                 PROVE  wanted_rate'[q] = NoPromise
      BY DEF SharedRtc
    <3>1. wanted_rate[q] = NoPromise
      BY <1>4 DEF FilesStrong, RtcPart, SharedRtc
    <3>2. q = p => HasOpen(p, Fds \ {fd}, "rtc")
      BY <1>4, <2>0
    <3> QED  BY <1>0, <3>1, <3>2 DEF FilesTypeOK
  <2> QED  BY <2>1, <2>3, <2>5, <2>6 DEF RtcPart
<1>9. DirPart'
  <2>1. PendingDir'
    BY <1>0, <1>4 DEF FilesStrong, DirPart, PendingDir, FilesTypeOK
  <2>2. /\ DirInUse <=> \E q \in Procs, e \in Fds : Is(q, e, "dir")
        /\ DirInUse' <=> \E q \in Procs, e \in Fds : Is(q, e, "dir")'
    BY DEF DirInUse, HasOpen, Is
  <2>3. FreshIndex'
    BY <1>1, <1>4, <2>2 DEF FilesStrong, DirPart, FreshIndex
  <2>4. DirPromise'
    <3> SUFFICES ASSUME NEW q \in Procs, NEW e \in Fds,
                        Is(q, e, "dir")', expected'[q][e] # NoPromise
                 PROVE  OnlyDir(q, e)' /\ IndexIsDue(q, e)'
      BY DEF DirPromise
    <3>1. Is(q, e, "dir") /\ ~ (q = p /\ e = fd) /\ expected'[q][e] = expected[q][e]
      BY <1>2, <1>4
    <3>2. OnlyDir(q, e) /\ IndexIsDue(q, e)
      BY <3>1 DEF FilesStrong, DirPart, DirPromise
    <3>3. read_index' = read_index
      BY <1>1, <3>1, <3>2 DEF OnlyDir
    <3>4. OnlyDir(q, e)'
      BY <1>4, <3>2 DEF OnlyDir
    <3> QED  BY <1>0, <3>1, <3>2, <3>3, <3>4 DEF IndexIsDue
  <2> QED  BY <1>0, <2>1, <2>3, <2>4 DEF DirPart, ListsInOrder, Nothing
<1>10. FileNamed'
  BY <1>2, <1>4 DEF FilesStrong, FileNamed
<1> QED  BY <1>5, <1>6, <1>7, <1>8, <1>9, <1>10 DEF FilesStrong, FilesInv

(***************************************************************************)
(* What a read of a file returns: the bytes asked for as far as the file   *)
(* goes, so that the position stays in the file and never wraps, or -1.    *)
(***************************************************************************)
LEMMA ReadBounds ==
  ASSUME NEW name \in FileNames, NEW pos \in 0 .. WORD - 1, NEW n \in Int
  PROVE  LET got == file_read(name, pos, n) IN
         /\ got \in Int /\ Advanced(pos, n, got) \in 0 .. WORD - 1
         /\ got < 0 => got = -1
         /\ ~ (got < 0) => /\ Advanced(pos, n, got) = pos + got
                           /\ pos + got <= FileLengths[name]
                           /\ pos <= FileLengths[name]
<1> DEFINE got == file_read(name, pos, n)
<1>1. FileLengths[name] \in 0 .. WORD - 2 /\ WORD \in Nat \ {0}
  BY Bounds
<1>2. /\ got \in Int
      /\ got < 0 => got = -1
      /\ ~ (got < 0) => pos + got \in 0 .. FileLengths[name] /\ pos <= FileLengths[name]
  BY <1>1 DEF file_read, read_data
<1> HIDE DEF got
<1>3. \A k \in Int : k % WORD \in 0 .. WORD - 1
  BY <1>1
<1>4. \A k \in 0 .. WORD - 2 : k % WORD = k
  BY <1>1
<1>5. Advanced(pos, n, got) = (pos + got) % WORD /\ pos + got \in Int
  BY <1>1, <1>2 DEF Advanced
<1>6. got \in Int /\ Advanced(pos, n, got) \in 0 .. WORD - 1
  BY <1>2, <1>3, <1>5
<1>7. ~ (got < 0) => Advanced(pos, n, got) = pos + got
  BY <1>1, <1>2, <1>4, <1>5
<1>8. ~ (got < 0) => pos + got <= FileLengths[name]
  BY <1>1, <1>2
<1> QED  BY <1>2, <1>6, <1>7, <1>8 DEF got

\* A read moves the position of its descriptor alone.
LEMMA ReadFileStep ==
  ASSUME FilesStrong, NEW p \in Procs, NEW fd \in Fds, NEW n \in Counts,
         read_file(p, fd, n)
  PROVE  FilesStrong'
<1> DEFINE old == fdt[p][fd]
           got == file_read(old.name, old.file_pos, n)
           pos == Advanced(old.file_pos, n, got)
           due == IF got < 0 \/ expected[p][fd] = NoPromise THEN NoPromise
                  ELSE expected[p][fd] + got
<1>0. /\ FilesTypeOK /\ Is(p, fd, "file") /\ delivered' = Nothing /\ n \in Int
      /\ old \in Entries /\ expected[p][fd] \in Int
      /\ fdt' = [fdt EXCEPT ![p][fd].file_pos = pos]
      /\ expected' = [expected EXCEPT ![p][fd] = due]
      /\ UNCHANGED <<running, read_index, process_rtc, dir_pending, wanted_rate>>
  BY FilesAssumption DEF FilesStrong, FilesInv, FilesTypeOK, read_file, Quiet, Is
<1>1. old.name \in FileNames /\ old.file_pos \in 0 .. WORD - 1
  BY <1>0 DEF FilesStrong, FileNamed, Entries
<1>2. /\ got \in Int /\ pos \in 0 .. WORD - 1
      /\ ~ (got < 0) => pos = old.file_pos + got /\ pos <= FileLengths[old.name]
  BY <1>0, <1>1, ReadBounds
<1> HIDE DEF got, pos
<1>3. \A q \in Procs, e \in Fds :
        /\ fdt'[q][e] = IF q = p /\ e = fd THEN [old EXCEPT !.file_pos = pos] ELSE fdt[q][e]
        /\ expected'[q][e] = IF q = p /\ e = fd THEN due ELSE expected[q][e]
  BY <1>0 DEF FilesTypeOK
<1>4. \A q \in Procs, e \in Fds :
        /\ fdt'[q][e].flags = fdt[q][e].flags /\ fdt'[q][e].ops = fdt[q][e].ops
        /\ fdt'[q][e].name = fdt[q][e].name
        /\ fdt'[q][e].file_pos = IF q = p /\ e = fd THEN pos ELSE fdt[q][e].file_pos
  BY <1>0, <1>3 DEF Entries
<1>5. /\ \A q \in Procs, e \in Fds : Open(q, e)' <=> Open(q, e)
      /\ \A ops : \A q \in Procs, e \in Fds : Is(q, e, ops)' <=> Is(q, e, ops)
  BY <1>4 DEF Open, Is
<1>6. FilesTypeOK'
  <2>1. [old EXCEPT !.file_pos = pos] \in Entries
    BY <1>0, <1>2 DEF Entries
  <2>2. fdt' \in [Procs -> [Fds -> Entries]]
    <3>1. fdt' = [fdt EXCEPT ![p] = [fdt[p] EXCEPT ![fd] = [old EXCEPT !.file_pos = pos]]]
      BY <1>0 DEF FilesTypeOK
    <3> QED  BY <1>0, <2>1, <3>1 DEF FilesTypeOK
  <2>3. due \in Int
    BY <1>0, <1>2, Bounds
  <2>4. expected' \in [Procs -> [Fds -> Int]]
    BY <1>0, <2>3 DEF FilesTypeOK
  <2> QED  BY <1>0, <2>2, <2>4 DEF FilesTypeOK
<1>7. CleanSlot' /\ FileNamed'
  BY <1>0, <1>4, <1>5 DEF FilesStrong, FilesInv, CleanSlot, FileNamed
<1>8. PositionInFile'
  <2> SUFFICES ASSUME NEW q \in Procs, NEW e \in Fds,
                      Open(q, e)', fdt'[q][e].ops = "file", expected'[q][e] # NoPromise
               PROVE  /\ fdt'[q][e].file_pos = expected'[q][e]
                      /\ fdt'[q][e].file_pos <= FileLengths[fdt'[q][e].name]
    BY DEF PositionInFile
  <2>1. CASE q = p /\ e = fd
    <3>1. ~ (got < 0) /\ expected[p][fd] # NoPromise /\ expected'[q][e] = expected[p][fd] + got
      BY <1>3, <2>1
    <3>2. old.file_pos = expected[p][fd]
      BY <1>0, <3>1 DEF FilesStrong, PositionInFile, Is
    <3> QED  BY <1>2, <1>4, <2>1, <3>1, <3>2
  <2>2. CASE ~ (q = p /\ e = fd)
    BY <1>3, <1>5, <2>2 DEF FilesStrong, PositionInFile
  <2> QED  BY <2>1, <2>2
<1>9. RtcPart'
  <2>1. StandardOnly'
    BY <1>4, <1>5 DEF FilesStrong, RtcPart, StandardOnly
  <2>2. \A q \in Procs : HasOpen(q, Fds, "rtc")' <=> HasOpen(q, Fds, "rtc")
    BY <1>4, <1>5 DEF HasOpen
  <2>3. IdleRate' /\ RtcAtWantedRate'
    BY <1>0, <2>2 DEF FilesStrong, RtcPart, IdleRate, RtcAtWantedRate
  <2>4. SharedRtc'
    BY <1>0, <1>5 DEF FilesStrong, RtcPart, SharedRtc
  <2> QED  BY <2>1, <2>3, <2>4 DEF RtcPart
<1>10. DirPart'
  <2>1. PendingDir'
    BY <1>0, <1>5 DEF FilesStrong, DirPart, PendingDir, FilesTypeOK
  <2>2. FreshIndex'
    BY <1>0, <1>4, <1>5 DEF FilesStrong, DirPart, FreshIndex, DirInUse, HasOpen
  <2>3. DirPromise'
    <3> SUFFICES ASSUME NEW q \in Procs, NEW e \in Fds,
                        Is(q, e, "dir")', expected'[q][e] # NoPromise
                 PROVE  OnlyDir(q, e)' /\ IndexIsDue(q, e)'
      BY DEF DirPromise
    <3>1. Is(q, e, "dir") /\ ~ (q = p /\ e = fd)
      BY <1>0, <1>5 DEF Is
    <3>2. expected'[q][e] = expected[q][e]
      BY <1>3, <3>1
    <3>3. OnlyDir(q, e) /\ IndexIsDue(q, e)
      BY <3>1, <3>2 DEF FilesStrong, DirPart, DirPromise
    <3>4. OnlyDir(q, e)'
      BY <1>5, <3>3 DEF OnlyDir
    <3> QED  BY <1>0, <3>2, <3>3, <3>4 DEF IndexIsDue
  <2> QED  BY <1>0, <2>1, <2>2, <2>3 DEF DirPart, ListsInOrder, Nothing
<1> QED  BY <1>6, <1>7, <1>8, <1>9, <1>10 DEF FilesStrong, FilesInv

-----------------------------------------------------------------------------
\* What the steps that leave the tables alone keep.
LEMMA SameTables ==
  ASSUME FilesStrong, fdt' = fdt
  PROVE  /\ \A ops : \A q \in Procs, e \in Fds : Is(q, e, ops)' <=> Is(q, e, ops)
         /\ \A q \in Procs, e \in Fds : Open(q, e)' <=> Open(q, e)
         /\ \A q \in Procs : HasOpen(q, Fds, "rtc")' <=> HasOpen(q, Fds, "rtc")
         /\ DirInUse' <=> DirInUse
         /\ StandardOnly' /\ FileNamed'
         /\ \A q \in Procs, e \in Fds : OnlyDir(q, e)' <=> OnlyDir(q, e)
BY DEF Is, Open, HasOpen, DirInUse, FilesStrong, RtcPart, StandardOnly, FileNamed, OnlyDir

\* The calls that only fail, and the steps of others.
LEMMA NoChange ==
  ASSUME FilesStrong,
         UNCHANGED <<running, fdt, read_index, process_rtc, dir_pending, wanted_rate, expected>>,
         delivered' \in {delivered, Nothing}
  PROVE  FilesStrong'
<1>1. FilesInv' /\ PositionInFile'
  BY DEF FilesStrong, FilesInv, FilesTypeOK, CleanSlot, PositionInFile, Open
<1>2. IdleRate' /\ SharedRtc' /\ RtcAtWantedRate'
  BY SameTables DEF FilesStrong, RtcPart, IdleRate, SharedRtc, RtcAtWantedRate
<1>3. PendingDir' /\ FreshIndex'
  BY SameTables DEF FilesStrong, DirPart, PendingDir, FreshIndex, FilesInv, FilesTypeOK
<1>4. DirPromise'
  BY SameTables DEF FilesStrong, DirPart, DirPromise, IndexIsDue
<1>5. ListsInOrder'
  BY DEF FilesStrong, DirPart, ListsInOrder, Nothing
<1> QED  BY <1>1, <1>2, <1>3, <1>4, <1>5, SameTables DEF FilesStrong, RtcPart, DirPart

\* dir_read delivers the entry that is due; the index is one short from then on.
LEMMA DirReadStep ==
  ASSUME FilesStrong, NEW p \in Procs, NEW fd \in Fds, dir_read(p, fd)
  PROVE  FilesStrong'
<1>0. /\ FilesTypeOK /\ dir_pending[p] = -1 /\ Is(p, fd, "dir")
      /\ delivered' = [entry |-> read_index, due |-> expected[p][fd]]
      /\ UNCHANGED <<running, fdt, read_index, process_rtc, wanted_rate>>
      /\ expected[p][fd] \in Int /\ read_index \in 0 .. NumEntries
  BY DEF FilesStrong, FilesInv, FilesTypeOK, Ready, dir_read, Is
<1>1. expected[p][fd] # NoPromise => OnlyDir(p, fd) /\ expected[p][fd] = read_index
  BY <1>0 DEF FilesStrong, DirPart, DirPromise, IndexIsDue, Fds
<1>2. ListsInOrder'
  BY <1>0, <1>1 DEF ListsInOrder
<1>3. CASE read_index < NumEntries
  <2>1. /\ dir_pending' = [dir_pending EXCEPT ![p] = fd]
        /\ expected' = [expected EXCEPT ![p][fd] =
                          IF expected[p][fd] \in 0 .. NumEntries - 1
                            THEN expected[p][fd] + 1 ELSE expected[p][fd]]
    BY <1>3 DEF dir_read
  <2>2. \A q \in Procs, e \in Fds : ~ (q = p /\ e = fd) => expected'[q][e] = expected[q][e]
    BY <1>0, <2>1 DEF FilesTypeOK
  <2>3. IF expected[p][fd] = NoPromise THEN expected'[p][fd] = NoPromise
        ELSE expected'[p][fd] = read_index + 1
    <3>1. expected'[p][fd] = IF expected[p][fd] \in 0 .. NumEntries - 1
                               THEN expected[p][fd] + 1 ELSE expected[p][fd]
      BY <1>0, <2>1 DEF FilesTypeOK
    <3> QED  BY <1>0, <1>1, <1>3, <3>1, Bounds
  <2>4. FilesTypeOK'
    <3>1. expected' \in [Procs -> [Fds -> Int]]
      BY <1>0, <2>1 DEF FilesTypeOK
    <3> QED  BY <1>0, <2>1, <3>1 DEF FilesTypeOK
  <2>5. CleanSlot' /\ IdleRate' /\ SharedRtc' /\ RtcAtWantedRate'
    BY <1>0, SameTables DEF FilesStrong, FilesInv, CleanSlot, RtcPart, IdleRate, SharedRtc, RtcAtWantedRate
  <2>6. PositionInFile'
    BY <1>0, <2>2, SameTables DEF FilesStrong, PositionInFile, Is
  <2>7. PendingDir' /\ FreshIndex'
    <3>1. FreshIndex'
      BY <1>0, SameTables DEF FilesStrong, DirPart, FreshIndex
    <3>2. PendingDir'
      BY <1>0, <2>1 DEF FilesStrong, DirPart, PendingDir, Is, Open, FilesTypeOK
    <3> QED  BY <3>1, <3>2
  <2>8. DirPromise'
    <3> SUFFICES ASSUME NEW q \in Procs, NEW e \in Fds,
                        Is(q, e, "dir")', expected'[q][e] # NoPromise
                 PROVE  OnlyDir(q, e)' /\ IndexIsDue(q, e)'
      BY DEF DirPromise
    <3>1. Is(q, e, "dir") /\ expected[q][e] # NoPromise
      BY <1>0, <2>2, <2>3, SameTables
    <3>2. OnlyDir(q, e)
      BY <3>1 DEF FilesStrong, DirPart, DirPromise
    <3>3. q = p /\ e = fd
      BY <1>0, <3>2 DEF OnlyDir
    <3>4. dir_pending'[p] = fd
      BY <1>0, <2>1 DEF FilesTypeOK
    <3>5. expected'[p][fd] = read_index + 1
      BY <2>3, <3>1, <3>3
    <3>6. OnlyDir(q, e)'
      BY <1>0, <3>2, SameTables
    <3> QED  BY <1>0, <1>3, <3>3, <3>4, <3>5, <3>6 DEF IndexIsDue
  <2> QED  BY <1>0, <1>2, <2>4, <2>5, <2>6, <2>7, <2>8, SameTables
           DEF FilesStrong, FilesInv, RtcPart, DirPart
<1>4. CASE ~ (read_index < NumEntries)
  <2>1. UNCHANGED <<dir_pending, expected>>
    BY <1>4 DEF dir_read
  <2>2. FilesInv' /\ PositionInFile'
    BY <1>0, <2>1 DEF FilesStrong, FilesInv, FilesTypeOK, CleanSlot, PositionInFile, Open
  <2>3. IdleRate' /\ SharedRtc' /\ RtcAtWantedRate'
    BY <1>0, SameTables DEF FilesStrong, RtcPart, IdleRate, SharedRtc, RtcAtWantedRate
  <2>4. PendingDir' /\ FreshIndex'
    BY <1>0, <2>1, SameTables DEF FilesStrong, DirPart, PendingDir, FreshIndex, FilesTypeOK
  <2>5. DirPromise'
    BY <1>0, <2>1, SameTables DEF FilesStrong, DirPart, DirPromise, IndexIsDue
  <2> QED  BY <1>0, <1>2, <2>2, <2>3, <2>4, <2>5, SameTables DEF FilesStrong, RtcPart, DirPart
<1> QED  BY <1>3, <1>4

\* The increment catches up with what the only owner expects.
LEMMA DirReadDoneStep ==
  ASSUME FilesStrong, NEW p \in Procs, dir_read_done(p)
  PROVE  FilesStrong'
<1>0. /\ FilesTypeOK /\ dir_pending[p] # -1 /\ dir_pending[p] \in Fds /\ delivered' = Nothing
      /\ read_index' = IF read_index < NumEntries THEN read_index + 1 ELSE read_index
      /\ dir_pending' = [dir_pending EXCEPT ![p] = -1]
      /\ UNCHANGED <<running, fdt, process_rtc, wanted_rate, expected>>
  BY DEF FilesStrong, FilesInv, FilesTypeOK, dir_read_done, Quiet
<1>1. Is(p, dir_pending[p], "dir")
  BY <1>0 DEF FilesStrong, DirPart, PendingDir
<1>2. FilesTypeOK'
  <2>1. read_index' \in 0 .. NumEntries
    BY <1>0, Bounds DEF FilesTypeOK
  <2> QED  BY <1>0, <2>1 DEF FilesTypeOK
<1>3. CleanSlot' /\ PositionInFile'
  BY <1>0 DEF FilesStrong, FilesInv, CleanSlot, PositionInFile, Open
<1>4. IdleRate' /\ SharedRtc' /\ RtcAtWantedRate'
  BY <1>0, SameTables DEF FilesStrong, RtcPart, IdleRate, SharedRtc, RtcAtWantedRate
<1>5. FreshIndex'
  BY <1>0, <1>1, SameTables DEF FreshIndex, DirInUse, HasOpen, Is
<1>6. PendingDir'
  BY <1>0 DEF FilesStrong, DirPart, PendingDir, Is, Open, FilesTypeOK
<1>7. DirPromise'
  <2> SUFFICES ASSUME NEW q \in Procs, NEW e \in Fds,
                      Is(q, e, "dir")', expected'[q][e] # NoPromise
               PROVE  OnlyDir(q, e)' /\ IndexIsDue(q, e)'
    BY DEF DirPromise
  <2>1. Is(q, e, "dir") /\ expected[q][e] # NoPromise
    BY <1>0, SameTables
  <2>2. OnlyDir(q, e) /\ IndexIsDue(q, e)
    BY <2>1 DEF FilesStrong, DirPart, DirPromise
  <2>3. q = p /\ e = dir_pending[p]
    BY <1>0, <1>1, <2>2 DEF OnlyDir
  <2>4. read_index < NumEntries /\ expected[p][e] = read_index + 1
    BY <2>2, <2>3 DEF IndexIsDue
  <2>5. dir_pending'[p] = -1 /\ e # -1
    BY <1>0, <2>3, Bounds DEF FilesTypeOK, Fds
  <2>6. OnlyDir(q, e)'
    BY <1>0, <2>2, SameTables
  <2> QED  BY <1>0, <2>3, <2>4, <2>5, <2>6 DEF IndexIsDue
<1> QED  BY <1>0, <1>2, <1>3, <1>4, <1>5, <1>6, <1>7, SameTables
         DEF FilesStrong, FilesInv, RtcPart, DirPart, ListsInOrder, Nothing

\* Only a process with the RTC open changes its rate.
LEMMA RtcWriteStep ==
  ASSUME FilesStrong, NEW p \in Procs, NEW fd \in Fds, NEW freq \in Freqs,
         rtc_write(p, fd, freq)
  PROVE  FilesStrong'
<1>0. /\ FilesTypeOK /\ running[p] /\ Is(p, fd, "rtc") /\ delivered' = Nothing /\ freq \in Int
      /\ UNCHANGED <<running, fdt, read_index, dir_pending, expected>>
  BY FilesAssumption DEF FilesStrong, FilesInv, Ready, rtc_write, Quiet, Is
<1>1. CASE ValidFreq(freq)
  <2>1. /\ process_rtc' = [process_rtc EXCEPT ![p] = freq]
        /\ wanted_rate' = [wanted_rate EXCEPT ![p] =
                             IF wanted_rate[p] = NoPromise THEN NoPromise ELSE freq]
    BY <1>1 DEF rtc_write
  <2>2. freq \in MIN_VIR_FREQ .. MAX_VIR_FREQ
    BY <1>0, <1>1, Bounds DEF ValidFreq
  <2>3. FilesTypeOK'
    BY <1>0, <2>1, <2>2 DEF FilesTypeOK
  <2>4. HasOpen(p, Fds, "rtc")
    BY <1>0 DEF HasOpen, Is
  <2>5. CleanSlot' /\ PositionInFile'
    BY <1>0, <2>1 DEF FilesStrong, FilesInv, CleanSlot, PositionInFile, Open, FilesTypeOK
  <2>6. IdleRate'
    BY <1>0, <2>1, <2>4, SameTables DEF FilesStrong, RtcPart, IdleRate, FilesTypeOK
  <2>7. RtcAtWantedRate'
    BY <1>0, <2>1, SameTables DEF FilesStrong, RtcPart, RtcAtWantedRate, FilesTypeOK
  <2>8. SharedRtc'
    BY <1>0, <2>1, SameTables DEF FilesStrong, RtcPart, SharedRtc, FilesTypeOK
  <2>9. PendingDir' /\ FreshIndex'
    BY <1>0, SameTables DEF FilesStrong, DirPart, PendingDir, FreshIndex, FilesTypeOK
  <2>10. DirPromise'
    BY <1>0, SameTables DEF FilesStrong, DirPart, DirPromise, IndexIsDue
  <2> QED  BY <1>0, <2>3, <2>5, <2>6, <2>7, <2>8, <2>9, <2>10, SameTables
           DEF FilesStrong, FilesInv, RtcPart, DirPart, ListsInOrder, Nothing
<1>2. CASE ~ ValidFreq(freq)
  BY <1>0, <1>2, NoChange DEF rtc_write
<1> QED  BY <1>1, <1>2

-----------------------------------------------------------------------------
\* The invariant is inductive.
LEMMA FilesStep == FilesStrong /\ [FilesNext]_fvars => FilesStrong'
<1> SUFFICES ASSUME FilesStrong, [FilesNext]_fvars PROVE FilesStrong'
  OBVIOUS
<1>1. CASE UNCHANGED fvars
  BY <1>1, NoChange DEF fvars
<1>2. ASSUME NEW p \in Procs, Calls(p) PROVE FilesStrong'
  <2>1. CASE sys_execute(p)
    BY <2>1, ExecuteStep
  <2>2. CASE halt_helper(p) \/ past_the_table(p)
    BY <2>2, EndStep DEF halt_helper, past_the_table
  <2>3. CASE \E name \in FileNames \cup {DirName, RtcName} : sys_open(p, name)
    BY <2>3, OpenStep
  <2>4. CASE sys_open_refused(p)
    BY <2>4, NoChange DEF sys_open_refused, Quiet
  <2>5. CASE \E fd \in Fds : sys_close(p, fd)
    BY <2>5, CloseStep
  <2>6. CASE \E call \in {"read", "write", "close"}, fd \in FdArgs : refuse(p, call, fd)
    BY <2>6, NoChange DEF refuse, Quiet
  <2>7. CASE \E fd \in Fds, n \in Counts : read_file(p, fd, n)
    BY <2>7, ReadFileStep
  <2>8. CASE \E fd \in Fds : dir_read(p, fd)
    BY <2>8, DirReadStep
  <2>9. CASE dir_read_done(p)
    BY <2>9, DirReadDoneStep
  <2>10. CASE \E fd \in Fds, freq \in Freqs : rtc_write(p, fd, freq)
    BY <2>10, RtcWriteStep
  <2>11. CASE \E call \in {"read", "write"}, fd \in Fds : invalid_read_write(p, call, fd)
    BY <2>11, NoChange DEF invalid_read_write, Quiet
  <2> QED  BY <1>2, <2>1, <2>2, <2>3, <2>4, <2>5, <2>6, <2>7, <2>8, <2>9, <2>10, <2>11 DEF Calls
<1> QED  BY <1>1, <1>2 DEF FilesNext

\* The invariant holds after any sequence of system calls.
LEMMA FilesAlways == FilesSpec => []FilesStrong
BY FilesStart, FilesStep, PTL DEF FilesSpec

(***************************************************************************)
(* Indices and rates stay in range whatever programs ask of open, close,   *)
(* read and write, and a process leaves nothing behind in its slot however *)
(* it ends (halt_helper, the exception behind the table).                  *)
(***************************************************************************)
THEOREM FilesCorrect == FilesSpec => []FilesInv
<1>1. FilesStrong => FilesInv
  BY DEF FilesStrong
<1> QED  BY <1>1, FilesAlways, PTL

(***************************************************************************)
(* file_read and sys_read continue where the last read of the descriptor   *)
(* ended and never past the end of the file, until one of them fails.      *)
(***************************************************************************)
THEOREM PositionCorrect == FilesSpec => []PositionInFile
<1>1. FilesStrong => PositionInFile
  BY DEF FilesStrong
<1> QED  BY <1>1, FilesAlways, PTL

(***************************************************************************)
(* dir_read delivers the entries of a directory nobody else has open one   *)
(* after the other, although read_index is shared, kept in no table and    *)
(* incremented after the entry is looked up.                               *)
(***************************************************************************)
THEOREM ListsCorrect == FilesSpec => []ListsInOrder
<1>1. FilesStrong => ListsInOrder
  BY DEF FilesStrong, DirPart
<1> QED  BY <1>1, FilesAlways, PTL

(***************************************************************************)
(* A process that has the RTC open once runs at the rate its last open or  *)
(* rtc_write set, whatever other processes do with theirs.                 *)
(***************************************************************************)
THEOREM RatesCorrect == FilesSpec => []RtcAtWantedRate
<1>1. FilesStrong => RtcAtWantedRate
  BY DEF FilesStrong, RtcPart
<1> QED  BY <1>1, FilesAlways, PTL
=============================================================================
