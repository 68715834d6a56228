-------------------------- MODULE Programs_proofs --------------------------
(***************************************************************************)
(* Proofs about FileSystem, Commands, Programs and Fish, for any image and *)
(* any line typed: names and lines of any length, files of any number of   *)
(* blocks, buffers of any size.                                            *)
(***************************************************************************)
EXTENDS Fish, SequenceTheorems, FiniteSetTheorems, WellFoundedInduction, TLAPS

\* The constants, as the proofs use them.
LEMMA ImageType ==
  /\ MAX_STR_LENGTH \in Nat \ {0} /\ BLOCK_SIZE \in Nat \ {0} /\ NUL \notin Letters
  /\ Len(Directory) \in Nat /\ DOMAIN Directory = 1 .. Len(Directory)
  /\ \A k \in 1 .. Len(Directory) :
       Directory[k] \in Seq(Letters) /\ Len(Directory[k]) \in 1 .. MAX_STR_LENGTH
  /\ NumInodes \in Nat
  /\ \A n \in 0 .. NumInodes - 1 : inode(n).length \in Nat
BY FileSystemAssumption DEF NumInodes, inode

-----------------------------------------------------------------------------
(* Looking up a name. *)

\* What the user can type in a line.
Typed == Letters \cup {SPACE}

\* The characters of a string that was typed are no NUL up to its end.
LEMMA CharOf ==
  ASSUME NEW s \in Seq(Typed), NEW n \in Nat
  PROVE  /\ n < Len(s) => Char(s, n) = s[n + 1] /\ Char(s, n) \in Typed /\ Char(s, n) # NUL
         /\ ~ (n < Len(s)) => Char(s, n) = NUL
<1>1. NUL \notin Typed
  BY ImageType DEF Typed, NUL, SPACE
<1> QED  BY <1>1 DEF Char

\* A name is a string that could be typed.
LEMMA NameTyped == Seq(Letters) \subseteq Seq(Typed)
<1>1. Letters \subseteq Typed
  BY DEF Typed
<1> QED  BY <1>1

(***************************************************************************)
(* strncmp over the longer of the two lengths tells names apart: the name  *)
(* that ends first has a NUL where the other has a letter.                 *)
(***************************************************************************)
LEMMA MatchesExact ==
  ASSUME NEW s \in Seq(Typed), NEW d \in Seq(Typed), Len(s) > 0
  PROVE  Matches(s, d) <=> s = d
<1>0. Len(s) \in Nat /\ Len(d) \in Nat
  OBVIOUS
<1>1. s = d => Matches(s, d)
  BY DEF Matches, strncmp_equal
<1>2. ASSUME Matches(s, d) PROVE s = d
  <2> DEFINE n == compared(s, d)
  <2>1. n \in Nat /\ n >= Len(s) /\ n >= Len(d) /\ n \in {Len(s), Len(d)}
    BY <1>0 DEF compared
  <2>2. \A k \in 0 .. n - 1 : k <= Len(s) => Char(s, k) = Char(d, k)
    <3> TAKE k \in 0 .. n - 1
    <3>1. k <= Len(s) => \A j \in 0 .. k - 1 : Char(s, j) # NUL
      BY <1>0, <2>1, CharOf
    <3> QED  BY <1>2, <3>1 DEF Matches, strncmp_equal
  <2> HIDE DEF n
  <2>3. ~ (Len(s) < Len(d))
    <3> SUFFICES ASSUME Len(s) < Len(d) PROVE FALSE
      OBVIOUS
    <3>1. Char(s, Len(s)) = Char(d, Len(s))
      BY <1>0, <2>1, <2>2
    <3> QED  BY <1>0, <3>1, CharOf
  <2>4. ~ (Len(d) < Len(s))
    <3> SUFFICES ASSUME Len(d) < Len(s) PROVE FALSE
      OBVIOUS
    <3>1. Char(s, Len(d)) = Char(d, Len(d))
      BY <1>0, <2>1, <2>2
    <3> QED  BY <1>0, <3>1, CharOf
  <2>5. Len(s) = Len(d)
    BY <1>0, <2>3, <2>4
  <2>6. \A k \in 1 .. Len(s) : s[k] = d[k]
    <3> TAKE k \in 1 .. Len(s)
    <3>1. k - 1 \in 0 .. n - 1 /\ k - 1 < Len(s) /\ k - 1 \in Nat /\ (k - 1) + 1 = k
      BY <1>0, <2>1
    <3>2. Char(s, k - 1) = Char(d, k - 1)
      BY <1>0, <2>2, <3>1
    <3>3. Char(s, k - 1) = s[k] /\ Char(d, k - 1) = d[k]
      BY <2>5, <3>1 DEF Char
    <3> QED  BY <3>2, <3>3
  <2> QED  BY <2>5, <2>6, SeqEqual
<1> QED  BY <1>1, <1>2

\* What is smaller among the numbers.
Below == {ss \in Nat \X Nat : ss[1] < ss[2]}

\* A set of numbers has a least one.
LEMMA LeastOf ==
  ASSUME NEW S \in SUBSET Nat, S # {}
  PROVE  \E k \in S : \A j \in S : k <= j
<1>1. IsWellFoundedOn(Below, Nat)
  BY NatLessThanWellFounded DEF Below, OpToRel
<1>2. PICK k \in S : \A j \in S : ~ (<<j, k>> \in Below)
  BY <1>1, WFMin
<1>3. ASSUME NEW j \in S PROVE k <= j
  <2>1. <<j, k>> \in Nat \X Nat /\ <<j, k>> \notin Below
    BY <1>2
  <2>2. ~ (j < k)
    BY <2>1 DEF Below
  <2> QED  BY <2>2
<1> QED  BY <1>3

\* lookup gives an entry with exactly that name if there is one.
LEMMA LookupFinds ==
  ASSUME NEW fname \in Seq(Typed)
  PROVE  IF \E k \in DOMAIN Directory : Directory[k] = fname
           THEN lookup(fname) >= 0 /\ Directory[lookup(fname) + 1] = fname
           ELSE lookup(fname) = -1
<1>1. fname \in Seq(Typed) /\ Len(fname) \in Nat
      /\ \A k \in DOMAIN Directory : Directory[k] \in Seq(Typed)
  BY ImageType, NameTyped
<1>2. CASE Len(fname) > MAX_STR_LENGTH \/ Len(fname) = 0
  BY <1>1, <1>2, ImageType DEF lookup
<1>3. CASE ~ (Len(fname) > MAX_STR_LENGTH \/ Len(fname) = 0)
  <2> DEFINE found == {k \in DOMAIN Directory : Matches(fname, Directory[k])}
  <2>1. lookup(fname) = IF found = {} THEN -1
                        ELSE (CHOOSE k \in found : \A j \in found : k <= j) - 1
    BY <1>3 DEF lookup
  <2>2. found = {k \in DOMAIN Directory : Directory[k] = fname}
    BY <1>1, <1>3, ImageType, MatchesExact
  <2>3. found \in SUBSET Nat /\ \A k \in found : k >= 1
    BY ImageType
  <2> HIDE DEF found
  <2>4. CASE found = {}
    BY <2>1, <2>2, <2>4
  <2>5. CASE found # {}
    <3> DEFINE first == CHOOSE k \in found : \A j \in found : k <= j
    <3>1. first \in found
      BY <2>3, <2>5, LeastOf
    <3>2. lookup(fname) = first - 1
      BY <2>1, <2>5
    <3> HIDE DEF first
    <3>3. first \in Nat /\ first >= 1 /\ (first - 1) + 1 = first
      BY <2>3, <3>1
    <3>4. first \in DOMAIN Directory /\ Directory[first] = fname
      BY <2>2, <3>1
    <3> QED  BY <3>2, <3>3, <3>4
  <2> QED  BY <2>4, <2>5
<1> QED  BY <1>2, <1>3

-----------------------------------------------------------------------------
(* Copying the bytes of a file. *)

\* The block of a position changes at the multiples of the block size only.
LEMMA SameBlock ==
  ASSUME NEW b \in Nat \ {0}, NEW x \in Nat \ {0}, x % b # 0
  PROVE  (x - 1) \div b = x \div b
<1> DEFINE q == x \div b
           r == x % b
<1>1. q \in Nat /\ r \in 1 .. b - 1 /\ x = b * q + r
  OBVIOUS
<1>2. \A y \in Nat, p \in Nat, m \in 0 .. b - 1 : y = b * p + m => y \div b = p
  OBVIOUS
<1> HIDE DEF q, r
<1>3. x - 1 \in Nat /\ r - 1 \in 0 .. b - 1 /\ x - 1 = b * q + (r - 1)
  BY <1>1
<1>4. (x - 1) \div b = q
  BY <1>1, <1>2, <1>3
<1> QED  BY <1>4 DEF q

\* Byte k of a file, counted from 0.
ByteOf(n, k) == <<block_of(n, k), k % BLOCK_SIZE>>

FileBytes(n) == {ByteOf(n, k) : k \in 0 .. inode(n).length - 1}

(***************************************************************************)
(* In the loop of read_data: the bytes copied so far are those of the file *)
(* from the offset on, and cur_dblock is the block of the last one, or of  *)
(* the offset at the start.                                                *)
(***************************************************************************)
Copied ==
  LET n == args.inode off == args.offset IN
  /\ args.call = "data"
  /\ n \in 0 .. NumInodes - 1 /\ off \in 0 .. inode(n).length /\ args.length \in Nat
  /\ i \in 0 .. args.length /\ i + off <= inode(n).length
  /\ cur_dblock = block_of(n, IF i = 0 THEN off ELSE i + off - 1)
  /\ buf \in Seq(FileBytes(n)) /\ Len(buf) = i
  /\ \A k \in 1 .. i : buf[k] = ByteOf(n, off + k - 1)

FileSystemStrong ==
  /\ pc = "copy" => Copied
  /\ LookupExact
  /\ ReadsTheFile

\* Contents is the sequence of the bytes.
LEMMA ContentsAre ==
  ASSUME NEW n \in 0 .. NumInodes - 1
  PROVE  /\ Contents(n) \in Seq(FileBytes(n)) /\ Len(Contents(n)) = inode(n).length
         /\ \A k \in 1 .. inode(n).length : Contents(n)[k] = ByteOf(n, k - 1)
<1>1. inode(n).length \in Nat
  BY ImageType
<1>2. \A k \in 1 .. inode(n).length : k - 1 \in 0 .. inode(n).length - 1
  BY <1>1
<1>3. Contents(n) = [k \in 1 .. inode(n).length |-> ByteOf(n, k - 1)]
  BY DEF Contents, ByteOf, block_of
<1>4. \A k \in 1 .. inode(n).length : ByteOf(n, k - 1) \in FileBytes(n)
  BY <1>2 DEF FileBytes
<1>5. Contents(n) \in Seq(FileBytes(n))
  BY <1>1, <1>3, <1>4, IsASeq
<1>6. DOMAIN Contents(n) = 1 .. inode(n).length
  BY <1>3
<1>7. Len(Contents(n)) = inode(n).length
  BY <1>1, <1>5, <1>6, LenProperties
<1> QED  BY <1>3, <1>5, <1>7

\* The byte that is copied next is the next one of the file.
LEMMA CopyStep ==
  ASSUME FileSystemStrong, copy_byte
  PROVE  FileSystemStrong'
<1> DEFINE n == args.inode
           off == args.offset
<1>0. /\ Copied /\ pc = "copy" /\ pc' = "copy" /\ args' = args /\ result' = result
      /\ i < args.length /\ i + off < inode(n).length /\ i' = i + 1
      /\ cur_dblock' = NextBlock(n, off, i)
      /\ buf' = Append(buf, <<cur_dblock', (i + off) % BLOCK_SIZE>>)
  BY DEF FileSystemStrong, copy_byte, InLoop
<1>1. /\ args.call = "data" /\ n \in 0 .. NumInodes - 1 /\ off \in 0 .. inode(n).length
      /\ args.length \in Nat /\ i \in 0 .. args.length
      /\ cur_dblock = block_of(n, IF i = 0 THEN off ELSE i + off - 1)
      /\ buf \in Seq(FileBytes(n)) /\ Len(buf) = i
      /\ \A k \in 1 .. i : buf[k] = ByteOf(n, off + k - 1)
      /\ inode(n).length \in Nat /\ BLOCK_SIZE \in Nat \ {0}
  BY <1>0, ImageType DEF Copied
<1>a. i \in Nat /\ off \in Nat /\ i < args.length /\ i + off < inode(n).length
  BY <1>0, <1>1
<1> HIDE DEF n, off
<1>2. cur_dblock' = block_of(n, i + off)
  <2>1. CASE (i + off) % BLOCK_SIZE = 0
    BY <1>0, <2>1 DEF NextBlock
  <2>2. CASE (i + off) % BLOCK_SIZE # 0 /\ i = 0
    BY <1>0, <1>1, <2>2 DEF NextBlock
  <2>3. CASE (i + off) % BLOCK_SIZE # 0 /\ i # 0
    <3>1. PICK x \in Nat \ {0} : x = i + off
      BY <1>a, <2>3
    <3>2. (x - 1) \div BLOCK_SIZE = x \div BLOCK_SIZE
      BY <2>3, <3>1, SameBlock, ImageType
    <3>3. cur_dblock' = cur_dblock /\ cur_dblock = block_of(n, x - 1)
      BY <1>0, <1>1, <2>3, <3>1 DEF NextBlock
    <3>4. cur_dblock' = block_of(n, x)
      BY <3>2, <3>3 DEF block_of
    <3> QED  BY <3>1, <3>4
  <2> QED  BY <2>1, <2>2, <2>3
<1>3. buf' = Append(buf, ByteOf(n, off + i)) /\ i + off = off + i
  <2>1. i + off = off + i
    BY <1>1
  <2> QED  BY <1>0, <1>2, <2>1 DEF ByteOf
<1>4. off + i \in 0 .. inode(n).length - 1
  BY <1>1, <1>a
<1>5. ByteOf(n, off + i) \in FileBytes(n)
  BY <1>4 DEF FileBytes
<1>6. /\ buf' \in Seq(FileBytes(n)) /\ Len(buf') = i + 1
      /\ \A k \in 1 .. i + 1 : buf'[k] = IF k = i + 1 THEN ByteOf(n, off + i) ELSE buf[k]
  BY <1>1, <1>3, <1>5
<1>7. \A k \in 1 .. i + 1 : buf'[k] = ByteOf(n, off + k - 1)
  <2> TAKE k \in 1 .. i + 1
  <2>1. CASE k = i + 1
    <3>1. off + k - 1 = off + i
      BY <1>1, <2>1
    <3> QED  BY <1>6, <2>1, <3>1
  <2>2. CASE k # i + 1
    BY <1>1, <1>6, <2>2
  <2> QED  BY <2>1, <2>2
<1>8. i + 1 \in 0 .. args.length /\ i + 1 + off <= inode(n).length /\ i + 1 # 0 /\ i + 1 + off - 1 = i + off
  BY <1>1, <1>a
<1>9. Copied'
  BY <1>0, <1>1, <1>2, <1>6, <1>7, <1>8 DEF Copied, inode, block_of, ByteOf, FileBytes, NumInodes, n, off
<1> QED  BY <1>0, <1>1, <1>9 DEF FileSystemStrong, LookupExact, ReadsTheFile

\* When the loop ends, everything asked for or everything there is was copied.
LEMMA DoneStep ==
  ASSUME FileSystemStrong, read_data_done
  PROVE  FileSystemStrong'
<1> DEFINE n == args.inode
           off == args.offset
           rest == inode(n).length - off
<1>0. /\ Copied /\ pc' = "idle" /\ args' = args /\ buf' = buf /\ result' = i
      /\ ~ (i < args.length /\ i + off < inode(n).length)
  BY DEF FileSystemStrong, read_data_done, InLoop
<1>1. /\ args.call = "data" /\ n \in 0 .. NumInodes - 1 /\ off \in 0 .. inode(n).length
      /\ args.length \in Nat /\ i \in 0 .. args.length /\ i + off <= inode(n).length
      /\ buf \in Seq(FileBytes(n)) /\ Len(buf) = i
      /\ \A k \in 1 .. i : buf[k] = ByteOf(n, off + k - 1)
      /\ inode(n).length \in Nat /\ NumInodes \in Nat
  BY <1>0, ImageType DEF Copied
<1> HIDE DEF n, off
<1>2. /\ i \in Nat /\ off \in Nat /\ n < NumInodes /\ off <= inode(n).length
      /\ i = IF args.length < rest THEN args.length ELSE rest
  BY <1>0, <1>1
<1>3. buf = SubSeq(Contents(n), off + 1, off + i)
  <2> DEFINE s == SubSeq(Contents(n), off + 1, off + i)
  <2>1. \A k \in off + 1 .. off + i : k \in 1 .. inode(n).length
    BY <1>1, <1>2
  <2>2. \A k \in off + 1 .. off + i : Contents(n)[k] \in FileBytes(n)
    <3>1. Contents(n) \in Seq(FileBytes(n)) /\ Len(Contents(n)) = inode(n).length
      BY <1>1, ContentsAre
    <3> QED  BY <2>1, <3>1, ElementOfSeq
  <2>3. off + 1 \in Int /\ off + i \in Int /\ (off + i) - (off + 1) + 1 = i
    BY <1>2
  <2>4. s \in Seq(FileBytes(n)) /\ Len(s) = i
        /\ \A k \in 1 .. i : s[k] = Contents(n)[(off + 1) + k - 1]
    <3>1. /\ s \in Seq(FileBytes(n))
          /\ Len(s) = IF off + 1 <= off + i THEN (off + i) - (off + 1) + 1 ELSE 0
          /\ \A k \in 1 .. (off + i) - (off + 1) + 1 : s[k] = Contents(n)[(off + 1) + k - 1]
      BY <2>2, <2>3, SubSeqProperties
    <3> HIDE DEF s
    <3>2. (IF off + 1 <= off + i THEN (off + i) - (off + 1) + 1 ELSE 0) = i
      BY <1>2
    <3>3. 1 .. (off + i) - (off + 1) + 1 = 1 .. i
      BY <2>3
    <3>4. Len(s) = i
      BY <3>1, <3>2
    <3>5. ASSUME NEW k \in 1 .. i PROVE s[k] = Contents(n)[(off + 1) + k - 1]
      <4>1. k \in 1 .. (off + i) - (off + 1) + 1
        BY <3>3
      <4> QED  BY <3>1, <4>1
    <3> QED  BY <3>1, <3>4, <3>5
  <2> HIDE DEF s
  <2>5. \A k \in 1 .. i : s[k] = ByteOf(n, off + k - 1)
    <3> TAKE k \in 1 .. i
    <3>1. (off + 1) + k - 1 \in 1 .. inode(n).length /\ ((off + 1) + k - 1) - 1 = off + k - 1
      BY <1>1, <1>2
    <3>2. Contents(n)[(off + 1) + k - 1] = ByteOf(n, ((off + 1) + k - 1) - 1)
      BY <1>1, <3>1, ContentsAre
    <3> QED  BY <2>4, <3>1, <3>2
  <2>6. buf = s
    BY <1>1, <2>4, <2>5, SeqEqual
  <2> QED  BY <2>6 DEF s
<1>4. ReadsTheFile'
  BY <1>0, <1>1, <1>2, <1>3 DEF ReadsTheFile, n, off, NumInodes, inode, Contents
<1> QED  BY <1>0, <1>1, <1>4 DEF FileSystemStrong, LookupExact

\* read_data refuses the call, or starts with nothing copied.
LEMMA ReadStep ==
  ASSUME NEW n \in Nat, NEW offset \in Nat, NEW length \in Nat,
         read_data(n, offset, length)
  PROVE  FileSystemStrong'
<1>0. /\ args' = [call |-> "data", inode |-> n, offset |-> offset, length |-> length]
      /\ buf' = << >> /\ i' = 0
  BY DEF read_data
<1>1. /\ args'.call = "data" /\ args'.inode = n /\ args'.offset = offset /\ args'.length = length
      /\ offset \in Nat /\ length \in Nat /\ n \in Nat /\ NumInodes \in Nat
  BY <1>0, ImageType
<1>2. LookupExact'
  BY <1>1 DEF LookupExact
<1>3. CASE refused(n, offset)
  <2>1. result' = -1 /\ pc' = "idle"
    BY <1>3 DEF read_data
  <2>2. ~ (n < NumInodes /\ offset <= inode(n).length)
    BY <1>1, <1>3, ImageType DEF refused
  <2>3. ReadsTheFile'
    BY <1>1, <2>1, <2>2 DEF ReadsTheFile, NumInodes, inode
  <2> QED  BY <1>2, <2>1, <2>3 DEF FileSystemStrong
<1>4. CASE ~ refused(n, offset)
  <2>1. pc' = "copy" /\ cur_dblock' = block_of(n, offset)
    BY <1>4 DEF read_data
  <2>2. n \in 0 .. NumInodes - 1 /\ offset \in 0 .. inode(n).length
    <3>1. n \in 0 .. NumInodes - 1
      BY <1>1, <1>4 DEF refused
    <3>2. inode(n).length \in Nat
      BY <3>1, ImageType
    <3> QED  BY <1>1, <1>4, <3>1, <3>2 DEF refused
  <2>3. inode(n).length \in Nat
    BY <2>2, ImageType
  <2>4. << >> \in Seq(FileBytes(n)) /\ Len(<< >>) = 0
    BY EmptySeq
  <2>5. 0 \in 0 .. length /\ 0 + offset <= inode(n).length
        /\ \A k \in 1 .. 0 : << >>[k] = ByteOf(n, offset + k - 1)
    BY <1>1, <2>2, <2>3
  <2>6. Copied'
    BY <1>0, <1>1, <2>1, <2>2, <2>4, <2>5
    DEF Copied, NumInodes, inode, block_of, ByteOf, FileBytes
  <2> QED  BY <1>2, <2>1, <2>6 DEF FileSystemStrong, ReadsTheFile
<1> QED  BY <1>3, <1>4

\* A lookup delivers what LookupFinds says.
LEMMA LookupStep ==
  ASSUME NEW fname \in Seq(Typed), read_dentry_by_name(fname)
  PROVE  FileSystemStrong' /\ pc' = "idle" /\ pc = "idle" /\ result' = lookup(fname)
<1>1. /\ args'.call = "name" /\ args'.fname = fname /\ result' = lookup(fname)
      /\ pc' = "idle" /\ pc = "idle"
  BY DEF read_dentry_by_name
<1>2. LookupExact'
  BY <1>1, LookupFinds DEF LookupExact
<1> QED  BY <1>1, <1>2 DEF FileSystemStrong, ReadsTheFile

\* The invariant holds before the first call.
LEMMA FileSystemStart == FileSystemInit => FileSystemStrong
BY DEF FileSystemInit, NoArgs, FileSystemStrong, LookupExact, ReadsTheFile

\* Nothing is called.
LEMMA FileSystemSame ==
  ASSUME FileSystemStrong, UNCHANGED fsvars PROVE FileSystemStrong'
BY DEF fsvars, FileSystemStrong, LookupExact, ReadsTheFile, Copied, ByteOf, FileBytes,
       block_of, inode, NumInodes, Contents

\* The invariant is inductive.
LEMMA FileSystemStep == FileSystemStrong /\ [FileSystemNext]_fsvars => FileSystemStrong'
<1> SUFFICES ASSUME FileSystemStrong, [FileSystemNext]_fsvars PROVE FileSystemStrong'
  OBVIOUS
<1>1. CASE \E fname \in Names : read_dentry_by_name(fname)
  <2>1. Names \subseteq Seq(Typed)
    BY NameTyped, ImageType DEF Names
  <2> QED  BY <1>1, <2>1, LookupStep
<1>2. CASE \E n \in 0 .. NumInodes, offset \in 0 .. MaxOffset, length \in 0 .. MaxLength :
             read_data(n, offset, length)
  <2>1. NumInodes \in Nat /\ MaxOffset \in Nat /\ MaxLength \in Nat
    BY ImageType, FileSystemAssumption
  <2>2. /\ 0 .. NumInodes \subseteq Nat /\ 0 .. MaxOffset \subseteq Nat
        /\ 0 .. MaxLength \subseteq Nat
    BY <2>1
  <2> QED  BY <1>2, <2>2, ReadStep
<1>3. CASE copy_byte
  BY <1>3, CopyStep
<1>4. CASE read_data_done
  BY <1>4, DoneStep
<1>5. CASE UNCHANGED fsvars
  BY <1>5, FileSystemSame
<1> QED  BY <1>1, <1>2, <1>3, <1>4, <1>5 DEF FileSystemNext

\* The invariant holds during and between all calls.
LEMMA FileSystemAlways == FileSystemSpec => []FileSystemStrong
BY FileSystemStart, FileSystemStep, PTL DEF FileSystemSpec

(***************************************************************************)
(* read_dentry_by_name finds a name if and only if an entry has exactly    *)
(* that name, for names of any length, stored with or without a NUL.       *)
(***************************************************************************)
THEOREM LookupCorrect == FileSystemSpec => []LookupExact
<1>1. FileSystemStrong => LookupExact
  BY DEF FileSystemStrong
<1> QED  BY <1>1, FileSystemAlways, PTL

(***************************************************************************)
(* read_data delivers the bytes of the file from the offset on, as many as *)
(* were asked for or as there are, for files of any number of blocks.      *)
(***************************************************************************)
THEOREM ReadsCorrect == FileSystemSpec => []ReadsTheFile
<1>1. FileSystemStrong => ReadsTheFile
  BY DEF FileSystemStrong
<1> QED  BY <1>1, FileSystemAlways, PTL

-----------------------------------------------------------------------------
(* The invariant of the shell, the kernel and the programs. *)

HasType(d, type) == d \in Fds /\ fdt[d].type = type
NotDir(d)        == d \in Fds /\ fdt[d].type # DIR_TYPE
IsOpen(d)        == d \in Fds /\ fdt[d].type # -1

Descriptors == [type : -1 .. 2, inode : Int, file_pos : Int]

\* A descriptor that is open has an inode of the image, and one of a file a
\* position inside it: read_data never refuses the reads of a program.
Sound(x) ==
  x.type # -1 =>
    /\ x.inode \in 0 .. NumInodes - 1 /\ x.file_pos \in Nat
    /\ x.type = FILE_TYPE => x.file_pos <= inode(x.inode).length

TablePart ==
  /\ fdt \in [Fds -> Descriptors]
  /\ \A d \in Fds : Sound(fdt[d])
  /\ read_index \in Nat /\ fd \in Fds \cup {-1}

\* A file_read that is under way copies from where its descriptor stands.
ReadPart ==
  /\ pc \in {"idle", "copy"}
  /\ reading # -1 =>
       /\ pc = "copy" /\ HasType(reading, FILE_TYPE)
       /\ args.inode = fdt[reading].inode /\ args.offset = fdt[reading].file_pos

CallsPart == FileSystemStrong /\ TablePart /\ ReadPart

\* What was typed, and what sys_execute made of it.
LinePart ==
  /\ line \in Seq(Typed) /\ Len(line) < KEY_BUF_SIZE
  /\ f_cmd \in Seq(Letters)
  /\ cmd_args \in Seq(Typed) /\ Len(cmd_args) < CMD_LINE_LEN

\* The part of a file that sys_execute has asked for.
AskedFor(length) ==
  /\ reading = -1 /\ entry + 1 \in DOMAIN Directory
  /\ args = [call |-> "data", inode |-> Inode, offset |-> 0, length |-> length]

LoadPart ==
  /\ disk \in Disks
  /\ at = "magic" => entry + 1 \in DOMAIN Directory
  /\ at = "check_magic" => AskedFor(ELF_SIZE)
  /\ at = "load" => AskedFor(inode(Inode).length) /\ HasMagic(disk, Inode)

\* read_data is at work for these only.
CopyPlaces == {"check_magic", "load", "cat_write", "grep_got", "fish_got", "own_end"}

\* What a program finds when its sys_read returns.
Delivered(count) ==
  IF pc = "copy" THEN reading # -1 /\ args.length = count ELSE Len(got) \in 0 .. count

CatPart ==
  /\ at \in {"cat_read", "cat_write"} => IsOpen(fd)
  /\ at = "cat_write" => Delivered(CatBuf)

IsName(s) == s \in Seq(Letters) /\ Len(s) \in 0 .. MAX_STR_LENGTH

LsPart ==
  /\ at \in {"ls_read", "ls_write"} => HasType(fd, DIR_TYPE)
  /\ at = "ls_write" => IsName(got)

\* The places of grep inside a file, and those in its directory.
InFile == {"grep_read", "grep_got", "grep_line"}
InDir  == InFile \cup {"grep_next", "grep_name", "grep_open", "grep_close"}

GrepFrame == {"dir", "fname", "data", "last", "cnt", "line_start", "split"}

GrepPart ==
  /\ at \in InDir => HasType(frame.dir, DIR_TYPE)
  /\ at = "grep_name" => IsName(got)
  /\ at = "grep_open" => IsName(frame.fname) /\ frame.fname # DirName
  /\ at \in InFile \cup {"grep_close"} => IsOpen(fd) /\ NotDir(fd)
  /\ at \in InFile =>
       /\ DOMAIN frame = GrepFrame
       /\ frame.last \in 0 .. GrepBuf /\ frame.line_start \in Nat
  /\ at = "grep_got" => Delivered(GrepBuf - frame.last)

\* Where fish reads its frames.
InFrames == {"fish_read", "fish_got", "fish_pair"}

FishFrame == {"rtc", "fds", "f", "c", "eof", "row", "col"}

FishPart ==
  /\ at = "fish_open2" => \E d \in Fds : frame.fds = <<d>> /\ NotDir(d)
  /\ at \in InFrames =>
       /\ DOMAIN frame = FishFrame /\ frame.f \in 1 .. 2
       /\ \E d, e \in Fds : frame.fds = <<d, e>> /\ NotDir(d) /\ NotDir(e)

PlacePart ==
  /\ pc = "copy" => at \in CopyPlaces
  /\ CatPart /\ LsPart /\ GrepPart /\ FishPart

ProgramsStrong == CallsPart /\ LinePart /\ LoadPart /\ PlacePart /\ StoresInside

-----------------------------------------------------------------------------
(* The system calls about files. *)

\* The constants of Commands, as the proofs use them.
LEMMA SizesType ==
  /\ KEY_BUF_SIZE \in Nat \ {0} /\ FILE_STR_LEN \in Nat /\ CMD_LINE_LEN \in Nat
  /\ ShellBuf \in Nat /\ CatBuf \in Nat /\ SBUFSIZE \in Nat /\ GrepBuf \in Nat
  /\ KEY_BUF_SIZE <= ShellBuf /\ KEY_BUF_SIZE <= FILE_STR_LEN /\ KEY_BUF_SIZE <= CMD_LINE_LEN
  /\ MAX_STR_LENGTH < CatBuf /\ MAX_STR_LENGTH < SBUFSIZE /\ MAX_STR_LENGTH \in Nat
  /\ NUM_MAX_FILES \in Nat
BY CommandsAssumption, ImageType

\* The entries of the directory.
LEMMA EntryType ==
  ASSUME NEW e \in DOMAIN Directory
  PROVE  /\ Types[e] \in 0 .. 2 /\ EntryInodes[e] \in 0 .. NumInodes - 1
         /\ Types[e] = DIR_TYPE <=> Directory[e] = DirName
         /\ IsName(Directory[e])
<1>1. Types[e] \in {0, 1, 2} /\ EntryInodes[e] \in 0 .. NumInodes - 1
      /\ (Types[e] = DIR_TYPE <=> Directory[e] = DirName)
  BY CommandsAssumption DEF RTC_TYPE, DIR_TYPE, FILE_TYPE
<1>2. IsName(Directory[e])
  BY ImageType DEF IsName
<1> QED  BY <1>1, <1>2

\* A lookup gives -1 or the index of an entry of that name.
LEMMA LookupType ==
  ASSUME NEW fname \in Seq(Typed), lookup(fname) # -1
  PROVE  lookup(fname) + 1 \in DOMAIN Directory /\ Directory[lookup(fname) + 1] = fname
<1> DEFINE found == {k \in DOMAIN Directory : Matches(fname, Directory[k])}
           first == CHOOSE k \in found : \A j \in found : k <= j
<1>1. found # {} /\ lookup(fname) = first - 1
  BY DEF lookup
<1>2. found \in SUBSET Nat
  BY ImageType
<1>3. first \in found
  BY <1>1, <1>2, LeastOf
<1>4. first \in DOMAIN Directory /\ first \in Nat /\ (first - 1) + 1 = first
  BY <1>2, <1>3
<1>5. \E k \in DOMAIN Directory : Directory[k] = fname
  BY LookupFinds
<1> QED  BY <1>1, <1>4, <1>5, LookupFinds

\* The smallest of the free descriptors is one of them.
LEMMA FreeType ==
  ASSUME FreeFds # {}
  PROVE  (CHOOSE d \in FreeFds : \A e \in FreeFds : d <= e) \in FreeFds
<1>1. FreeFds \in SUBSET Nat
  BY SizesType DEF FreeFds, Fds, MIN_FD_INDEX
<1> QED  BY <1>1, LeastOf

\* Nothing about the files changes.
LEMMA CallsSame ==
  ASSUME CallsPart, UNCHANGED <<fsvars, fdt, read_index, fd, reading>>
  PROVE  CallsPart'
<1>1. FileSystemStrong'
  BY FileSystemSame DEF CallsPart
<1> QED  BY <1>1 DEF CallsPart, TablePart, ReadPart, Sound, HasType, inode, NumInodes, fsvars

(***************************************************************************)
(* sys_open takes a free descriptor for the entry with that name, and      *)
(* leaves the others alone.                                                *)
(***************************************************************************)
LEMMA OpenStep ==
  ASSUME CallsPart, NEW fname \in Seq(Typed), sys_open(fname)
  PROVE  /\ CallsPart' /\ pc = "idle" /\ pc' = "idle"
         /\ \A d \in Fds : d # fd' => fdt'[d] = fdt[d]
         /\ fd' # -1 => /\ fd' \in Fds /\ fdt[fd'] = Closed /\ fdt'[fd'].type # -1
                        /\ fdt'[fd'].type = DIR_TYPE <=> fname = DirName
<1>1. /\ FileSystemStrong' /\ pc' = "idle" /\ pc = "idle" /\ result' = lookup(fname)
      /\ read_index' = read_index /\ reading' = reading
  BY LookupStep DEF sys_open
<1>2. reading = -1 /\ read_index \in Nat /\ fdt \in [Fds -> Descriptors]
      /\ \A d \in Fds : Sound(fdt[d])
  BY <1>1 DEF CallsPart, ReadPart, TablePart
<1>3. CASE fd' = -1
  <2>1. fdt' = fdt
    BY <1>3 DEF sys_open
  <2> QED  BY <1>1, <1>2, <1>3, <2>1
           DEF CallsPart, TablePart, ReadPart, Sound, inode, NumInodes
<1>4. CASE fd' # -1
  <2> DEFINE e == result' + 1
             new == [type |-> Types[e], inode |-> EntryInodes[e], file_pos |-> 0]
  <2>1. /\ result' # -1 /\ FreeFds # {}
        /\ fd' = CHOOSE d \in FreeFds : \A g \in FreeFds : d <= g
        /\ fdt' = [fdt EXCEPT ![fd'] = new]
    BY <1>4 DEF sys_open
  <2>2. fd' \in FreeFds
    BY <2>1, FreeType
  <2>3. fd' \in Fds /\ fdt[fd'] = Closed
    BY <2>2 DEF FreeFds
  <2>4. e \in DOMAIN Directory /\ Directory[e] = fname
    BY <1>1, <2>1, LookupType
  <2> HIDE DEF e
  <2>5. Types[e] \in 0 .. 2 /\ EntryInodes[e] \in 0 .. NumInodes - 1
        /\ (Types[e] = DIR_TYPE <=> fname = DirName)
    BY <2>4, EntryType
  <2>6. NumInodes \in Nat /\ inode(EntryInodes[e]).length \in Nat
    BY <2>5, ImageType
  <2>7. new \in Descriptors /\ Sound(new)
    BY <2>5, <2>6 DEF Descriptors, Sound
  <2>8. fdt'[fd'] = new /\ fdt' \in [Fds -> Descriptors]
        /\ \A d \in Fds : d # fd' => fdt'[d] = fdt[d]
    BY <1>2, <2>1, <2>3, <2>7
  <2>9. \A d \in Fds : Sound(fdt'[d])
    BY <1>2, <2>7, <2>8
  <2>10. \A d \in Fds : Sound(fdt[d])'
    BY <2>9 DEF Sound, inode, NumInodes
  <2>11. CallsPart'
    BY <1>1, <1>2, <2>3, <2>8, <2>10 DEF CallsPart, TablePart, ReadPart
  <2> QED  BY <1>1, <2>3, <2>5, <2>8, <2>11
<1> QED  BY <1>3, <1>4

\* A position moves on inside its file, and nothing else about the table.
LEMMA AdvancedStep ==
  ASSUME TablePart, NEW d \in Fds, NEW n \in Nat,
         fdt[d].type # -1,
         fdt[d].type = FILE_TYPE => fdt[d].file_pos + n <= inode(fdt[d].inode).length,
         fdt' = advanced(d, n)
  PROVE  /\ fdt' \in [Fds -> Descriptors] /\ \A e \in Fds : Sound(fdt[e])'
         /\ \A e \in Fds : fdt'[e].type = fdt[e].type
<1> DEFINE x == fdt[d]
           new == [x EXCEPT !.file_pos = @ + n]
<1>1. /\ x \in Descriptors /\ Sound(x) /\ fdt \in [Fds -> Descriptors]
      /\ \A e \in Fds : Sound(fdt[e])
  BY DEF TablePart
<1>2. fdt' = [fdt EXCEPT ![d] = new]
  BY DEF advanced
<1>3. /\ x.type \in -1 .. 2 /\ x.inode \in Int /\ x.file_pos \in Int
      /\ x = [type |-> x.type, inode |-> x.inode, file_pos |-> x.file_pos]
  BY <1>1 DEF Descriptors
<1>4. new = [type |-> x.type, inode |-> x.inode, file_pos |-> x.file_pos + n]
  BY <1>3
<1>5. x.inode \in 0 .. NumInodes - 1 /\ x.file_pos \in Nat /\ x.file_pos + n \in Nat
  BY <1>1 DEF Sound
<1> HIDE DEF new
<1>6. new \in Descriptors /\ new.type = x.type /\ Sound(new)
  BY <1>3, <1>4, <1>5 DEF Descriptors, Sound
<1>7. fdt'[d] = new /\ fdt' \in [Fds -> Descriptors]
      /\ \A e \in Fds : e # d => fdt'[e] = fdt[e]
  BY <1>1, <1>2, <1>6
<1>8. \A e \in Fds : Sound(fdt'[e])
  BY <1>1, <1>6, <1>7
<1>9. \A e \in Fds : Sound(fdt[e])'
  BY <1>8 DEF Sound, inode, NumInodes
<1> QED  BY <1>6, <1>7, <1>9

(***************************************************************************)
(* sys_read of a directory delivers a name at once and may store into the  *)
(* buffer; of the RTC nothing; and of a file it starts to copy.  No        *)
(* descriptor changes its type.                                            *)
(***************************************************************************)
LEMMA ReadCall ==
  ASSUME CallsPart, NEW d \in Fds, NEW array, NEW count \in Nat,
         sys_read(d, array, count)
  PROVE  /\ CallsPart' /\ pc = "idle" /\ fd' = fd /\ IsOpen(d)
         /\ \A e \in Fds : fdt'[e].type = fdt[e].type
         /\ fdt[d].type = DIR_TYPE =>
              pc' = "idle" /\ IsName(got') /\ stored' \subseteq {<<array, MAX_STR_LENGTH>>}
         /\ fdt[d].type # DIR_TYPE => stored' = {} /\ Delivered(count)'
<1>0. pc = "idle" /\ fd' = fd /\ reading = -1
  BY DEF sys_read, CallsPart, ReadPart
<1>1. CASE fdt[d].type = RTC_TYPE /\ rtc_read
  <2>1. UNCHANGED <<fsvars, fdt, read_index, fd, reading>> /\ got' = << >> /\ stored' = {}
    BY <1>0, <1>1 DEF rtc_read, StoresNothing
  <2>2. pc' = "idle" /\ Len(got') \in 0 .. count
    BY <1>0, <2>1 DEF fsvars
  <2> QED  BY <1>0, <1>1, <2>1, <2>2, CallsSame
           DEF RTC_TYPE, DIR_TYPE, Delivered, IsOpen
<1>2. CASE fdt[d].type = DIR_TYPE /\ dir_read(d, array)
  <2>1. /\ reading' = reading /\ UNCHANGED fsvars /\ fdt' = advanced(d, Len(got'))
    BY <1>2 DEF dir_read
  <2>2. read_index \in Nat /\ TablePart /\ FileSystemStrong
    BY DEF CallsPart, TablePart
  <2>3. IsName(got') /\ read_index' \in Nat /\ stored' \subseteq {<<array, MAX_STR_LENGTH>>}
    <3>1. CASE read_index < Len(Directory)
      <4>1. read_index + 1 \in DOMAIN Directory
        BY <2>2, <3>1, ImageType
      <4>2. got' = Directory[read_index + 1] /\ read_index' = read_index + 1
            /\ stored' = {<<array, MAX_STR_LENGTH>>}
        BY <1>2, <3>1 DEF dir_read, Stores
      <4> QED  BY <2>2, <4>1, <4>2, EntryType
    <3>2. CASE ~ (read_index < Len(Directory))
      <4>1. got' = << >> /\ read_index' = read_index /\ stored' = {}
        BY <1>2, <3>2 DEF dir_read, StoresNothing
      <4> QED  BY <2>2, <4>1, ImageType DEF IsName
    <3> QED  BY <3>1, <3>2
  <2>4. Len(got') \in Nat
    BY <2>3 DEF IsName
  <2>5. fdt[d].type # -1 /\ fdt[d].type # FILE_TYPE
    BY <1>2 DEF DIR_TYPE, FILE_TYPE
  <2>6. /\ fdt' \in [Fds -> Descriptors] /\ \A e \in Fds : Sound(fdt[e])'
        /\ \A e \in Fds : fdt'[e].type = fdt[e].type
    BY <2>1, <2>2, <2>4, <2>5, AdvancedStep
  <2>7. TablePart'
    BY <1>0, <2>3, <2>6 DEF TablePart, CallsPart
  <2>8. FileSystemStrong' /\ pc' = "idle"
    BY <1>0, <2>1, <2>2, FileSystemSame DEF fsvars
  <2>9. ReadPart'
    BY <1>0, <2>1, <2>8 DEF ReadPart
  <2> QED  BY <1>0, <1>2, <2>3, <2>5, <2>6, <2>7, <2>8, <2>9 DEF CallsPart, IsOpen
<1>3. CASE fdt[d].type = FILE_TYPE /\ file_read(d, count)
  <2> DEFINE x == fdt[d]
  <2>1. /\ read_data(x.inode, x.file_pos, count) /\ reading' = d /\ stored' = {}
        /\ UNCHANGED <<fdt, read_index, got>>
    BY <1>3 DEF file_read, StoresNothing
  <2>2. /\ x.type # -1 /\ x.type # DIR_TYPE /\ x.inode \in 0 .. NumInodes - 1
        /\ x.file_pos \in Nat /\ x.file_pos <= inode(x.inode).length
    BY <1>3 DEF CallsPart, TablePart, Sound, FILE_TYPE, DIR_TYPE
  <2> HIDE DEF x
  <2>3. NumInodes \in Nat /\ inode(x.inode).length \in Nat /\ x.inode \in Nat
    BY <2>2, ImageType
  <2>4. ~ refused(x.inode, x.file_pos)
    BY <2>2, <2>3 DEF refused
  <2>5. FileSystemStrong'
    BY <2>1, <2>2, <2>3, ReadStep
  <2>6. /\ pc' = "copy" /\ args'.length = count
        /\ args'.inode = x.inode /\ args'.offset = x.file_pos
    BY <2>1, <2>4 DEF read_data
  <2>7. TablePart'
    BY <1>0, <2>1 DEF CallsPart, TablePart, Sound, inode, NumInodes
  <2>8. d # -1
    BY SizesType DEF Fds, MIN_FD_INDEX
  <2>9. ReadPart'
    BY <1>3, <2>1, <2>6 DEF ReadPart, HasType, x
  <2> QED  BY <1>0, <2>1, <2>2, <2>5, <2>6, <2>7, <2>8, <2>9
           DEF CallsPart, Delivered, IsOpen, x
<1> QED  BY <1>1, <1>2, <1>3 DEF sys_read

\* read_data at work.
LEMMA CopyingStep ==
  ASSUME CallsPart, copying
  PROVE  /\ CallsPart' /\ pc = "copy" /\ pc' = "copy" /\ args' = args
         /\ stored' = {} /\ UNCHANGED <<session, files, at, rval, out>>
<1>1. /\ copy_byte /\ stored' = {} /\ UNCHANGED <<session, files, at, rval, out>>
      /\ pc = "copy" /\ pc' = "copy" /\ args' = args
  BY DEF copying, copy_byte, StoresNothing
<1>2. FileSystemStrong'
  BY <1>1, CopyStep DEF CallsPart
<1>3. TablePart'
  BY <1>1 DEF CallsPart, TablePart, Sound, inode, NumInodes, files
<1>4. ReadPart'
  BY <1>1 DEF CallsPart, ReadPart, HasType, files
<1> QED  BY <1>1, <1>2, <1>3, <1>4 DEF CallsPart

\* A conversion of bytes to characters is as long as the bytes.
LEMMA CharsAre ==
  ASSUME NEW S, NEW bytes \in Seq(S)
  PROVE  /\ Chars(bytes) \in Seq({disk[b] : b \in S}) /\ Len(Chars(bytes)) = Len(bytes)
         /\ \A k \in 1 .. Len(bytes) : Chars(bytes)[k] = disk[bytes[k]]
<1>1. Len(bytes) \in Nat /\ DOMAIN bytes = 1 .. Len(bytes)
      /\ \A k \in 1 .. Len(bytes) : bytes[k] \in S
  OBVIOUS
<1>2. Chars(bytes) = [k \in 1 .. Len(bytes) |-> disk[bytes[k]]]
  BY <1>1 DEF Chars
<1>3. \A k \in 1 .. Len(bytes) : disk[bytes[k]] \in {disk[b] : b \in S}
  BY <1>1
<1>4. Chars(bytes) \in Seq({disk[b] : b \in S})
  BY <1>1, <1>2, <1>3, IsASeq
<1>5. DOMAIN Chars(bytes) = 1 .. Len(bytes)
  BY <1>2
<1>6. Len(Chars(bytes)) = Len(bytes)
  BY <1>1, <1>4, <1>5, LenProperties
<1> QED  BY <1>2, <1>4, <1>6

(***************************************************************************)
(* read_data returns, and with it the sys_read it was called for: with no  *)
(* more than was asked for, and the position inside the file.              *)
(***************************************************************************)
LEMMA CopiedStep ==
  ASSUME CallsPart, copied
  PROVE  /\ CallsPart' /\ pc = "copy" /\ pc' = "idle" /\ args' = args
         /\ stored' = {} /\ fd' = fd /\ UNCHANGED <<session, at, rval, out>>
         /\ \A e \in Fds : fdt'[e].type = fdt[e].type
         /\ reading = -1 => UNCHANGED files
         /\ reading # -1 => Len(got') \in 0 .. args.length /\ args.length \in Nat
         /\ reading' = -1
<1>1. /\ read_data_done /\ stored' = {} /\ UNCHANGED <<session, at, rval, out>>
      /\ pc = "copy" /\ pc' = "idle" /\ args' = args /\ UNCHANGED <<i, buf>>
  BY DEF copied, read_data_done, StoresNothing
<1>2. FileSystemStrong' /\ Copied
  BY <1>1, DoneStep DEF CallsPart, FileSystemStrong
<1>3. CASE reading = -1
  <2>1. UNCHANGED files
    BY <1>3 DEF copied
  <2>2. TablePart'
    BY <2>1 DEF CallsPart, TablePart, Sound, inode, NumInodes, files
  <2>3. ReadPart'
    BY <1>1, <1>3, <2>1 DEF ReadPart, files
  <2> QED  BY <1>1, <1>2, <1>3, <2>1, <2>2, <2>3 DEF CallsPart, files
<1>4. CASE reading # -1
  <2> DEFINE x == fdt[reading]
  <2>1. /\ got' = Chars(buf) /\ fdt' = advanced(reading, i) /\ reading' = -1
        /\ read_index' = read_index /\ fd' = fd
    BY <1>4 DEF copied
  <2>2. /\ reading \in Fds /\ x.type = FILE_TYPE /\ args.inode = x.inode
        /\ args.offset = x.file_pos /\ TablePart
    BY <1>4 DEF CallsPart, ReadPart, HasType
  <2>3. /\ i \in 0 .. args.length /\ args.length \in Nat
        /\ i + args.offset <= inode(args.inode).length /\ args.offset \in 0 .. inode(args.inode).length
        /\ args.inode \in 0 .. NumInodes - 1
        /\ buf \in Seq(FileBytes(args.inode)) /\ Len(buf) = i
    BY <1>2 DEF Copied
  <2>4. inode(args.inode).length \in Nat
    BY <2>3, ImageType
  <2> HIDE DEF x
  <2>5. i \in Nat /\ x.file_pos + i <= inode(x.inode).length /\ x.type # -1
    BY <2>2, <2>3, <2>4 DEF FILE_TYPE
  <2>6. /\ fdt' \in [Fds -> Descriptors] /\ \A e \in Fds : Sound(fdt[e])'
        /\ \A e \in Fds : fdt'[e].type = fdt[e].type
    BY <2>1, <2>2, <2>5, AdvancedStep DEF x
  <2>7. TablePart'
    BY <2>1, <2>2, <2>6 DEF TablePart
  <2>8. ReadPart'
    BY <1>1, <2>1 DEF ReadPart
  <2>9. Len(got') = i
    BY <2>1, <2>3, CharsAre
  <2> QED  BY <1>1, <1>2, <1>4, <2>1, <2>3, <2>6, <2>7, <2>8, <2>9 DEF CallsPart
<1> QED  BY <1>3, <1>4

\* Descriptors are closed; the rest of the table stays.
LEMMA CloseStep ==
  ASSUME CallsPart, pc = "idle", UNCHANGED <<fsvars, reading>>,
         fd' \in Fds \cup {-1}, read_index' \in Nat,
         NEW closed, fdt' = [d \in Fds |-> IF d \in closed THEN Closed ELSE fdt[d]]
  PROVE  CallsPart'
<1>1. Closed \in Descriptors /\ Closed.type = -1
  BY DEF Closed, Descriptors
<1>2. fdt' \in [Fds -> Descriptors]
  BY <1>1 DEF CallsPart, TablePart
<1>3. \A d \in Fds : Sound(fdt'[d])
  BY <1>1 DEF CallsPart, TablePart, Sound
<1>4. \A d \in Fds : Sound(fdt[d])'
  BY <1>3 DEF Sound, inode, NumInodes
<1>5. FileSystemStrong'
  BY FileSystemSame DEF CallsPart
<1>6. ReadPart'
  BY DEF CallsPart, ReadPart, fsvars
<1> QED  BY <1>2, <1>4, <1>5, <1>6 DEF CallsPart, TablePart

-----------------------------------------------------------------------------
(* sys_execute. *)

\* A run ends at the first character outside the set, or with the string.
LEMMA RunIs ==
  ASSUME NEW S, NEW s \in Seq(S), NEW f \in 0 .. Len(s), NEW set
  PROVE  LET n == Run(s, f, set) IN
         /\ n \in 0 .. Len(s) - f
         /\ n = Len(s) - f \/ s[f + n + 1] \notin set
         /\ \A m \in 0 .. n - 1 : s[f + m + 1] \in set
<1> DEFINE ends == {n \in 0 .. Len(s) - f : n = Len(s) - f \/ s[f + n + 1] \notin set}
           least == CHOOSE n \in ends : \A m \in ends : n <= m
<1>1. Len(s) \in Nat /\ Len(s) - f \in Nat /\ f \in Nat
  OBVIOUS
<1>2. Len(s) - f \in ends /\ ends \in SUBSET Nat
  BY <1>1
<1>3. least \in ends /\ \A m \in ends : least <= m
  BY <1>2, LeastOf
<1>4. Run(s, f, set) = least
  BY DEF Run
<1> HIDE DEF least
<1>5. ASSUME NEW m \in 0 .. least - 1 PROVE s[f + m + 1] \in set
  <2>1. m \in 0 .. Len(s) - f /\ m \notin ends /\ m # Len(s) - f
    BY <1>1, <1>3
  <2> QED  BY <2>1
<1> QED  BY <1>3, <1>4, <1>5

\* Name and arguments are taken from the line, and fit their arrays.
LEMMA ParsedType ==
  ASSUME LinePart
  PROVE  LET p == parsed(line) IN
         /\ p.name \in Seq(Letters) /\ Len(p.name) \in 0 .. FILE_STR_LEN
         /\ p.args \in Seq(Typed) /\ Len(p.args) \in 0 .. CMD_LINE_LEN - 1
<1> DEFINE f == Run(line, 0, {SPACE})
           r == Run(line, f, NameChars(line))
           n == Shorter(r, FILE_STR_LEN)
           a == f + n + 1
           z == Shorter(a + CMD_LINE_LEN, Len(line))
<1>1. line \in Seq(Typed) /\ Len(line) \in Nat /\ Len(line) < KEY_BUF_SIZE
      /\ \A k \in 1 .. Len(line) : line[k] \in Typed
  BY DEF LinePart
<1>2. f \in 0 .. Len(line)
  BY <1>1, RunIs
<1> HIDE DEF f
<1>3. r \in 0 .. Len(line) - f /\ \A m \in 0 .. r - 1 : line[f + m + 1] \in NameChars(line)
  BY <1>1, <1>2, RunIs
<1> HIDE DEF r
<1>4. n \in Nat /\ n <= r /\ n <= FILE_STR_LEN
  BY <1>3, SizesType DEF Shorter
<1> HIDE DEF n
<1>5. /\ z \in Nat /\ z <= Len(line) /\ a \in Nat /\ a >= 1
      /\ f \in Nat /\ r \in Nat /\ f + n <= Len(line) /\ f + 1 \in Int /\ f + n \in Int
  BY <1>1, <1>2, <1>3, <1>4, SizesType DEF Shorter
<1> HIDE DEF a, z
<1>6. /\ parsed(line).name = SubSeq(line, f + 1, f + n)
      /\ parsed(line).args = SubSeq(line, a + 1, z)
  BY DEF parsed, f, r, n, a, z
<1>7. \A k \in f + 1 .. f + n : line[k] \in Letters
  <2> SUFFICES ASSUME NEW k \in f + 1 .. f + n PROVE line[k] \in Letters
    OBVIOUS
  <2>1. k - f - 1 \in 0 .. r - 1 /\ f + (k - f - 1) + 1 = k /\ k \in 1 .. Len(line)
    BY <1>1, <1>4, <1>5
  <2>2. line[k] \in NameChars(line) /\ line[k] \in Typed
    BY <1>1, <1>3, <2>1
  <2> QED  BY <2>2 DEF NameChars, Typed
<1>8. \A k \in a + 1 .. z : line[k] \in Typed
  BY <1>1, <1>5
<1>9. parsed(line).name \in Seq(Letters) /\ Len(parsed(line).name) = n
  <2>1. /\ SubSeq(line, f + 1, f + n) \in Seq(Letters)
        /\ Len(SubSeq(line, f + 1, f + n))
             = IF f + 1 <= f + n THEN (f + n) - (f + 1) + 1 ELSE 0
    BY <1>5, <1>7, SubSeqProperties
  <2>2. (IF f + 1 <= f + n THEN (f + n) - (f + 1) + 1 ELSE 0) = n
    BY <1>4, <1>5
  <2> QED  BY <1>6, <2>1, <2>2
<1>10. parsed(line).args \in Seq(Typed) /\ Len(parsed(line).args) \in 0 .. CMD_LINE_LEN - 1
  <2>0. a + 1 \in Int /\ z \in Int
    BY <1>5
  <2>1. /\ SubSeq(line, a + 1, z) \in Seq(Typed)
        /\ Len(SubSeq(line, a + 1, z)) = IF a + 1 <= z THEN z - (a + 1) + 1 ELSE 0
    BY <2>0, <1>8, SubSeqProperties
  <2>2. (IF a + 1 <= z THEN z - (a + 1) + 1 ELSE 0) \in 0 .. CMD_LINE_LEN - 1
    BY <1>1, <1>5, SizesType
  <2> QED  BY <1>6, <2>1, <2>2
<1> QED  BY <1>4, <1>9, <1>10, SizesType

\* What read_data delivered when it was asked for the start of a file.
LEMMA StartOfFile ==
  ASSUME CallsPart, pc = "idle", NEW n \in 0 .. NumInodes - 1, NEW length \in Nat,
         args = [call |-> "data", inode |-> n, offset |-> 0, length |-> length]
  PROVE  /\ result \in Nat /\ result <= length /\ result <= inode(n).length
         /\ length <= inode(n).length => result = length
         /\ Len(Chars(buf)) = result
         /\ \A k \in 1 .. result : Chars(buf)[k] = disk[Contents(n)[k]]
<1>1. /\ NumInodes \in Nat /\ inode(n).length \in Nat
  BY ImageType
<1>2. /\ Contents(n) \in Seq(FileBytes(n)) /\ Len(Contents(n)) = inode(n).length
  BY ContentsAre
<1>3. /\ result = IF length < inode(n).length - 0 THEN length ELSE inode(n).length - 0
      /\ buf = SubSeq(Contents(n), 0 + 1, 0 + result)
  BY <1>1 DEF CallsPart, FileSystemStrong, ReadsTheFile
<1>4. /\ result \in Nat /\ result <= length /\ result <= inode(n).length
      /\ length <= inode(n).length => result = length
  BY <1>1, <1>3
<1>5. /\ buf \in Seq(FileBytes(n)) /\ Len(buf) = result
      /\ \A k \in 1 .. result : buf[k] = Contents(n)[k]
  <2> DEFINE s == SubSeq(Contents(n), 1, result)
  <2>1. \A k \in 1 .. result : Contents(n)[k] \in FileBytes(n)
    BY <1>1, <1>2, <1>4, ElementOfSeq
  <2>2. /\ s \in Seq(FileBytes(n))
        /\ Len(s) = IF 1 <= result THEN result - 1 + 1 ELSE 0
        /\ \A k \in 1 .. result - 1 + 1 : s[k] = Contents(n)[1 + k - 1]
    BY <1>4, <2>1, SubSeqProperties
  <2>3. 0 + 1 = 1 /\ 0 + result = result /\ result - 1 + 1 = result
        /\ (IF 1 <= result THEN result - 1 + 1 ELSE 0) = result
        /\ \A k \in 1 .. result : 1 + k - 1 = k
    BY <1>4
  <2>4. buf = s
    BY <1>3, <2>3
  <2> HIDE DEF s
  <2> QED  BY <2>2, <2>3, <2>4
<1>6. Len(Chars(buf)) = result /\ \A k \in 1 .. result : Chars(buf)[k] = disk[buf[k]]
  BY <1>5, CharsAre
<1> QED  BY <1>4, <1>5, <1>6

-----------------------------------------------------------------------------
(* Every step keeps the invariant. *)

\* The part of a program is about its own places only.
LEMMA Elsewhere ==
  /\ at' \notin {"cat_read", "cat_write"} => CatPart'
  /\ at' \notin {"ls_read", "ls_write"} => LsPart'
  /\ at' \notin InDir => GrepPart'
  /\ at' \notin InFrames \cup {"fish_open2"} => FishPart'
<1>1. at' \notin {"cat_read", "cat_write"} => CatPart'
  BY DEF CatPart
<1>2. at' \notin {"ls_read", "ls_write"} => LsPart'
  BY DEF LsPart
<1>3. at' \notin InDir => GrepPart'
  BY DEF GrepPart, InDir, InFile
<1>4. at' \notin InFrames \cup {"fish_open2"} => FishPart'
  BY DEF FishPart
<1> QED  BY <1>1, <1>2, <1>3, <1>4

\* The places of the shell and of sys_execute, and where programs start.
Outside ==
  {"prompt", "parse", "find", "magic", "check_magic", "load", "halt", "report"} \cup Codes

\* There, what the programs know of their places says nothing.
LEMMA OutsidePlaces ==
  ASSUME at' \in Outside, pc' = "copy" => at' \in CopyPlaces
  PROVE  PlacePart'
<1>1. /\ at' \notin {"cat_read", "cat_write"} /\ at' \notin {"ls_read", "ls_write"}
      /\ at' \notin InDir /\ at' \notin InFrames \cup {"fish_open2"}
  BY DEF Outside, Codes, CAT, LS, GREP, COUNTER, SIGTEST, OWN, FISH, InDir, InFile, InFrames
<1> QED  BY <1>1, Elsewhere DEF PlacePart

\* A program does not touch the line, nor what sys_execute found.
LEMMA SessionSame ==
  ASSUME LinePart, LoadPart, UNCHANGED session,
         at' \notin {"magic", "check_magic", "load"}
  PROVE  LinePart' /\ LoadPart'
BY DEF LinePart, LoadPart, session

\* Nothing is stored, or something inside its array.
LEMMA StoresInsideIs ==
  ASSUME NEW array, NEW index, index < Size[array]
  PROVE  stored' \subseteq {<<array, index>>} => StoresInside'
BY DEF StoresInside, Size

\* The shell takes a line that fits its buffer.
LEMMA ReadLineStep ==
  ASSUME ProgramsStrong, read_line PROVE ProgramsStrong'
<1>1. PICK s \in Lines :
        IF s = << >> \/ s = EXIT THEN UNCHANGED <<at, line, stored>>
        ELSE at' = "parse" /\ line' = s /\ Stores("shell_buf", Len(s))
  BY DEF read_line
<1>2. /\ at = "prompt" /\ UNCHANGED <<disk, f_cmd, cmd_args, entry, files, fsvars, rval, out>>
  BY DEF read_line
<1>3. s \in Seq(Typed) /\ Len(s) \in Nat /\ Len(s) < KEY_BUF_SIZE
  <2>1. PICK n \in 0 .. KEY_BUF_SIZE - 1 : s \in [1 .. n -> Typed]
    BY DEF Lines, Typed
  <2> QED  BY <2>1, SizesType
<1>4. CallsPart'
  BY <1>2, CallsSame DEF ProgramsStrong, files
<1>5. pc' # "copy"
  BY <1>2 DEF ProgramsStrong, PlacePart, CopyPlaces, fsvars
<1>6. at' \in {"prompt", "parse"} /\ (line' = line \/ line' = s)
      /\ (stored' = stored \/ stored' = {<<"shell_buf", Len(s)>>})
  BY <1>1, <1>2 DEF Stores
<1>7. PlacePart'
  BY <1>5, <1>6, OutsidePlaces DEF Outside
<1>8. LinePart' /\ LoadPart'
  BY <1>2, <1>3, <1>6 DEF ProgramsStrong, LinePart, LoadPart
<1>9. Len(s) < Size["shell_buf"]
  BY <1>3, SizesType DEF Size
<1>10. StoresInside'
  <2>1. CASE stored' = stored
    BY <2>1 DEF ProgramsStrong, StoresInside, Size
  <2>2. CASE stored' = {<<"shell_buf", Len(s)>>}
    BY <2>2, <1>9, StoresInsideIs
  <2> QED  BY <1>6, <2>1, <2>2
<1> QED  BY <1>4, <1>7, <1>8, <1>10 DEF ProgramsStrong

\* sys_execute stores name and arguments inside their arrays.
LEMMA ParseStep ==
  ASSUME ProgramsStrong, parse_command PROVE ProgramsStrong'
<1> DEFINE p == parsed(line)
<1>1. /\ at = "parse" /\ at' = "find" /\ f_cmd' = p.name /\ cmd_args' = p.args
      /\ stored' = {<<"f_cmd", Len(p.name)>>, <<"cmd_args", Len(p.args)>>}
      /\ UNCHANGED <<disk, line, entry, files, fsvars, rval, out>>
  BY DEF parse_command
<1>2. /\ p.name \in Seq(Letters) /\ Len(p.name) \in 0 .. FILE_STR_LEN
      /\ p.args \in Seq(Typed) /\ Len(p.args) \in 0 .. CMD_LINE_LEN - 1
  BY ParsedType DEF ProgramsStrong
<1> HIDE DEF p
<1>3. CallsPart'
  BY <1>1, CallsSame DEF ProgramsStrong, files
<1>4. pc' # "copy"
  BY <1>1 DEF ProgramsStrong, PlacePart, CopyPlaces, fsvars
<1>5. PlacePart'
  BY <1>1, <1>4, OutsidePlaces DEF Outside
<1>6. LinePart' /\ LoadPart'
  BY <1>1, <1>2, SizesType DEF ProgramsStrong, LinePart, LoadPart
<1>7. Len(p.name) < FILE_STR_LEN + 1 /\ Len(p.args) < CMD_LINE_LEN
  BY <1>2, SizesType
<1>8. StoresInside'
  BY <1>1, <1>7 DEF StoresInside, Size
<1> QED  BY <1>3, <1>5, <1>6, <1>8 DEF ProgramsStrong

\* The name is looked up.
LEMMA FindStep ==
  ASSUME ProgramsStrong, find_command PROVE ProgramsStrong'
<1>1. /\ read_dentry_by_name(f_cmd) /\ entry' = result' /\ at' \in {"report", "magic"}
      /\ (at' = "magic" => result' # -1) /\ stored' = {}
      /\ UNCHANGED <<disk, line, f_cmd, cmd_args, files, out>>
  BY DEF find_command, execute_returns, StoresNothing
<1>2. f_cmd \in Seq(Typed)
  BY NameTyped DEF ProgramsStrong, LinePart
<1>3. FileSystemStrong' /\ pc' = "idle" /\ pc = "idle" /\ result' = lookup(f_cmd)
  BY <1>1, <1>2, LookupStep
<1>4. CallsPart'
  BY <1>1, <1>3 DEF ProgramsStrong, CallsPart, TablePart, ReadPart, Sound, inode, NumInodes, files
<1>5. PlacePart'
  BY <1>1, <1>3, OutsidePlaces DEF Outside
<1>6. at' = "magic" => entry' + 1 \in DOMAIN Directory
  BY <1>1, <1>2, <1>3, LookupType
<1>7. LinePart' /\ LoadPart'
  BY <1>1, <1>6 DEF ProgramsStrong, LinePart, LoadPart
<1>8. StoresInside'
  BY <1>1 DEF StoresInside
<1> QED  BY <1>4, <1>5, <1>7, <1>8 DEF ProgramsStrong

\* read_data is called by sys_execute.
LEMMA LoadCall ==
  ASSUME CallsPart, NEW n \in 0 .. NumInodes - 1, NEW length \in Nat,
         read_data(n, 0, length), UNCHANGED files
  PROVE  /\ CallsPart' /\ reading' = -1 /\ reading = -1
         /\ args' = [call |-> "data", inode |-> n, offset |-> 0, length |-> length]
<1>1. NumInodes \in Nat
  BY ImageType
<1>2. n \in Nat /\ 0 \in Nat
  BY <1>1
<1>3. FileSystemStrong'
  BY <1>2, ReadStep
<1>4. /\ args' = [call |-> "data", inode |-> n, offset |-> 0, length |-> length]
      /\ pc' \in {"idle", "copy"} /\ pc = "idle"
  BY DEF read_data
<1>5. reading = -1 /\ reading' = -1
  BY <1>4 DEF CallsPart, ReadPart, files
<1> QED  BY <1>3, <1>4, <1>5
         DEF CallsPart, TablePart, ReadPart, Sound, inode, NumInodes, files

\* The start of the file is read.
LEMMA MagicStep ==
  ASSUME ProgramsStrong, read_magic PROVE ProgramsStrong'
<1>1. /\ at = "magic" /\ at' = "check_magic" /\ read_data(Inode, 0, ELF_SIZE) /\ stored' = {}
      /\ UNCHANGED <<session, files, rval, out>>
  BY DEF read_magic, StoresNothing
<1>2. entry + 1 \in DOMAIN Directory /\ CallsPart
  BY <1>1 DEF ProgramsStrong, LoadPart
<1>3. Inode \in 0 .. NumInodes - 1 /\ ELF_SIZE \in Nat
  BY <1>2, EntryType, CommandsAssumption DEF Inode, ELF_SIZE
<1>4. /\ CallsPart' /\ reading' = -1
      /\ args' = [call |-> "data", inode |-> Inode, offset |-> 0, length |-> ELF_SIZE]
  BY <1>1, <1>2, <1>3, LoadCall
<1>5. PlacePart'
  BY <1>1, OutsidePlaces DEF Outside, CopyPlaces
<1>6. entry' = entry /\ disk' = disk
  BY <1>1 DEF session
<1>7. AskedFor(ELF_SIZE)'
  BY <1>2, <1>4, <1>6 DEF AskedFor, Inode, ELF_SIZE
<1>8. LinePart' /\ LoadPart'
  BY <1>1, <1>7 DEF ProgramsStrong, LinePart, LoadPart, session
<1>9. StoresInside'
  BY <1>1 DEF StoresInside
<1> QED  BY <1>4, <1>5, <1>8, <1>9 DEF ProgramsStrong

\* IsExecutable asks whether the file starts with the magic characters.
LEMMA MagicIs ==
  ASSUME ProgramsStrong, at = "check_magic", pc = "idle"
  PROVE  IsExecutable <=> HasMagic(disk, Inode)
<1>1. AskedFor(ELF_SIZE) /\ CallsPart
  BY DEF ProgramsStrong, LoadPart
<1>2. Inode \in 0 .. NumInodes - 1 /\ ELF_SIZE \in Nat /\ ELF \in Seq(STRING)
  BY <1>1, EntryType, CommandsAssumption DEF AskedFor, Inode, ELF_SIZE
<1>3. /\ result \in Nat /\ result <= ELF_SIZE /\ result <= inode(Inode).length
      /\ ELF_SIZE <= inode(Inode).length => result = ELF_SIZE
      /\ Len(Chars(buf)) = result
      /\ \A k \in 1 .. result : Chars(buf)[k] = disk[Contents(Inode)[k]]
  BY <1>1, <1>2, StartOfFile DEF AskedFor
<1>4. inode(Inode).length \in Nat
  BY <1>2, ImageType
<1>5. HasMagic(disk, Inode) => IsExecutable
  <2> SUFFICES ASSUME HasMagic(disk, Inode) PROVE IsExecutable
    OBVIOUS
  <2>1. result = ELF_SIZE /\ \A k \in 1 .. ELF_SIZE : Chars(buf)[k] = ELF[k]
    BY <1>3 DEF HasMagic
  <2>2. \E S : buf \in Seq(S)
    <3>1. result # -1
      BY <1>3
    <3>2. buf = SubSeq(Contents(Inode), 1, result)
      BY <1>1, <1>2, <1>3, <1>4, <3>1, ImageType
      DEF CallsPart, FileSystemStrong, ReadsTheFile, AskedFor
    <3>3. Contents(Inode) \in Seq(FileBytes(Inode)) /\ Len(Contents(Inode)) = inode(Inode).length
      BY <1>2, ContentsAre
    <3>4. \A k \in 1 .. result : Contents(Inode)[k] \in FileBytes(Inode)
      BY <1>3, <1>4, <3>3, ElementOfSeq
    <3>5. buf \in Seq(FileBytes(Inode))
      BY <1>3, <3>2, <3>4, SubSeqProperties
    <3> QED  BY <3>5
  <2>3. \E S : Chars(buf) \in Seq(S)
    BY <2>2, CharsAre
  <2>4. Chars(buf) = ELF
    BY <1>2, <1>3, <2>1, <2>3, SeqEqual DEF ELF_SIZE
  <2> QED  BY <2>1, <2>4 DEF IsExecutable
<1>6. IsExecutable => HasMagic(disk, Inode)
  BY <1>3 DEF IsExecutable, HasMagic, ELF_SIZE
<1> QED  BY <1>5, <1>6

\* The whole file is read, or sys_execute gives up.
LEMMA CheckMagicStep ==
  ASSUME ProgramsStrong, check_magic PROVE ProgramsStrong'
<1>1. /\ at = "check_magic" /\ pc = "idle" /\ stored' = {} /\ UNCHANGED <<session, files, out>>
  BY DEF check_magic, StoresNothing
<1>2. AskedFor(ELF_SIZE) /\ CallsPart /\ LinePart /\ LoadPart
  BY <1>1 DEF ProgramsStrong, LoadPart
<1>3. Inode \in 0 .. NumInodes - 1 /\ entry + 1 \in DOMAIN Directory
  BY <1>2, EntryType DEF AskedFor, Inode
<1>4. entry' = entry /\ disk' = disk
  BY <1>1 DEF session
<1>5. StoresInside'
  BY <1>1 DEF StoresInside
<1>6. CASE IsExecutable /\ read_data(Inode, 0, inode(Inode).length) /\ at' = "load"
  <2>1. inode(Inode).length \in Nat
    BY <1>3, ImageType
  <2>2. /\ CallsPart' /\ reading' = -1
        /\ args' = [call |-> "data", inode |-> Inode, offset |-> 0, length |-> inode(Inode).length]
    BY <1>1, <1>2, <1>3, <1>6, <2>1, LoadCall
  <2>3. HasMagic(disk, Inode)
    BY <1>1, <1>6, MagicIs
  <2>4. HasMagic(disk, Inode)'
    BY <1>4, <2>3 DEF HasMagic, Inode, inode, ELF_SIZE, Contents
  <2>5. AskedFor(inode(Inode).length)'
    BY <1>3, <1>4, <2>2 DEF AskedFor, Inode, inode
  <2>6. PlacePart'
    BY <1>6, OutsidePlaces DEF Outside, CopyPlaces
  <2>7. LinePart' /\ LoadPart'
    BY <1>1, <1>2, <1>4, <1>6, <2>4, <2>5 DEF LinePart, LoadPart, session
  <2> QED  BY <1>5, <2>2, <2>6, <2>7 DEF ProgramsStrong
<1>7. CASE at' = "report" /\ UNCHANGED fsvars
  <2>1. CallsPart'
    BY <1>1, <1>2, <1>7, CallsSame DEF files
  <2>2. PlacePart'
    BY <1>1, <1>7, OutsidePlaces DEF Outside, fsvars
  <2>3. LinePart' /\ LoadPart'
    BY <1>1, <1>2, <1>7, SessionSame
  <2> QED  BY <1>5, <2>1, <2>2, <2>3 DEF ProgramsStrong
<1> QED  BY <1>6, <1>7 DEF check_magic, execute_returns

\* Closing files leaves a place to read the directory from.
LEMMA IndexType ==
  ASSUME CallsPart, NEW closed PROVE dir_close(closed) \in Nat
BY DEF CallsPart, TablePart, dir_close

\* What is loaded is one of the programs.
LEMMA StartsAProgram ==
  ASSUME ProgramsStrong, start_program PROVE at' \in Codes
<1>1. at = "load" /\ pc = "idle" /\ at' = Code
  BY DEF start_program
<1>2. AskedFor(inode(Inode).length) /\ HasMagic(disk, Inode) /\ CallsPart /\ disk \in Disks
  BY <1>1 DEF ProgramsStrong, LoadPart
<1>3. Inode \in 0 .. NumInodes - 1 /\ ELF_SIZE \in Nat
  BY <1>2, EntryType, CommandsAssumption DEF AskedFor, Inode, ELF_SIZE
<1>4. inode(Inode).length \in Nat
  BY <1>3, ImageType
<1>5. inode(Inode).length > ELF_SIZE /\ disk[Contents(Inode)[ELF_SIZE + 1]] \in Codes
  BY <1>2, <1>3, FishAssumption
<1>6. /\ result = inode(Inode).length
      /\ \A k \in 1 .. result : Chars(buf)[k] = disk[Contents(Inode)[k]]
  BY <1>1, <1>2, <1>3, <1>4, StartOfFile DEF AskedFor
<1>7. ELF_SIZE + 1 \in 1 .. result
  BY <1>3, <1>4, <1>5, <1>6
<1> QED  BY <1>1, <1>5, <1>6, <1>7 DEF Code

\* The new process has no open files, and runs one of the programs.
LEMMA StartStep ==
  ASSUME ProgramsStrong, start_program PROVE ProgramsStrong'
<1>1. /\ at = "load" /\ pc = "idle" /\ at' = Code /\ fdt' = NewTable
      /\ stored' = {<<"cmd_args", Len(cmd_args)>>}
      /\ UNCHANGED <<session, read_index, fd, reading, got, fsvars, rval, out>>
  BY DEF start_program, Stores
<1>2. CallsPart /\ LinePart /\ LoadPart
  BY DEF ProgramsStrong
<1>3. at' \in Codes
  BY StartsAProgram
<1>4. fdt' = [d \in Fds |-> IF d \in Fds THEN Closed ELSE fdt[d]]
  BY <1>1 DEF NewTable
<1>5. CallsPart'
  <2>1. fd' \in Fds \cup {-1} /\ read_index' \in Nat /\ UNCHANGED <<fsvars, reading>>
    BY <1>1, <1>2 DEF CallsPart, TablePart
  <2> QED  BY <1>1, <1>2, <1>4, <2>1, CloseStep
<1>6. PlacePart'
  BY <1>1, <1>3, OutsidePlaces DEF Outside, fsvars
<1>7. at' \notin {"magic", "check_magic", "load"}
  BY <1>3 DEF Codes, CAT, LS, GREP, COUNTER, SIGTEST, OWN, FISH
<1>8. LinePart' /\ LoadPart'
  BY <1>1, <1>2, <1>7, SessionSame
<1>9. Len(cmd_args) < Size["cmd_args"]
  BY <1>2 DEF LinePart, Size
<1>10. StoresInside'
  BY <1>1, <1>9, StoresInsideIs
<1> QED  BY <1>5, <1>6, <1>8, <1>10 DEF ProgramsStrong

\* halt_helper closes all files; read_data is not at work then.
LEMMA HaltStep ==
  ASSUME ProgramsStrong, halt PROVE ProgramsStrong'
<1>1. /\ at = "halt" /\ at' = "report" /\ fdt' = NewTable /\ read_index' = dir_close(Fds)
      /\ stored' = {} /\ UNCHANGED <<session, fd, reading, got, fsvars, rval, out>>
  BY DEF halt, StoresNothing
<1>2. pc = "idle" /\ CallsPart /\ LinePart /\ LoadPart
  BY <1>1 DEF ProgramsStrong, CallsPart, ReadPart, PlacePart, CopyPlaces
<1>3. fdt' = [d \in Fds |-> IF d \in Fds THEN Closed ELSE fdt[d]]
  BY <1>1 DEF NewTable
<1>4. fd' \in Fds \cup {-1} /\ read_index' \in Nat /\ UNCHANGED <<fsvars, reading>>
  BY <1>1, <1>2, IndexType DEF CallsPart, TablePart
<1>5. CallsPart'
  BY <1>2, <1>3, <1>4, CloseStep
<1>6. PlacePart'
  BY <1>1, <1>2, OutsidePlaces DEF Outside, fsvars
<1>7. LinePart' /\ LoadPart'
  BY <1>1, <1>2, SessionSame
<1>8. StoresInside'
  BY <1>1 DEF StoresInside
<1> QED  BY <1>5, <1>6, <1>7, <1>8 DEF ProgramsStrong

\* The shell prompts for the next line.
LEMMA ReportStep ==
  ASSUME ProgramsStrong, report PROVE ProgramsStrong'
<1>1. /\ at = "report" /\ at' = "prompt" /\ line' = << >> /\ f_cmd' = << >> /\ cmd_args' = << >>
      /\ stored' = {} /\ fd' = -1 /\ args' = NoArgs
      /\ UNCHANGED <<disk, fdt, read_index, reading, pc>>
  BY DEF report, StoresNothing
<1>2. pc = "idle" /\ CallsPart /\ LinePart /\ LoadPart
  BY <1>1 DEF ProgramsStrong, CallsPart, ReadPart, PlacePart, CopyPlaces
<1>3. FileSystemStrong'
  BY <1>1, <1>2 DEF FileSystemStrong, LookupExact, ReadsTheFile, NoArgs
<1>4. CallsPart'
  BY <1>1, <1>2, <1>3 DEF CallsPart, TablePart, ReadPart, Sound, inode, NumInodes
<1>5. PlacePart'
  BY <1>1, <1>2, OutsidePlaces DEF Outside
<1>6. /\ << >> \in Seq(Typed) /\ << >> \in Seq(Letters) /\ Len(<< >>) = 0
      /\ 0 < KEY_BUF_SIZE /\ 0 < CMD_LINE_LEN
  BY SizesType
<1>7. LinePart' /\ LoadPart'
  BY <1>1, <1>2, <1>6 DEF LinePart, LoadPart
<1>8. StoresInside'
  BY <1>1 DEF StoresInside
<1> QED  BY <1>4, <1>5, <1>7, <1>8 DEF ProgramsStrong

\* While read_data copies, nothing else changes.
LEMMA KeepsCopying ==
  ASSUME ProgramsStrong, copying, UNCHANGED frame PROVE ProgramsStrong'
<1>1. /\ CallsPart' /\ pc = "copy" /\ pc' = "copy" /\ args' = args
      /\ stored' = {} /\ UNCHANGED <<session, files, at, rval, out>>
  BY CopyingStep DEF ProgramsStrong
<1>2. LinePart' /\ LoadPart'
  BY <1>1 DEF ProgramsStrong, LinePart, LoadPart, AskedFor, Inode, HasMagic, inode, ELF_SIZE,
              Contents, session, files
<1>3. CatPart' /\ LsPart' /\ GrepPart'
  BY <1>1 DEF ProgramsStrong, PlacePart, CatPart, LsPart, GrepPart, Delivered, IsOpen, NotDir,
              HasType, IsName, files
<1>4. FishPart'
  BY <1>1 DEF ProgramsStrong, PlacePart, FishPart, NotDir, files
<1>5. pc' = "copy" => at' \in CopyPlaces
  BY <1>1 DEF ProgramsStrong, PlacePart
<1>6. StoresInside'
  BY <1>1 DEF StoresInside
<1> QED  BY <1>1, <1>2, <1>3, <1>4, <1>5, <1>6 DEF ProgramsStrong, PlacePart

\* read_data returns to sys_execute or to a program.
LEMMA HasCopied ==
  ASSUME ProgramsStrong, copied, UNCHANGED frame PROVE ProgramsStrong'
<1>1. /\ CallsPart' /\ pc = "copy" /\ pc' = "idle" /\ args' = args
      /\ stored' = {} /\ fd' = fd /\ UNCHANGED <<session, at, rval, out>>
      /\ \A e \in Fds : fdt'[e].type = fdt[e].type
      /\ reading # -1 => Len(got') \in 0 .. args.length /\ args.length \in Nat
      /\ reading' = -1
  BY CopiedStep DEF ProgramsStrong
<1>2. at \in CopyPlaces /\ at' = at
  BY <1>1 DEF ProgramsStrong, PlacePart
<1>3. LinePart' /\ LoadPart'
  BY <1>1 DEF ProgramsStrong, LinePart, LoadPart, AskedFor, Inode, HasMagic, inode, ELF_SIZE,
              Contents, session
<1>4. CatPart'
  BY <1>1, <1>2 DEF ProgramsStrong, PlacePart, CatPart, Delivered, IsOpen
<1>5. LsPart'
  BY <1>2, Elsewhere DEF CopyPlaces
<1>6. GrepPart'
  BY <1>1, <1>2 DEF ProgramsStrong, PlacePart, GrepPart, Delivered, IsOpen, NotDir, HasType,
                    CopyPlaces, InDir, InFile
<1>7. FishPart'
  BY <1>1 DEF ProgramsStrong, PlacePart, FishPart, NotDir
<1>8. StoresInside'
  BY <1>1 DEF StoresInside
<1> QED  BY <1>1, <1>3, <1>4, <1>5, <1>6, <1>7, <1>8 DEF ProgramsStrong, PlacePart

-----------------------------------------------------------------------------
(* The steps of the programs. *)

\* Where a program may go: not into the middle of sys_execute.
Inside(place) == place \notin {"magic", "check_magic", "load"}

\* A step on the program's own memory.
LEMMA IdleStep ==
  ASSUME ProgramsStrong, Idle, Inside(at')
  PROVE  /\ CallsPart' /\ LinePart' /\ LoadPart' /\ pc = "idle" /\ pc' = "idle"
         /\ UNCHANGED <<fdt, fd, got>>
<1>1. pc = "idle" /\ UNCHANGED <<session, files, fsvars>>
  BY DEF Idle
<1>2. CallsPart'
  BY <1>1, CallsSame DEF ProgramsStrong, files
<1>3. LinePart' /\ LoadPart'
  BY <1>1, SessionSame DEF ProgramsStrong, Inside
<1> QED  BY <1>1, <1>2, <1>3 DEF files, fsvars

\* sys_getargs copies the arguments only if they fit.
LEMMA ArgsStep ==
  ASSUME ProgramsStrong, NEW array, Size[array] \in Nat,
         NEW place, NEW status, Inside(place), ArgsOr(array, place, status)
  PROVE  /\ CallsPart' /\ LinePart' /\ LoadPart' /\ StoresInside'
         /\ pc' = "idle" /\ at' \in {place, "halt"}
<1>1. Idle /\ at' \in {place, "halt"}
  BY DEF ArgsOr, return, GoTo
<1>2. CallsPart' /\ LinePart' /\ LoadPart' /\ pc' = "idle"
  BY <1>1, IdleStep DEF Inside
<1>3. CASE GetArgsFails(Size[array])
  <2>1. stored' = {}
    BY <1>3 DEF ArgsOr, StoresNothing
  <2> QED  BY <1>1, <1>2, <2>1 DEF StoresInside
<1>4. CASE ~ GetArgsFails(Size[array])
  <2>1. stored' = {<<array, Len(cmd_args)>>}
    BY <1>4 DEF ArgsOr, Stores
  <2>2. Len(cmd_args) \in Nat /\ Len(cmd_args) < Size[array]
    BY <1>4 DEF GetArgsFails, ProgramsStrong, LinePart
  <2> QED  BY <1>1, <1>2, <2>1, <2>2, StoresInsideIs
<1> QED  BY <1>3, <1>4

\* A program opens a file or gives up.
LEMMA OpenOrStep ==
  ASSUME ProgramsStrong, NEW fname \in Seq(Typed), NEW place, NEW status,
         Inside(place), OpenOr(fname, place, status)
  PROVE  /\ CallsPart' /\ LinePart' /\ LoadPart' /\ StoresInside'
         /\ pc' = "idle" /\ at' = (IF fd' = -1 THEN "halt" ELSE place)
         /\ \A d \in Fds : d # fd' => fdt'[d] = fdt[d]
         /\ fd' # -1 => /\ fd' \in Fds /\ fdt[fd'] = Closed /\ fdt'[fd'].type # -1
                        /\ fdt'[fd'].type = DIR_TYPE <=> fname = DirName
<1>1. /\ sys_open(fname) /\ stored' = {} /\ UNCHANGED session
      /\ at' = (IF fd' = -1 THEN "halt" ELSE place)
  BY DEF OpenOr, StoresNothing, return, GoTo
<1>2. LinePart' /\ LoadPart'
  BY <1>1, SessionSame DEF ProgramsStrong, Inside
<1>3. StoresInside'
  BY <1>1 DEF StoresInside
<1> QED  BY <1>1, <1>2, <1>3, OpenStep DEF ProgramsStrong

\* A program reads from an open descriptor.
LEMMA ReadThenStep ==
  ASSUME ProgramsStrong, NEW d \in Fds, NEW array, NEW count \in Nat, NEW place,
         fdt[d].type = DIR_TYPE => MAX_STR_LENGTH < Size[array],
         Inside(place), ReadThen(d, array, count, place)
  PROVE  /\ CallsPart' /\ LinePart' /\ LoadPart' /\ StoresInside' /\ at' = place
         /\ fd' = fd /\ \A e \in Fds : fdt'[e].type = fdt[e].type
         /\ fdt[d].type = DIR_TYPE => pc' = "idle" /\ IsName(got')
         /\ fdt[d].type # DIR_TYPE => Delivered(count)'
<1>1. sys_read(d, array, count) /\ at' = place /\ UNCHANGED session
  BY DEF ReadThen, GoTo
<1>2. /\ CallsPart' /\ fd' = fd /\ \A e \in Fds : fdt'[e].type = fdt[e].type
      /\ fdt[d].type = DIR_TYPE =>
           pc' = "idle" /\ IsName(got') /\ stored' \subseteq {<<array, MAX_STR_LENGTH>>}
      /\ fdt[d].type # DIR_TYPE => stored' = {} /\ Delivered(count)'
  BY <1>1, ReadCall DEF ProgramsStrong
<1>3. LinePart' /\ LoadPart'
  BY <1>1, SessionSame DEF ProgramsStrong, Inside
<1>4. StoresInside'
  <2>1. CASE fdt[d].type = DIR_TYPE
    BY <1>2, <2>1, StoresInsideIs
  <2>2. CASE fdt[d].type # DIR_TYPE
    BY <1>2, <2>2 DEF StoresInside
  <2> QED  BY <2>1, <2>2
<1> QED  BY <1>1, <1>2, <1>3, <1>4

\* The arrays are declared with these lengths.
LEMMA SizeIs ==
  /\ Size["cat_buf"] = CatBuf /\ Size["name_buf"] = SBUFSIZE /\ Size["sig_buf"] = ShellBuf
  /\ Size["search"] = GrepBuf /\ Size["data"] = GrepBuf + 1
BY DEF Size

\* cat keeps the invariant.
LEMMA CatStep ==
  ASSUME ProgramsStrong, cat PROVE ProgramsStrong'
<1>0. SUFFICES /\ CallsPart' /\ LinePart' /\ LoadPart' /\ StoresInside'
               /\ CatPart' /\ (pc' = "copy" => at' \in CopyPlaces)
               /\ at' \in {"cat_open", "cat_read", "cat_write", "halt"}
  <2>1. at' \notin {"ls_read", "ls_write"} /\ at' \notin InDir
        /\ at' \notin InFrames \cup {"fish_open2"}
    BY <1>0 DEF InDir, InFile, InFrames
  <2> QED  BY <1>0, <2>1, Elsewhere DEF ProgramsStrong, PlacePart
<1>1. CASE cat_args
  <2>1. /\ CallsPart' /\ LinePart' /\ LoadPart' /\ StoresInside' /\ pc' = "idle"
        /\ at' \in {"cat_open", "halt"}
    BY <1>1, ArgsStep, SizeIs, SizesType DEF cat_args, Inside
  <2> QED  BY <2>1 DEF CatPart
<1>2. CASE cat_open
  <2>0. cmd_args \in Seq(Typed)
    BY DEF ProgramsStrong, LinePart
  <2>1. /\ CallsPart' /\ LinePart' /\ LoadPart' /\ StoresInside'
        /\ pc' = "idle" /\ at' = (IF fd' = -1 THEN "halt" ELSE "cat_read")
        /\ fd' # -1 => fd' \in Fds /\ fdt'[fd'].type # -1
    BY <1>2, <2>0, OpenOrStep DEF cat_open, Inside
  <2> QED  BY <2>1 DEF CatPart, IsOpen
<1>3. CASE cat_read
  <2>0. fd \in Fds /\ fdt[fd].type # -1 /\ MAX_STR_LENGTH < Size["cat_buf"] /\ CatBuf \in Nat
    BY <1>3, SizeIs, SizesType DEF cat_read, ProgramsStrong, PlacePart, CatPart, IsOpen
  <2>1. /\ CallsPart' /\ LinePart' /\ LoadPart' /\ StoresInside' /\ at' = "cat_write"
        /\ fd' = fd /\ \A e \in Fds : fdt'[e].type = fdt[e].type
        /\ fdt[fd].type = DIR_TYPE => pc' = "idle" /\ IsName(got')
        /\ fdt[fd].type # DIR_TYPE => Delivered(CatBuf)'
    BY <1>3, <2>0, ReadThenStep DEF cat_read, Inside
  <2>2. Delivered(CatBuf)'
    BY <2>1, SizesType DEF Delivered, IsName
  <2>3. IsOpen(fd)'
    BY <2>0, <2>1 DEF IsOpen
  <2> QED  BY <2>1, <2>2, <2>3 DEF CatPart, CopyPlaces
<1>4. CASE cat_write
  <2>1. /\ at = "cat_write" /\ Idle /\ at' \in {"cat_read", "halt"}
        /\ (stored' = {} \/ stored' = {<<"cat_buf", Len(got) - 1>>})
    BY <1>4 DEF cat_write, return, GoTo, StoresNothing, Stores
  <2>2. /\ CallsPart' /\ LinePart' /\ LoadPart' /\ pc = "idle" /\ pc' = "idle"
        /\ UNCHANGED <<fdt, fd, got>>
    BY <2>1, IdleStep DEF Inside
  <2>3. Len(got) \in 0 .. CatBuf /\ IsOpen(fd)
    BY <2>1, <2>2 DEF ProgramsStrong, PlacePart, CatPart, Delivered
  <2>4. Len(got) - 1 < Size["cat_buf"]
    BY <2>3, SizeIs, SizesType
  <2>5. StoresInside'
    <3>1. CASE stored' = {}
      BY <3>1 DEF StoresInside
    <3>2. CASE stored' = {<<"cat_buf", Len(got) - 1>>}
      BY <2>4, <3>2, StoresInsideIs
    <3> QED  BY <2>1, <3>1, <3>2
  <2>6. CatPart'
    BY <2>1, <2>2, <2>3 DEF CatPart, IsOpen
  <2> QED  BY <2>1, <2>2, <2>5, <2>6
<1> QED  BY <1>1, <1>2, <1>3, <1>4 DEF cat

\* ls keeps the invariant.
LEMMA LsStep ==
  ASSUME ProgramsStrong, ls PROVE ProgramsStrong'
<1>0. SUFFICES /\ CallsPart' /\ LinePart' /\ LoadPart' /\ StoresInside'
               /\ LsPart' /\ pc' = "idle" /\ at' \in {"ls_read", "ls_write", "halt"}
  <2>1. at' \notin {"cat_read", "cat_write"} /\ at' \notin InDir
        /\ at' \notin InFrames \cup {"fish_open2"}
    BY <1>0 DEF InDir, InFile, InFrames
  <2> QED  BY <1>0, <2>1, Elsewhere DEF ProgramsStrong, PlacePart
<1>1. CASE ls_open
  <2>0. DirName \in Seq(Typed)
    BY CommandsAssumption, NameTyped
  <2>1. /\ CallsPart' /\ LinePart' /\ LoadPart' /\ StoresInside'
        /\ pc' = "idle" /\ at' = (IF fd' = -1 THEN "halt" ELSE "ls_read")
        /\ fd' # -1 => fd' \in Fds /\ fdt'[fd'].type = DIR_TYPE
    BY <1>1, <2>0, OpenOrStep DEF ls_open, Inside
  <2> QED  BY <2>1 DEF LsPart, HasType
<1>2. CASE ls_read
  <2>0. fd \in Fds /\ fdt[fd].type = DIR_TYPE /\ MAX_STR_LENGTH < Size["name_buf"]
        /\ SBUFSIZE - 1 \in Nat
    BY <1>2, SizeIs, SizesType, ImageType
    DEF ls_read, ProgramsStrong, PlacePart, LsPart, HasType
  <2>1. /\ CallsPart' /\ LinePart' /\ LoadPart' /\ StoresInside' /\ at' = "ls_write"
        /\ fd' = fd /\ \A e \in Fds : fdt'[e].type = fdt[e].type
        /\ pc' = "idle" /\ IsName(got')
    BY <1>2, <2>0, ReadThenStep DEF ls_read, Inside
  <2> QED  BY <2>0, <2>1 DEF LsPart, HasType, IsName
<1>3. CASE ls_write
  <2>1. /\ at = "ls_write" /\ Idle /\ at' \in {"ls_read", "halt"}
        /\ (stored' = {} \/ stored' = {<<"name_buf", Len(got)>>})
    BY <1>3 DEF ls_write, return, GoTo, StoresNothing, Stores
  <2>2. /\ CallsPart' /\ LinePart' /\ LoadPart' /\ pc' = "idle"
        /\ UNCHANGED <<fdt, fd, got>>
    BY <2>1, IdleStep DEF Inside
  <2>3. IsName(got) /\ HasType(fd, DIR_TYPE)
    BY <2>1 DEF ProgramsStrong, PlacePart, LsPart
  <2>4. Len(got) < Size["name_buf"]
    BY <2>3, SizeIs, SizesType DEF IsName
  <2>5. StoresInside'
    <3>1. CASE stored' = {}
      BY <3>1 DEF StoresInside
    <3>2. CASE stored' = {<<"name_buf", Len(got)>>}
      BY <2>4, <3>2, StoresInsideIs
    <3> QED  BY <2>1, <3>1, <3>2
  <2>6. LsPart'
    BY <2>1, <2>2, <2>3 DEF LsPart, HasType
  <2> QED  BY <2>1, <2>2, <2>5, <2>6
<1> QED  BY <1>1, <1>2, <1>3 DEF ls

\* counter, sigtest and a program of the user's own keep the invariant.
LEMMA SmallProgramsStep ==
  ASSUME ProgramsStrong, counter_choice \/ counter_loop \/ sigtest_args \/ sigtest_fault \/ own
  PROVE  ProgramsStrong'
<1>0. SUFFICES /\ CallsPart' /\ LinePart' /\ LoadPart' /\ StoresInside'
               /\ (pc' = "copy" => at' \in CopyPlaces)
               /\ at' \in {"counter_loop", "sigtest_name", "own_end", "halt"}
  <2>1. /\ at' \notin {"cat_read", "cat_write"} /\ at' \notin {"ls_read", "ls_write"}
        /\ at' \notin InDir /\ at' \notin InFrames \cup {"fish_open2"}
    BY <1>0 DEF InDir, InFile, InFrames
  <2> QED  BY <1>0, <2>1, Elsewhere DEF ProgramsStrong, PlacePart
<1>1. CASE counter_choice \/ counter_loop \/ sigtest_fault \/ own_end
  <2>1. Idle /\ at' \in {"counter_loop", "halt"} /\ stored' = {}
    BY <1>1 DEF counter_choice, counter_loop, sigtest_fault, own_end, GoTo, return, StoresNothing
  <2>2. CallsPart' /\ LinePart' /\ LoadPart' /\ pc' = "idle"
    BY <2>1, IdleStep DEF Inside
  <2>3. StoresInside'
    BY <2>1 DEF StoresInside
  <2> QED  BY <2>1, <2>2, <2>3
<1>2. CASE sigtest_args
  <2>1. /\ CallsPart' /\ LinePart' /\ LoadPart' /\ StoresInside' /\ pc' = "idle"
        /\ at' \in {"sigtest_name", "halt"}
    BY <1>2, ArgsStep, SizeIs, SizesType DEF sigtest_args, Inside
  <2> QED  BY <2>1
<1>3. CASE own_call
  <2>1. /\ at' = "own_end" /\ stored' = {} /\ UNCHANGED <<session, files>>
        /\ \/ \E fname \in Names : read_dentry_by_name(fname)
           \/ \E n \in 0 .. NumInodes, offset \in 0 .. MaxOffset, length \in 0 .. MaxLength :
                read_data(n, offset, length)
    BY <1>3 DEF own_call, GoTo, StoresNothing
  <2>2. FileSystemStrong'
    BY <2>1, FileSystemStep DEF ProgramsStrong, CallsPart, FileSystemNext
  <2>3. pc = "idle" /\ pc' \in {"idle", "copy"}
    BY <2>1 DEF read_data, read_dentry_by_name
  <2>4. CallsPart'
    BY <2>1, <2>2, <2>3
    DEF ProgramsStrong, CallsPart, TablePart, ReadPart, Sound, inode, NumInodes, files
  <2>5. LinePart' /\ LoadPart'
    BY <2>1, SessionSame DEF ProgramsStrong
  <2>6. StoresInside'
    BY <2>1 DEF StoresInside
  <2> QED  BY <2>1, <2>4, <2>5, <2>6 DEF CopyPlaces
<1> QED  BY <1>1, <1>2, <1>3 DEF own

\* grep in its directory.
LEMMA GrepDirStep ==
  ASSUME ProgramsStrong, grep_args \/ grep_dir \/ grep_next \/ grep_name \/ grep_open \/ grep_close
  PROVE  /\ CallsPart' /\ LinePart' /\ LoadPart' /\ StoresInside' /\ GrepPart' /\ pc' = "idle"
         /\ at' \in {"grep_dir", "grep_next", "grep_name", "grep_open", "grep_read", "halt"}
<1>0. GrepPart
  BY DEF ProgramsStrong, PlacePart
<1>1. CASE grep_args
  <2>1. /\ CallsPart' /\ LinePart' /\ LoadPart' /\ StoresInside' /\ pc' = "idle"
        /\ at' \in {"grep_dir", "halt"}
    BY <1>1, ArgsStep, SizeIs, SizesType DEF grep_args, Inside
  <2> QED  BY <2>1, Elsewhere DEF InDir, InFile
<1>2. CASE grep_dir
  <2>0. DirName \in Seq(Typed)
    BY CommandsAssumption, NameTyped
  <2>1. /\ CallsPart' /\ LinePart' /\ LoadPart' /\ StoresInside'
        /\ pc' = "idle" /\ at' = (IF fd' = -1 THEN "halt" ELSE "grep_next")
        /\ fd' # -1 => fd' \in Fds /\ fdt'[fd'].type = DIR_TYPE
    BY <1>2, <2>0, OpenOrStep DEF grep_dir, Inside
  <2>2. frame'.dir = fd'
    BY <1>2 DEF grep_dir
  <2>3. GrepPart'
    BY <2>1, <2>2 DEF GrepPart, HasType, InDir, InFile
  <2> QED  BY <2>1, <2>3
<1>3. CASE grep_next
  <2>0. /\ at = "grep_next" /\ frame' = frame
        /\ ReadThen(frame.dir, "name_buf", SBUFSIZE - 1, "grep_name")
    BY <1>3 DEF grep_next
  <2>1. frame.dir \in Fds /\ fdt[frame.dir].type = DIR_TYPE /\ MAX_STR_LENGTH < Size["name_buf"]
        /\ SBUFSIZE - 1 \in Nat
    BY <1>0, <2>0, SizeIs, SizesType, ImageType DEF GrepPart, HasType, InDir
  <2>2. /\ CallsPart' /\ LinePart' /\ LoadPart' /\ StoresInside' /\ at' = "grep_name"
        /\ \A e \in Fds : fdt'[e].type = fdt[e].type
        /\ pc' = "idle" /\ IsName(got')
    BY <2>0, <2>1, ReadThenStep DEF Inside
  <2>3. GrepPart'
    BY <2>0, <2>1, <2>2 DEF GrepPart, HasType, InDir, InFile, IsName
  <2> QED  BY <2>2, <2>3
<1>4. CASE grep_name
  <2>1. /\ at = "grep_name" /\ Idle /\ at' \in {"grep_next", "grep_open", "halt"}
        /\ (stored' = {} \/ stored' = {<<"name_buf", Len(got)>>})
        /\ frame'.dir = frame.dir
        /\ at' = "grep_open" => got # << >> /\ got[1] # "." /\ frame'.fname = got
    BY <1>4 DEF grep_name, return, GoTo, StoresNothing, Stores
  <2>2. /\ CallsPart' /\ LinePart' /\ LoadPart' /\ pc' = "idle"
        /\ UNCHANGED <<fdt, fd, got>>
    BY <2>1, IdleStep DEF Inside
  <2>3. IsName(got) /\ HasType(frame.dir, DIR_TYPE)
    BY <1>0, <2>1 DEF GrepPart, InDir
  <2>4. Len(got) < Size["name_buf"]
    BY <2>3, SizeIs, SizesType DEF IsName
  <2>5. StoresInside'
    <3>1. CASE stored' = {}
      BY <3>1 DEF StoresInside
    <3>2. CASE stored' = {<<"name_buf", Len(got)>>}
      BY <2>4, <3>2, StoresInsideIs
    <3> QED  BY <2>1, <3>1, <3>2
  <2>6. got[1] # "." => got # DirName
    BY DEF DirName
  <2>7. GrepPart'
    BY <2>1, <2>2, <2>3, <2>6 DEF GrepPart, HasType, InDir, InFile, IsName
  <2> QED  BY <2>1, <2>2, <2>5, <2>7
<1>5. CASE grep_open
  <2>1. /\ at = "grep_open" /\ OpenOr(frame.fname, "grep_read", 3)
        /\ DOMAIN frame' = GrepFrame /\ frame'.dir = frame.dir
        /\ frame'.last = 0 /\ frame'.line_start = 0
    BY <1>5 DEF grep_open, GrepFrame
  <2>2. IsName(frame.fname) /\ frame.fname # DirName /\ HasType(frame.dir, DIR_TYPE)
    BY <1>0, <2>1 DEF GrepPart, InDir
  <2>3. frame.fname \in Seq(Typed)
    BY <2>2, NameTyped DEF IsName
  <2>4. /\ CallsPart' /\ LinePart' /\ LoadPart' /\ StoresInside'
        /\ pc' = "idle" /\ at' = (IF fd' = -1 THEN "halt" ELSE "grep_read")
        /\ \A d \in Fds : d # fd' => fdt'[d] = fdt[d]
        /\ fd' # -1 => /\ fd' \in Fds /\ fdt[fd'] = Closed /\ fdt'[fd'].type # -1
                       /\ fdt'[fd'].type # DIR_TYPE
    BY <2>1, <2>2, <2>3, OpenOrStep DEF Inside
  <2>5. fd' # -1 => HasType(frame.dir, DIR_TYPE)'
    BY <2>1, <2>2, <2>4 DEF HasType, Closed, DIR_TYPE
  <2>6. GrepBuf \in Nat
    BY SizesType
  <2>7. GrepPart'
    BY <2>1, <2>4, <2>5, <2>6 DEF GrepPart, InDir, InFile, IsOpen, NotDir
  <2> QED  BY <2>4, <2>7
<1>6. CASE grep_close
  <2>1. /\ at = "grep_close" /\ pc = "idle" /\ sys_close(fd) /\ at' = "grep_next" /\ stored' = {}
        /\ frame'.dir = frame.dir /\ UNCHANGED session
    BY <1>6 DEF grep_close, GoTo, StoresNothing
  <2>2. HasType(frame.dir, DIR_TYPE) /\ NotDir(fd) /\ CallsPart
    BY <1>0, <2>1 DEF GrepPart, InDir, ProgramsStrong
  <2>3. /\ fdt' = [d \in Fds |-> IF d \in {fd} THEN Closed ELSE fdt[d]]
        /\ UNCHANGED <<fd, reading, fsvars>> /\ read_index' = dir_close({fd})
    BY <2>1, <2>2 DEF sys_close, CallsPart, TablePart
  <2>4. fd' \in Fds \cup {-1} /\ read_index' \in Nat
    BY <2>2, <2>3, IndexType DEF CallsPart, TablePart
  <2>5. CallsPart'
    BY <2>1, <2>2, <2>3, <2>4, CloseStep
  <2>6. HasType(frame.dir, DIR_TYPE)'
    BY <2>1, <2>2, <2>3 DEF HasType, NotDir
  <2>7. LinePart' /\ LoadPart'
    BY <2>1, SessionSame DEF ProgramsStrong
  <2>8. StoresInside' /\ pc' = "idle"
    BY <2>1, <2>3 DEF StoresInside, fsvars
  <2>9. GrepPart'
    BY <2>1, <2>6 DEF GrepPart, InDir, InFile
  <2> QED  BY <2>1, <2>5, <2>7, <2>8, <2>9
<1> QED  BY <1>1, <1>2, <1>3, <1>4, <1>5, <1>6

\* grep in a file: data never holds more than fits, and one end mark.
LEMMA GrepFileStep ==
  ASSUME ProgramsStrong, grep_read \/ grep_got \/ grep_line
  PROVE  /\ CallsPart' /\ LinePart' /\ LoadPart' /\ StoresInside' /\ GrepPart'
         /\ (pc' = "copy" => at' \in CopyPlaces)
         /\ at' \in {"grep_read", "grep_got", "grep_line", "grep_close"}
<1>0. GrepPart /\ GrepBuf \in Nat
  BY SizesType DEF ProgramsStrong, PlacePart
<1>1. at \in InFile
  BY DEF grep_read, grep_got, grep_line, InFile
<1>2. /\ HasType(frame.dir, DIR_TYPE) /\ IsOpen(fd) /\ NotDir(fd) /\ DOMAIN frame = GrepFrame
      /\ frame.last \in 0 .. GrepBuf /\ frame.line_start \in Nat
  BY <1>0, <1>1 DEF GrepPart, InDir
<1>3. CASE grep_read
  <2>1. /\ ReadThen(fd, "data", GrepBuf - frame.last, "grep_got") /\ frame' = frame
    BY <1>3 DEF grep_read
  <2>2. fd \in Fds /\ fdt[fd].type # DIR_TYPE /\ GrepBuf - frame.last \in Nat
    BY <1>0, <1>2 DEF NotDir
  <2>3. /\ CallsPart' /\ LinePart' /\ LoadPart' /\ StoresInside' /\ at' = "grep_got"
        /\ fd' = fd /\ \A e \in Fds : fdt'[e].type = fdt[e].type
        /\ Delivered(GrepBuf - frame.last)'
    <3>1. PICK c \in Nat : c = GrepBuf - frame.last
      BY <2>2
    <3>2. ReadThen(fd, "data", c, "grep_got")
      BY <2>1, <3>1
    <3>3. /\ CallsPart' /\ LinePart' /\ LoadPart' /\ StoresInside' /\ at' = "grep_got"
          /\ fd' = fd /\ \A e \in Fds : fdt'[e].type = fdt[e].type
          /\ Delivered(c)'
      BY <2>2, <3>2, ReadThenStep DEF Inside
    <3>4. frame'.last = frame.last
      BY <2>1
    <3>5. Delivered(GrepBuf - frame.last)'
      BY <3>1, <3>3, <3>4 DEF Delivered
    <3> QED  BY <3>3, <3>5
  <2>4. HasType(frame.dir, DIR_TYPE)' /\ IsOpen(fd)' /\ NotDir(fd)'
    BY <1>2, <2>1, <2>3 DEF HasType, IsOpen, NotDir
  <2>5. GrepPart'
    BY <1>2, <2>1, <2>3, <2>4 DEF GrepPart, InDir, InFile
  <2> QED  BY <2>3, <2>5 DEF CopyPlaces
<1>4. CASE grep_got
  <2>1. /\ at = "grep_got" /\ Idle /\ at' = "grep_line"
        /\ stored' = {<<"data", frame.last + Len(got) - 1>>}
    BY <1>4 DEF grep_got, GoTo, Stores
  <2>2. /\ CallsPart' /\ LinePart' /\ LoadPart' /\ pc = "idle" /\ pc' = "idle"
        /\ UNCHANGED <<fdt, fd, got>>
    BY <2>1, IdleStep DEF Inside
  <2>3. Len(got) \in 0 .. GrepBuf - frame.last
    BY <1>0, <2>1, <2>2 DEF GrepPart, Delivered
  <2>4. /\ DOMAIN frame' = GrepFrame /\ frame'.last = frame.last + Len(got)
        /\ frame'.line_start = 0 /\ frame'.dir = frame.dir
    BY <1>2, <1>4 DEF grep_got, GrepFrame
  <2>5. frame'.last \in 0 .. GrepBuf /\ frame.last + Len(got) - 1 < Size["data"]
    BY <1>0, <1>2, <2>3, <2>4, SizeIs
  <2>6. HasType(frame.dir, DIR_TYPE)' /\ IsOpen(fd)' /\ NotDir(fd)'
    BY <1>2, <2>2, <2>4 DEF HasType, IsOpen, NotDir
  <2>7. GrepPart'
    BY <2>1, <2>4, <2>5, <2>6 DEF GrepPart, InDir, InFile
  <2>8. StoresInside'
    BY <2>1, <2>5, StoresInsideIs
  <2> QED  BY <2>1, <2>2, <2>7, <2>8
<1>5. CASE grep_line
  <2>1. PICK line_end \in frame.line_start .. frame.last :
          /\ IsLineEnd(frame, line_end) /\ Stores("data", line_end)
          /\ \/ IsUnfinished(frame, line_end) /\ move_line(line_end)
             \/ ~ IsUnfinished(frame, line_end) /\ search_line(line_end)
    BY <1>5 DEF grep_line
  <2>2. at' \in {"grep_line", "grep_close", "grep_read"}
    BY <2>1 DEF move_line, search_line, GoTo
  <2>3. Idle /\ stored' = {<<"data", line_end>>}
    BY <1>5, <2>1 DEF grep_line, Stores
  <2>4. /\ CallsPart' /\ LinePart' /\ LoadPart' /\ pc' = "idle"
        /\ UNCHANGED <<fdt, fd, got>>
    BY <2>2, <2>3, IdleStep DEF Inside
  <2>5. line_end \in Nat /\ line_end < Size["data"] /\ frame.line_start <= frame.last
    BY <1>0, <1>2, SizeIs
  <2>6. /\ DOMAIN frame' = GrepFrame /\ frame'.dir = frame.dir
        /\ frame'.last \in {0, frame.last, frame.last - frame.line_start}
        /\ frame'.line_start \in {frame.line_start, line_end + 1}
    BY <1>2, <2>1 DEF move_line, search_line, GrepFrame
  <2>7. frame'.last \in 0 .. GrepBuf /\ frame'.line_start \in Nat
    BY <1>0, <1>2, <2>5, <2>6
  <2>8. HasType(frame.dir, DIR_TYPE)' /\ IsOpen(fd)' /\ NotDir(fd)'
    BY <1>2, <2>4, <2>6 DEF HasType, IsOpen, NotDir
  <2>9. GrepPart'
    BY <2>2, <2>6, <2>7, <2>8 DEF GrepPart, InDir, InFile
  <2>10. StoresInside'
    BY <2>3, <2>5, StoresInsideIs
  <2> QED  BY <2>2, <2>4, <2>9, <2>10
<1> QED  BY <1>3, <1>4, <1>5

\* grep keeps the invariant.
LEMMA GrepStep ==
  ASSUME ProgramsStrong, grep PROVE ProgramsStrong'
<1>1. /\ CallsPart' /\ LinePart' /\ LoadPart' /\ StoresInside' /\ GrepPart'
      /\ (pc' = "copy" => at' \in CopyPlaces)
      /\ at' \in {"grep_dir", "grep_next", "grep_name", "grep_open", "grep_read", "grep_got",
                  "grep_line", "grep_close", "halt"}
  BY GrepDirStep, GrepFileStep DEF grep
<1>2. /\ at' \notin {"cat_read", "cat_write"} /\ at' \notin {"ls_read", "ls_write"}
      /\ at' \notin InFrames \cup {"fish_open2"}
  BY <1>1 DEF InFrames
<1> QED  BY <1>1, <1>2, Elsewhere DEF ProgramsStrong, PlacePart

\* Descriptors that fish has open stay files when others change.
LEMMA FishSame ==
  ASSUME FishPart, at \in InFrames, frame'.fds = frame.fds, DOMAIN frame' = FishFrame,
         frame'.f \in 1 .. 2,
         \A d \in Fds : fdt'[d].type = DIR_TYPE => fdt[d].type = DIR_TYPE
  PROVE  FishPart' \/ at' = "fish_open2"
BY DEF FishPart, NotDir

\* fish opens its files.
LEMMA FishOpenStep ==
  ASSUME ProgramsStrong, fish_open_rtc \/ fish_open1 \/ fish_open2
  PROVE  /\ CallsPart' /\ LinePart' /\ LoadPart' /\ StoresInside' /\ FishPart' /\ pc' = "idle"
         /\ at' \in {"fish_open1", "fish_open2", "fish_read", "halt"}
<1>0. FishPart /\ CallsPart
  BY DEF ProgramsStrong, PlacePart
<1>1. Frames[1] \in Seq(Letters) /\ Frames[2] \in Seq(Letters)
      /\ Frames[1] # DirName /\ Frames[2] # DirName
  <2>1. Frames \in Seq(Seq(Letters) \ {DirName}) /\ Len(Frames) = 2
    BY FishAssumption
  <2>2. \A k \in 1 .. Len(Frames) : Frames[k] \in Seq(Letters) \ {DirName}
    BY <2>1, ElementOfSeq
  <2>3. 1 \in 1 .. Len(Frames) /\ 2 \in 1 .. Len(Frames)
    BY <2>1
  <2> QED  BY <2>2, <2>3
<1>2. Frames[1] \in Seq(Typed) /\ Frames[2] \in Seq(Typed)
  BY <1>1, NameTyped
<1>3. CASE fish_open_rtc
  <2>1. /\ sys_open(RtcName) /\ at' = "fish_open1" /\ stored' = {} /\ UNCHANGED session
    BY <1>3 DEF fish_open_rtc, GoTo, StoresNothing
  <2>2. RtcName \in Seq(Typed)
    BY FishAssumption, ImageType, NameTyped
  <2>3. CallsPart' /\ pc' = "idle"
    BY <1>0, <2>1, <2>2, OpenStep
  <2>4. LinePart' /\ LoadPart'
    BY <2>1, SessionSame DEF ProgramsStrong
  <2>5. StoresInside'
    BY <2>1 DEF StoresInside
  <2>6. FishPart'
    BY <2>1, Elsewhere DEF InFrames
  <2> QED  BY <2>1, <2>3, <2>4, <2>5, <2>6
<1>4. CASE fish_open1
  <2>1. OpenOr(Frames[1], "fish_open2", 255) /\ frame'.fds = <<fd'>>
    BY <1>4 DEF fish_open1
  <2>2. /\ CallsPart' /\ LinePart' /\ LoadPart' /\ StoresInside'
        /\ pc' = "idle" /\ at' = (IF fd' = -1 THEN "halt" ELSE "fish_open2")
        /\ fd' # -1 => fd' \in Fds /\ fdt'[fd'].type # DIR_TYPE
    BY <1>1, <1>2, <2>1, OpenOrStep DEF Inside
  <2>3. FishPart'
    BY <2>1, <2>2 DEF FishPart, NotDir, InFrames
  <2> QED  BY <2>2, <2>3
<1>5. CASE fish_open2
  <2>1. /\ at = "fish_open2" /\ OpenOr(Frames[2], "fish_read", 255)
        /\ frame'.fds = Append(frame.fds, fd') /\ frame'.f = 1 /\ DOMAIN frame' = FishFrame
    BY <1>5 DEF fish_open2, FishFrame
  <2>2. PICK d \in Fds : frame.fds = <<d>> /\ fdt[d].type # DIR_TYPE
    BY <1>0, <2>1 DEF FishPart, NotDir
  <2>3. /\ CallsPart' /\ LinePart' /\ LoadPart' /\ StoresInside'
        /\ pc' = "idle" /\ at' = (IF fd' = -1 THEN "halt" ELSE "fish_read")
        /\ \A e \in Fds : e # fd' => fdt'[e] = fdt[e]
        /\ fd' # -1 => fd' \in Fds /\ fdt'[fd'].type # DIR_TYPE
    BY <1>1, <1>2, <2>1, OpenOrStep DEF Inside
  <2>4. CASE fd' = -1
    <3>1. FishPart'
      BY <2>3, <2>4, Elsewhere DEF InFrames
    <3> QED  BY <2>3, <3>1
  <2>5. CASE fd' # -1
    <3>1. fd' \in Fds /\ fdt'[fd'].type # DIR_TYPE
      BY <2>3, <2>5
    <3>2. PICK e \in Fds : e = fd'
      BY <3>1
    <3>3. frame'.fds = <<d, e>>
      <4>1. frame'.fds = Append(<<d>>, e)
        BY <2>1, <2>2, <3>2
      <4>2. <<d>> \in Seq(Fds) /\ <<d, e>> \in Seq(Fds) /\ Len(<<d>>) = 1
            /\ Len(<<d, e>>) = 2 /\ <<d>>[1] = d /\ <<d, e>>[1] = d /\ <<d, e>>[2] = e
        OBVIOUS
      <4>3. /\ Append(<<d>>, e) \in Seq(Fds) /\ Len(Append(<<d>>, e)) = 2
            /\ Append(<<d>>, e)[1] = d /\ Append(<<d>>, e)[2] = e
        BY <4>2, AppendProperties
      <4>4. \A k \in 1 .. 2 : Append(<<d>>, e)[k] = <<d, e>>[k]
        BY <4>2, <4>3
      <4>5. Append(<<d>>, e) = <<d, e>>
        BY <4>2, <4>3, <4>4, SeqEqual
      <4> QED  BY <4>1, <4>5
    <3>4. fdt'[d].type # DIR_TYPE /\ fdt'[e].type # DIR_TYPE
      BY <2>2, <2>3, <3>1, <3>2
    <3>5. FishPart'
      BY <2>1, <2>3, <2>5, <3>3, <3>4 DEF FishPart, NotDir, InFrames
    <3> QED  BY <2>3, <3>5
  <2> QED  BY <2>4, <2>5
<1> QED  BY <1>3, <1>4, <1>5

\* fish reads the frames and makes blinking characters of them.
LEMMA FishFramesStep ==
  ASSUME ProgramsStrong, fish_read \/ fish_skip \/ fish_got \/ fish_pair \/ fish_row
  PROVE  /\ CallsPart' /\ LinePart' /\ LoadPart' /\ StoresInside' /\ FishPart'
         /\ (pc' = "copy" => at' \in CopyPlaces)
         /\ at' \in InFrames \cup {"fish_wait"}
<1>0. FishPart /\ CallsPart
  BY DEF ProgramsStrong, PlacePart
<1>1. at \in InFrames
  BY DEF fish_read, fish_skip, fish_got, fish_pair, fish_row, InFrames
<1>2. PICK d \in Fds, e \in Fds : frame.fds = <<d, e>> /\ NotDir(d) /\ NotDir(e)
  BY <1>0, <1>1 DEF FishPart
<1>3. DOMAIN frame = FishFrame /\ frame.f \in 1 .. 2
  BY <1>0, <1>1 DEF FishPart
<1>4. CASE fish_read
  <2>1. ReadThen(frame.fds[frame.f], "c", 1, "fish_got") /\ frame' = frame
    BY <1>4 DEF fish_read
  <2>2. PICK g \in Fds : g = frame.fds[frame.f] /\ fdt[g].type # DIR_TYPE
    BY <1>2, <1>3 DEF NotDir
  <2>3. /\ CallsPart' /\ LinePart' /\ LoadPart' /\ StoresInside' /\ at' = "fish_got"
        /\ \A h \in Fds : fdt'[h].type = fdt[h].type
    BY <2>1, <2>2, ReadThenStep DEF Inside
  <2>4. FishPart'
    BY <1>0, <1>1, <1>3, <2>1, <2>3, FishSame
  <2> QED  BY <2>3, <2>4 DEF CopyPlaces, InFrames
<1>5. CASE fish_skip \/ fish_got \/ fish_pair
  <2>1. Idle /\ stored' = {} /\ at' \in {"fish_read", "fish_pair"}
    BY <1>5 DEF fish_skip, fish_got, fish_pair, GoTo, NextPlace, StoresNothing
  <2>2. DOMAIN frame' = FishFrame /\ frame'.fds = frame.fds /\ frame'.f \in {frame.f, 3 - frame.f}
    BY <1>3, <1>5 DEF fish_skip, fish_got, fish_pair, FishFrame
  <2>3. CallsPart' /\ LinePart' /\ LoadPart' /\ pc' = "idle" /\ fdt' = fdt
    BY <2>1, IdleStep DEF Inside
  <2>4. frame'.f \in 1 .. 2
    BY <1>3, <2>2
  <2>5. FishPart'
    BY <1>0, <1>1, <2>1, <2>2, <2>3, <2>4, FishSame
  <2>6. StoresInside'
    BY <2>1 DEF StoresInside
  <2> QED  BY <2>1, <2>3, <2>5, <2>6 DEF InFrames
<1>6. CASE fish_row
  <2> DEFINE ended == {g \in Fds : \E f \in 1 .. 2 : frame.eof[f] /\ frame.fds[f] = g}
  <2>1. /\ pc = "idle" /\ stored' = {} /\ UNCHANGED <<session, read_index, fd, reading, fsvars>>
        /\ fdt' = [g \in Fds |-> IF \E f \in 1 .. 2 : frame.eof[f] /\ frame.fds[f] = g
                                   THEN Closed ELSE fdt[g]]
    BY <1>6 DEF fish_row, StoresNothing
  <2>2. fdt' = [g \in Fds |-> IF g \in ended THEN Closed ELSE fdt[g]]
    BY <2>1
  <2> HIDE DEF ended
  <2>3. fd' \in Fds \cup {-1} /\ read_index' \in Nat /\ UNCHANGED <<fsvars, reading>>
    BY <1>0, <2>1 DEF CallsPart, TablePart
  <2>4. CallsPart'
    BY <1>0, <2>1, <2>2, <2>3, CloseStep
  <2>5. \A g \in Fds : fdt'[g].type = DIR_TYPE => fdt[g].type = DIR_TYPE
    BY <2>2 DEF Closed, DIR_TYPE
  <2>6. at' \in {"fish_wait", "fish_read"}
    BY <1>6 DEF fish_row, GoTo
  <2>7. FishPart'
    <3>1. CASE at' = "fish_wait"
      BY <3>1, Elsewhere DEF InFrames
    <3>2. CASE at' = "fish_read"
      <4>1. frame' = [frame EXCEPT !.row = @ + 1, !.col = 0,
                        !.c = [f \in 1 .. 2 |-> IF frame.eof[f] THEN NEWLINE ELSE "0"]]
        BY <1>6, <3>2 DEF fish_row, GoTo
      <4>2. DOMAIN frame' = FishFrame /\ frame'.fds = frame.fds /\ frame'.f = frame.f
        BY <1>3, <4>1 DEF FishFrame
      <4> QED  BY <1>0, <1>1, <1>3, <2>5, <3>2, <4>2, FishSame
    <3> QED  BY <2>6, <3>1, <3>2
  <2>8. LinePart' /\ LoadPart'
    BY <2>1, <2>6, SessionSame DEF ProgramsStrong
  <2>9. StoresInside' /\ pc' = "idle"
    BY <2>1 DEF StoresInside, fsvars
  <2> QED  BY <2>4, <2>6, <2>7, <2>8, <2>9 DEF InFrames
<1> QED  BY <1>4, <1>5, <1>6

\* fish waits, asks for changes and ends.
LEMMA FishWaitStep ==
  ASSUME ProgramsStrong, fish_tick \/ fish_ioctl \/ fish_end
  PROVE  /\ CallsPart' /\ LinePart' /\ LoadPart' /\ StoresInside' /\ pc' = "idle"
         /\ at' \in {"fish_wait", "halt"}
<1>1. CASE fish_tick \/ fish_ioctl
  <2>1. Idle /\ at' = "fish_wait" /\ stored' = {}
    BY <1>1 DEF fish_tick, fish_ioctl, StoresNothing
  <2>2. StoresInside'
    BY <2>1 DEF StoresInside
  <2> QED  BY <2>1, <2>2, IdleStep DEF Inside
<1>2. CASE fish_end
  <2>1. /\ pc = "idle" /\ sys_close(frame.rtc) /\ at' = "halt" /\ stored' = {}
        /\ UNCHANGED session
    BY <1>2 DEF fish_end, return, StoresNothing
  <2>2. CallsPart /\ fdt \in [Fds -> Descriptors] /\ fd \in Fds \cup {-1}
    BY DEF ProgramsStrong, CallsPart, TablePart
  <2>3. /\ fdt' = [d \in Fds |-> IF d \in {frame.rtc} THEN Closed ELSE fdt[d]]
        /\ UNCHANGED <<fd, reading, fsvars>> /\ read_index' = dir_close({frame.rtc})
    BY <2>1, <2>2 DEF sys_close
  <2>4. fd' \in Fds \cup {-1} /\ read_index' \in Nat
    BY <2>2, <2>3, IndexType
  <2>5. CallsPart'
    BY <2>1, <2>2, <2>3, <2>4, CloseStep
  <2>6. LinePart' /\ LoadPart'
    BY <2>1, SessionSame DEF ProgramsStrong
  <2>7. StoresInside' /\ pc' = "idle"
    BY <2>1, <2>3 DEF StoresInside, fsvars
  <2> QED  BY <2>1, <2>5, <2>6, <2>7
<1> QED  BY <1>1, <1>2

\* fish keeps the invariant.
LEMMA FishStep ==
  ASSUME ProgramsStrong, fish PROVE ProgramsStrong'
<1>1. /\ CallsPart' /\ LinePart' /\ LoadPart' /\ StoresInside'
      /\ (pc' = "copy" => at' \in CopyPlaces)
      /\ at' \in InFrames \cup {"fish_open1", "fish_open2", "fish_wait", "halt"}
  BY FishOpenStep, FishFramesStep, FishWaitStep DEF fish, InFrames
<1>2. FishPart'
  <2>1. CASE fish_tick \/ fish_ioctl \/ fish_end
    BY <2>1, FishWaitStep, Elsewhere DEF InFrames
  <2> QED  BY <2>1, FishOpenStep, FishFramesStep DEF fish
<1>3. /\ at' \notin {"cat_read", "cat_write"} /\ at' \notin {"ls_read", "ls_write"}
      /\ at' \notin InDir
  BY <1>1 DEF InFrames, InDir, InFile
<1> QED  BY <1>1, <1>2, <1>3, Elsewhere DEF ProgramsStrong, PlacePart

-----------------------------------------------------------------------------
\* The invariant holds at the first prompt.
LEMMA ProgramsStart == FishInit => ProgramsStrong
<1> SUFFICES ASSUME FishInit PROVE ProgramsStrong
  OBVIOUS
<1>1. CommandsInit /\ FileSystemInit
  BY DEF FishInit, ProgramsInit, CommandsInit
<1>2. FileSystemStrong /\ pc = "idle"
  BY <1>1, FileSystemStart DEF FileSystemInit
<1>3. Closed \in Descriptors /\ Sound(Closed)
  BY DEF Closed, Descriptors, Sound
<1>4. CallsPart
  BY <1>1, <1>2, <1>3 DEF CallsPart, TablePart, ReadPart, CommandsInit, NewTable
<1>5. /\ << >> \in Seq(Typed) /\ << >> \in Seq(Letters) /\ Len(<< >>) = 0
      /\ 0 < KEY_BUF_SIZE /\ 0 < CMD_LINE_LEN
  BY SizesType
<1>6. LinePart /\ LoadPart /\ StoresInside
  BY <1>1, <1>5 DEF CommandsInit, LinePart, LoadPart, StoresInside
<1>7. PlacePart
  BY <1>1, <1>2 DEF CommandsInit, PlacePart, CatPart, LsPart, GrepPart, FishPart, InDir, InFile,
                    InFrames
<1> QED  BY <1>4, <1>6, <1>7 DEF ProgramsStrong

\* A step of nobody.
LEMMA ProgramsSame ==
  ASSUME ProgramsStrong, UNCHANGED fishvars PROVE ProgramsStrong'
<1>1. UNCHANGED <<session, files, fsvars, at, rval, out, stored, frame>>
  BY DEF fishvars, vars, cvars
<1>2. CallsPart'
  BY <1>1, CallsSame DEF ProgramsStrong, files
<1>3. LinePart' /\ LoadPart'
  BY <1>1 DEF ProgramsStrong, LinePart, LoadPart, AskedFor, Inode, HasMagic, inode, ELF_SIZE,
              Contents, session, files, fsvars
<1>4. CatPart' /\ LsPart' /\ GrepPart'
  BY <1>1 DEF ProgramsStrong, PlacePart, CatPart, LsPart, GrepPart, Delivered, IsOpen, NotDir,
              HasType, IsName, files, fsvars
<1>5. FishPart'
  BY <1>1 DEF ProgramsStrong, PlacePart, FishPart, NotDir, files
<1>6. (pc' = "copy" => at' \in CopyPlaces) /\ StoresInside'
  BY <1>1 DEF ProgramsStrong, PlacePart, StoresInside, fsvars, Size
<1> QED  BY <1>2, <1>3, <1>4, <1>5, <1>6 DEF ProgramsStrong, PlacePart

\* The invariant is inductive.
LEMMA ProgramsStep == ProgramsStrong /\ [FishNext]_fishvars => ProgramsStrong'
<1> SUFFICES ASSUME ProgramsStrong, [FishNext]_fishvars PROVE ProgramsStrong'
  OBVIOUS
<1>1. CASE TypesLine
  BY <1>1, ReadLineStep, SmallProgramsStep DEF TypesLine
<1>2. CASE kernel
  BY <1>2, ParseStep, FindStep, MagicStep, CheckMagicStep, StartStep, KeepsCopying, HasCopied,
     HaltStep DEF kernel
<1>3. CASE cat \/ ls \/ grep \/ counter_loop \/ sigtest_args \/ own
  BY <1>3, CatStep, LsStep, GrepStep, SmallProgramsStep
<1>4. CASE shell_reports
  BY <1>4, ReportStep DEF shell_reports
<1>5. CASE fish
  BY <1>5, FishStep
<1>6. CASE UNCHANGED fishvars
  BY <1>6, ProgramsSame
<1> QED  BY <1>1, <1>2, <1>3, <1>4, <1>5, <1>6 DEF FishNext, FishRunning, Progress

\* The invariant holds throughout a session.
LEMMA ProgramsAlways == FishSpec => []ProgramsStrong
BY ProgramsStart, ProgramsStep, PTL DEF FishSpec

(***************************************************************************)
(* The lookups of sys_execute and sys_open are exact in every session.     *)
(***************************************************************************)
THEOREM SessionLookup == FishSpec => []LookupExact
<1>1. ProgramsStrong => LookupExact
  BY DEF ProgramsStrong, CallsPart, FileSystemStrong
<1> QED  BY <1>1, ProgramsAlways, PTL

(***************************************************************************)
(* The reads of sys_execute and of every program deliver what is in the    *)
(* file in every session.                                                  *)
(***************************************************************************)
THEOREM SessionReads == FishSpec => []ReadsTheFile
<1>1. ProgramsStrong => ReadsTheFile
  BY DEF ProgramsStrong, CallsPart, FileSystemStrong
<1> QED  BY <1>1, ProgramsAlways, PTL

(***************************************************************************)
(* Whatever is typed and whatever the files contain, every store that the  *)
(* shell, sys_execute, dir_read and the programs make with a length found  *)
(* at run time is inside its array, the marks that grep puts one past what *)
(* it has read included.                                                   *)
(***************************************************************************)
THEOREM StoresCorrect == FishSpec => []StoresInside
<1>1. ProgramsStrong => StoresInside
  BY DEF ProgramsStrong
<1> QED  BY <1>1, ProgramsAlways, PTL

-----------------------------------------------------------------------------
(* sys_execute runs what was typed. *)

\* The first word of the line is its characters from f + 1 to f + n.
FirstWord(f, n) ==
  /\ f \in 0 .. Len(line) /\ n \in 0 .. Len(line) - f
  /\ \A k \in 1 .. f : line[k] = SPACE
  /\ \A k \in 1 .. n : line[f + k] # SPACE
  /\ f < Len(line) => line[f + 1] # SPACE
  /\ f + n < Len(line) => line[f + n + 1] = SPACE

\* parsed takes the first word, and what follows one separator.
LEMMA ParsedIs ==
  ASSUME LinePart
  PROVE  \E f, n \in Nat :
           /\ FirstWord(f, n)
           /\ parsed(line).name = SubSeq(line, f + 1, f + n)
           /\ parsed(line).args = SubSeq(line, f + n + 2, Len(line))
<1> DEFINE f == Run(line, 0, {SPACE})
           n == Run(line, f, NameChars(line))
<1>1. line \in Seq(Typed) /\ Len(line) \in Nat /\ Len(line) < KEY_BUF_SIZE
      /\ \A k \in 1 .. Len(line) : line[k] \in Typed
  BY DEF LinePart
<1>2. /\ f \in 0 .. Len(line)
      /\ f = Len(line) \/ line[f + 1] # SPACE
      /\ \A k \in 1 .. f : line[k] = SPACE
  <2>0. 0 \in 0 .. Len(line)
    BY <1>1
  <2>1. /\ f \in 0 .. Len(line) - 0
        /\ f = Len(line) - 0 \/ line[0 + f + 1] \notin {SPACE}
        /\ \A m \in 0 .. f - 1 : line[0 + m + 1] \in {SPACE}
    BY <1>1, <2>0, RunIs
  <2> HIDE DEF f
  <2>2. \A k \in 1 .. f : k - 1 \in 0 .. f - 1 /\ 0 + (k - 1) + 1 = k
    BY <1>1, <2>1
  <2>3. f \in 0 .. Len(line) /\ Len(line) - 0 = Len(line) /\ 0 + f + 1 = f + 1
    BY <1>1, <2>1
  <2> QED  BY <2>1, <2>2, <2>3
<1> HIDE DEF f
<1>3. /\ n \in 0 .. Len(line) - f
      /\ n = Len(line) - f \/ line[f + n + 1] \notin NameChars(line)
      /\ \A m \in 0 .. n - 1 : line[f + m + 1] \in NameChars(line)
  BY <1>1, <1>2, RunIs
<1> HIDE DEF n
<1>4. f \in Nat /\ n \in Nat /\ f + n <= Len(line)
  BY <1>1, <1>2, <1>3
<1>5. \A k \in 1 .. n : line[f + k] # SPACE
  <2> SUFFICES ASSUME NEW k \in 1 .. n PROVE line[f + k] # SPACE
    OBVIOUS
  <2>1. k - 1 \in 0 .. n - 1 /\ f + (k - 1) + 1 = f + k
    BY <1>4
  <2>2. line[f + k] \in NameChars(line)
    BY <1>3, <2>1
  <2> QED  BY <2>2 DEF NameChars
<1>6. f + n < Len(line) => line[f + n + 1] = SPACE
  <2> SUFFICES ASSUME f + n < Len(line) PROVE line[f + n + 1] = SPACE
    OBVIOUS
  <2>1. n # Len(line) - f /\ f + n + 1 \in 1 .. Len(line)
    BY <1>1, <1>4
  <2>2. line[f + n + 1] \notin NameChars(line) /\ line[f + n + 1] \in Typed
        /\ line[f + n + 1] \in {line[k] : k \in DOMAIN line}
    BY <1>1, <1>3, <2>1
  <2>3. line[f + n + 1] \in {SPACE, NEWLINE}
    BY <2>2 DEF NameChars
  <2>4. NEWLINE \notin Typed
    BY CommandsAssumption DEF Typed, SPACE, NEWLINE
  <2> QED  BY <2>2, <2>3, <2>4
<1>7. FirstWord(f, n)
  BY <1>2, <1>3, <1>5, <1>6 DEF FirstWord
<1>8. /\ Shorter(n, FILE_STR_LEN) = n
      /\ Shorter((f + n + 1) + CMD_LINE_LEN, Len(line)) = Len(line)
      /\ (f + n + 1) + 1 = f + n + 2
  BY <1>1, <1>4, SizesType DEF Shorter
<1>9. /\ parsed(line).name = SubSeq(line, f + 1, f + n)
      /\ parsed(line).args = SubSeq(line, f + n + 2, Len(line))
  <2>1. /\ parsed(line).name = SubSeq(line, f + 1, f + Shorter(n, FILE_STR_LEN))
        /\ parsed(line).args
             = SubSeq(line, (f + Shorter(n, FILE_STR_LEN) + 1) + 1,
                      Shorter((f + Shorter(n, FILE_STR_LEN) + 1) + CMD_LINE_LEN, Len(line)))
    BY DEF parsed, f, n
  <2> QED  BY <1>8, <2>1
<1> QED  BY <1>4, <1>7, <1>9

\* A line has only one first word.
LEMMA OneFirstWord ==
  ASSUME LinePart, NEW f \in Nat, NEW n \in Nat, FirstWord(f, n),
         NEW g \in Nat, NEW m \in Nat, m >= 1, g + m <= Len(line),
         \A k \in 1 .. g : line[k] = SPACE, \A k \in 1 .. m : line[g + k] # SPACE,
         g + m < Len(line) => line[g + m + 1] = SPACE
  PROVE  f = g /\ n = m
<1>1. Len(line) \in Nat /\ f + n <= Len(line)
  BY DEF LinePart, FirstWord
<1>2. f <= g
  <2> SUFFICES ASSUME f > g PROVE FALSE
    OBVIOUS
  <2>1. g + 1 \in 1 .. f /\ 1 \in 1 .. m
    BY <1>1
  <2> QED  BY <2>1 DEF FirstWord
<1>3. g <= f
  <2> SUFFICES ASSUME f < g PROVE FALSE
    OBVIOUS
  <2>1. f + 1 \in 1 .. g /\ f < Len(line)
    BY <1>1
  <2> QED  BY <2>1 DEF FirstWord
<1>4. f = g
  BY <1>2, <1>3
<1>5. n <= m
  <2> SUFFICES ASSUME n > m PROVE FALSE
    OBVIOUS
  <2>1. m + 1 \in 1 .. n /\ g + m < Len(line) /\ f + (m + 1) = g + m + 1
    BY <1>1, <1>4
  <2> QED  BY <2>1 DEF FirstWord
<1>6. m <= n
  <2> SUFFICES ASSUME n < m PROVE FALSE
    OBVIOUS
  <2>1. n + 1 \in 1 .. m /\ f + n < Len(line) /\ g + (n + 1) = f + n + 1
    BY <1>1, <1>4
  <2> QED  BY <2>1 DEF FirstWord
<1> QED  BY <1>4, <1>5, <1>6

\* A line of spaces and a name.
LEMMA StartIs ==
  ASSUME NEW k \in Nat, NEW name \in Seq(Typed)
  PROVE  LET start == [j \in 1 .. k |-> SPACE] \o name IN
         /\ start \in Seq(Typed) /\ Len(start) = k + Len(name)
         /\ \A j \in 1 .. k : start[j] = SPACE
         /\ \A j \in 1 .. Len(name) : start[k + j] = name[j]
<1> DEFINE spaces == [j \in 1 .. k |-> SPACE]
<1>1. SPACE \in Typed
  BY DEF Typed
<1>2. spaces \in Seq(Typed) /\ Len(spaces) = k /\ \A j \in 1 .. k : spaces[j] = SPACE
  BY <1>1
<1> HIDE DEF spaces
<1>3. /\ spaces \o name \in Seq(Typed) /\ Len(spaces \o name) = k + Len(name)
      /\ \A j \in 1 .. k + Len(name) :
           (spaces \o name)[j] = IF j <= k THEN spaces[j] ELSE name[j - k]
  BY <1>2, ConcatProperties
<1>4. Len(name) \in Nat
  OBVIOUS
<1>5. \A j \in 1 .. k : (spaces \o name)[j] = SPACE
  BY <1>2, <1>3, <1>4
<1>6. \A j \in 1 .. Len(name) : (spaces \o name)[k + j] = name[j]
  <2> SUFFICES ASSUME NEW j \in 1 .. Len(name) PROVE (spaces \o name)[k + j] = name[j]
    OBVIOUS
  <2>1. k + j \in 1 .. k + Len(name) /\ ~ (k + j <= k) /\ (k + j) - k = j
    BY <1>4
  <2> QED  BY <1>3, <2>1
<1> QED  BY <1>3, <1>5, <1>6 DEF spaces

\* The same line with a separator and more.
LEMMA WithRest ==
  ASSUME NEW start \in Seq(Typed), NEW rest \in Seq(Typed)
  PROVE  LET all == start \o <<SPACE>> \o rest IN
         /\ all \in Seq(Typed) /\ Len(all) = Len(start) + 1 + Len(rest)
         /\ \A j \in 1 .. Len(start) : all[j] = start[j]
         /\ all[Len(start) + 1] = SPACE
         /\ \A j \in 1 .. Len(rest) : all[Len(start) + 1 + j] = rest[j]
<1> DEFINE l == Len(start)
           r == Len(rest)
<1>0. l \in Nat /\ r \in Nat
  OBVIOUS
<1>1. <<SPACE>> \in Seq(Typed) /\ Len(<<SPACE>>) = 1 /\ <<SPACE>>[1] = SPACE
  BY DEF Typed
<1> DEFINE first == start \o <<SPACE>>
<1>2. /\ first \in Seq(Typed) /\ Len(first) = l + 1
      /\ \A j \in 1 .. l + 1 : first[j] = IF j <= l THEN start[j] ELSE <<SPACE>>[j - l]
  BY <1>1, ConcatProperties
<1>3. (\A j \in 1 .. l : first[j] = start[j]) /\ first[l + 1] = SPACE
  <2>1. \A j \in 1 .. l : j \in 1 .. l + 1 /\ j <= l
    BY <1>0
  <2>2. l + 1 \in 1 .. l + 1 /\ ~ (l + 1 <= l) /\ (l + 1) - l = 1
    BY <1>0
  <2> HIDE DEF first, l
  <2> QED  BY <1>1, <1>2, <2>1, <2>2
<1> HIDE DEF first
<1>4. /\ first \o rest \in Seq(Typed) /\ Len(first \o rest) = (l + 1) + r
      /\ \A j \in 1 .. (l + 1) + r :
           (first \o rest)[j] = IF j <= l + 1 THEN first[j] ELSE rest[j - (l + 1)]
  <2>1. first \in Seq(Typed) /\ Len(first) = l + 1
    BY <1>2
  <2>2. /\ first \o rest \in Seq(Typed) /\ Len(first \o rest) = Len(first) + Len(rest)
        /\ \A j \in 1 .. Len(first) + Len(rest) :
             (first \o rest)[j] = IF j <= Len(first) THEN first[j] ELSE rest[j - Len(first)]
    BY <2>1, ConcatProperties
  <2> QED  BY <2>1, <2>2
<1> HIDE DEF l, r
<1>5. /\ \A j \in 1 .. l : j \in 1 .. (l + 1) + r /\ j <= l + 1
      /\ l + 1 \in 1 .. (l + 1) + r /\ l + 1 <= l + 1
      /\ \A j \in 1 .. r : /\ l + 1 + j \in 1 .. (l + 1) + r /\ ~ (l + 1 + j <= l + 1)
                           /\ (l + 1 + j) - (l + 1) = j
  BY <1>0
<1>6. /\ \A j \in 1 .. l : (first \o rest)[j] = start[j]
      /\ (first \o rest)[l + 1] = SPACE
      /\ \A j \in 1 .. r : (first \o rest)[l + 1 + j] = rest[j]
  BY <1>3, <1>4, <1>5
<1> QED  BY <1>4, <1>6 DEF first, l, r

\* What the line asks for is its first word, if that is a name at all.
LEMMA AsksFirstWord ==
  ASSUME LinePart, NEW name \in Seq(Letters), Len(name) >= 1, NEW rest \in Seq(Typed),
         Asks(name, rest)
  PROVE  name = parsed(line).name
<1>0. name \in Seq(Typed) /\ Len(name) \in Nat /\ Len(rest) \in Nat /\ Len(line) \in Nat
      /\ \A j \in 1 .. Len(name) : name[j] # SPACE
  <2>1. SPACE \notin Letters
    BY CommandsAssumption
  <2> QED  BY <2>1, NameTyped DEF LinePart
<1>1. PICK g \in 0 .. Len(line) :
        LET start == [j \in 1 .. g |-> SPACE] \o name IN
        line = start \/ line = start \o <<SPACE>> \o rest
  BY DEF Asks
<1> DEFINE start == [j \in 1 .. g |-> SPACE] \o name
           m == Len(name)
<1>2. /\ g \in Nat /\ start \in Seq(Typed) /\ Len(start) = g + m
      /\ \A j \in 1 .. g : start[j] = SPACE
      /\ \A j \in 1 .. m : start[g + j] = name[j]
  <2>1. g \in Nat
    BY <1>0
  <2> QED  BY <1>0, <2>1, StartIs
<1>3. line = start \/ line = start \o <<SPACE>> \o rest
  BY <1>1
<1> HIDE DEF start
<1>4. /\ g + m <= Len(line)
      /\ \A j \in 1 .. g + m : line[j] = start[j]
      /\ g + m < Len(line) => line[g + m + 1] = SPACE
  <2>1. CASE line = start
    BY <1>0, <1>2, <2>1
  <2>2. CASE line = start \o <<SPACE>> \o rest
    <3>1. /\ Len(line) = (g + m) + 1 + Len(rest)
          /\ \A j \in 1 .. g + m : line[j] = start[j]
          /\ line[(g + m) + 1] = SPACE
      <4> DEFINE all == start \o <<SPACE>> \o rest
      <4>1. /\ Len(all) = Len(start) + 1 + Len(rest)
            /\ \A j \in 1 .. Len(start) : all[j] = start[j]
            /\ all[Len(start) + 1] = SPACE
        BY <1>2, WithRest
      <4>2. line = all /\ Len(start) = g + m
        BY <1>2, <2>2
      <4> HIDE DEF all
      <4> QED  BY <4>1, <4>2
    <3> QED  BY <1>0, <1>2, <3>1
  <2> QED  BY <1>3, <2>1, <2>2
<1>5. /\ \A j \in 1 .. g : line[j] = SPACE
      /\ \A j \in 1 .. m : line[g + j] = name[j]
  <2>1. /\ \A j \in 1 .. g : j \in 1 .. g + m
        /\ \A j \in 1 .. m : g + j \in 1 .. g + m
    BY <1>0, <1>2
  <2> QED  BY <1>2, <1>4, <2>1
<1>6. PICK f \in Nat, n \in Nat :
        FirstWord(f, n) /\ parsed(line).name = SubSeq(line, f + 1, f + n)
  BY ParsedIs
<1>7. f = g /\ n = m
  <2>1. g \in Nat /\ m \in Nat /\ m >= 1 /\ \A k \in 1 .. m : line[g + k] # SPACE
    BY <1>0, <1>2, <1>5
  <2> HIDE DEF m
  <2>2. /\ g + m <= Len(line)
        /\ g + m < Len(line) => line[g + m + 1] = SPACE
        /\ \A k \in 1 .. g : line[k] = SPACE
    BY <1>4, <1>5
  <2> QED  BY <1>6, <2>1, <2>2, OneFirstWord
<1>8. \A j \in f + 1 .. f + n : line[j] \in Typed
  <2>1. \A j \in 1 .. Len(line) : line[j] \in Typed
    BY DEF LinePart
  <2> QED  BY <1>0, <1>2, <1>4, <1>7, <2>1
<1> DEFINE s == SubSeq(line, f + 1, f + n)
<1>9. /\ s \in Seq(Typed) /\ Len(s) = m /\ \A j \in 1 .. m : s[j] = line[f + j]
  <2>1. /\ s \in Seq(Typed)
        /\ Len(s) = IF f + 1 <= f + n THEN (f + n) - (f + 1) + 1 ELSE 0
        /\ \A j \in 1 .. (f + n) - (f + 1) + 1 : s[j] = line[(f + 1) + j - 1]
    <3>1. f + 1 \in Int /\ f + n \in Int
      OBVIOUS
    <3> QED  BY <1>8, <3>1, SubSeqProperties
  <2>2. /\ (IF f + 1 <= f + n THEN (f + n) - (f + 1) + 1 ELSE 0) = m
        /\ (f + n) - (f + 1) + 1 = m /\ \A j \in 1 .. m : (f + 1) + j - 1 = f + j
    BY <1>0, <1>7
  <2> HIDE DEF s
  <2> QED  BY <2>1, <2>2
<1> HIDE DEF s
<1>10. s = name
  BY <1>0, <1>5, <1>7, <1>9, SeqEqual
<1> QED  BY <1>6, <1>10 DEF s

\* What sys_execute makes of the line is what the line asks for.
LEMMA AsksParsed ==
  ASSUME LinePart PROVE Asks(parsed(line).name, parsed(line).args)
<1>0. line \in Seq(Typed) /\ Len(line) \in Nat /\ \A k \in 1 .. Len(line) : line[k] \in Typed
  BY DEF LinePart
<1>1. PICK f \in Nat, n \in Nat :
        /\ FirstWord(f, n)
        /\ parsed(line).name = SubSeq(line, f + 1, f + n)
        /\ parsed(line).args = SubSeq(line, f + n + 2, Len(line))
  BY ParsedIs
<1> DEFINE name == parsed(line).name
           rest == parsed(line).args
           start == [j \in 1 .. f |-> SPACE] \o name
<1>2. f + n <= Len(line) /\ f \in 0 .. Len(line)
  BY <1>0, <1>1 DEF FirstWord
<1>3. name \in Seq(Typed) /\ Len(name) = n /\ \A j \in 1 .. n : name[j] = line[f + j]
  <2> DEFINE s == SubSeq(line, f + 1, f + n)
  <2>1. f + 1 \in Int /\ f + n \in Int /\ \A j \in f + 1 .. f + n : line[j] \in Typed
    BY <1>0, <1>2
  <2>2. /\ s \in Seq(Typed)
        /\ Len(s) = IF f + 1 <= f + n THEN (f + n) - (f + 1) + 1 ELSE 0
        /\ \A j \in 1 .. (f + n) - (f + 1) + 1 : s[j] = line[(f + 1) + j - 1]
    BY <2>1, SubSeqProperties
  <2>3. /\ (IF f + 1 <= f + n THEN (f + n) - (f + 1) + 1 ELSE 0) = n
        /\ (f + n) - (f + 1) + 1 = n /\ \A j \in 1 .. n : (f + 1) + j - 1 = f + j
    OBVIOUS
  <2>4. name = s
    BY <1>1
  <2> HIDE DEF s, name
  <2> QED  BY <2>2, <2>3, <2>4
<1>4. /\ rest \in Seq(Typed)
      /\ f + n < Len(line) => /\ Len(rest) = Len(line) - (f + n + 1)
                              /\ \A j \in 1 .. Len(rest) : rest[j] = line[f + n + 1 + j]
      /\ f + n = Len(line) => rest = << >>
  <2>0. PICK a \in Nat : a = f + n + 2
    OBVIOUS
  <2> DEFINE s == SubSeq(line, a, Len(line))
  <2>1. a \in Int /\ Len(line) \in Int /\ \A j \in a .. Len(line) : line[j] \in Typed
    BY <1>0, <1>2, <2>0
  <2>2. /\ s \in Seq(Typed)
        /\ Len(s) = IF a <= Len(line) THEN Len(line) - a + 1 ELSE 0
        /\ \A j \in 1 .. Len(line) - a + 1 : s[j] = line[a + j - 1]
    BY <2>1, SubSeqProperties
  <2>3. /\ f + n < Len(line) =>
             (IF a <= Len(line) THEN Len(line) - a + 1 ELSE 0) = Len(line) - (f + n + 1)
        /\ Len(line) - a + 1 = Len(line) - (f + n + 1)
        /\ \A j \in 1 .. Len(line) - (f + n + 1) : a + j - 1 = f + n + 1 + j
    BY <1>0, <1>2, <2>0
  <2>4. f + n = Len(line) => s = << >>
    <3>1. f + n = Len(line) => Len(line) < a
      BY <1>0, <2>0
    <3> QED  BY <2>1, <3>1, SubSeqEmpty
  <2>5. rest = s
    BY <1>1, <2>0
  <2> HIDE DEF s, rest
  <2> QED  BY <2>2, <2>3, <2>4, <2>5
<1> HIDE DEF name, rest
<1>5. /\ start \in Seq(Typed) /\ Len(start) = f + n
      /\ \A j \in 1 .. f : start[j] = SPACE
      /\ \A j \in 1 .. n : start[f + j] = name[j]
  BY <1>3, StartIs
<1> HIDE DEF start
<1>6. \A j \in 1 .. f + n : start[j] = line[j]
  <2> SUFFICES ASSUME NEW j \in 1 .. f + n PROVE start[j] = line[j]
    OBVIOUS
  <2>1. CASE j <= f
    <3>1. j \in 1 .. f
      BY <2>1
    <3> QED  BY <1>1, <1>5, <3>1 DEF FirstWord
  <2>2. CASE j > f
    <3>1. j - f \in 1 .. n /\ f + (j - f) = j
      BY <2>2
    <3> QED  BY <1>3, <1>5, <3>1
  <2> QED  BY <2>1, <2>2
<1>7. CASE f + n = Len(line)
  <2>1. line = start
    BY <1>0, <1>5, <1>6, <1>7, SeqEqual
  <2> QED  BY <1>2, <1>4, <1>7, <2>1 DEF Asks, start, name, rest
<1>8. CASE f + n < Len(line)
  <2> DEFINE all == start \o <<SPACE>> \o rest
  <2>1. /\ all \in Seq(Typed) /\ Len(all) = Len(start) + 1 + Len(rest)
        /\ \A j \in 1 .. Len(start) : all[j] = start[j]
        /\ all[Len(start) + 1] = SPACE
        /\ \A j \in 1 .. Len(rest) : all[Len(start) + 1 + j] = rest[j]
    BY <1>4, <1>5, WithRest
  <2> HIDE DEF all
  <2>2. Len(rest) = Len(line) - (f + n + 1) /\ Len(all) = Len(line)
    BY <1>0, <1>4, <1>5, <1>8, <2>1
  <2>3. \A j \in 1 .. Len(line) : line[j] = all[j]
    <3> SUFFICES ASSUME NEW j \in 1 .. Len(line) PROVE line[j] = all[j]
      OBVIOUS
    <3>1. CASE j <= f + n
      <4>1. j \in 1 .. f + n
        BY <3>1
      <4> QED  BY <1>5, <1>6, <2>1, <4>1
    <3>2. CASE j = f + n + 1
      BY <1>1, <1>5, <1>8, <2>1, <3>2 DEF FirstWord
    <3>3. CASE j > f + n + 1
      <4>1. PICK r \in 1 .. Len(rest) : f + n + 1 + r = j
        <5>1. j - (f + n + 1) \in 1 .. Len(rest) /\ f + n + 1 + (j - (f + n + 1)) = j
          BY <1>0, <2>2, <3>3
        <5> QED  BY <5>1
      <4>2. rest[r] = line[j]
        BY <1>4, <1>8, <4>1
      <4>3. all[Len(start) + 1 + r] = rest[r] /\ Len(start) + 1 + r = j
        BY <1>5, <2>1, <4>1
      <4> QED  BY <4>2, <4>3
    <3> QED  BY <3>1, <3>2, <3>3
  <2>4. line = all
    BY <1>0, <2>1, <2>2, <2>3, SeqEqual
  <2> QED  BY <1>2, <2>4 DEF Asks, start, name, rest, all
<1> QED  BY <1>0, <1>2, <1>7, <1>8

\* IsProgram says of an entry that its file starts with the magic characters.
LEMMA ProgramIs ==
  ASSUME NEW e \in DOMAIN Directory
  PROVE  IsProgram(e) <=> HasMagic(disk, EntryInodes[e])
<1> DEFINE n == EntryInodes[e]
           t == Text(n)
<1>1. n \in 0 .. NumInodes - 1 /\ ELF_SIZE \in Nat /\ ELF \in Seq(STRING) /\ Len(ELF) = ELF_SIZE
  BY EntryType, CommandsAssumption DEF ELF_SIZE
<1> HIDE DEF n
<1>2. inode(n).length \in Nat
  BY <1>1, ImageType
<1>3. Contents(n) \in Seq(FileBytes(n)) /\ Len(Contents(n)) = inode(n).length
  BY <1>1, ContentsAre
<1>4. PICK S : t \in Seq(S)
  BY <1>3, CharsAre DEF Text
<1>5. Len(t) = inode(n).length /\ \A k \in 1 .. Len(t) : t[k] = disk[Contents(n)[k]]
  BY <1>3, CharsAre DEF Text
<1> HIDE DEF t
<1>6. IsProgram(e) <=> Len(t) >= ELF_SIZE /\ SubSeq(t, 1, ELF_SIZE) = ELF
  BY DEF IsProgram, t, n
<1>7. CASE Len(t) >= ELF_SIZE
  <2> DEFINE s == SubSeq(t, 1, ELF_SIZE)
  <2>1. \A k \in 1 .. ELF_SIZE : t[k] \in S /\ k \in 1 .. Len(t)
    BY <1>1, <1>2, <1>4, <1>5, <1>7, ElementOfSeq
  <2>2. /\ s \in Seq(S) /\ Len(s) = IF 1 <= ELF_SIZE THEN ELF_SIZE - 1 + 1 ELSE 0
        /\ \A k \in 1 .. ELF_SIZE - 1 + 1 : s[k] = t[1 + k - 1]
    BY <1>1, <2>1, SubSeqProperties
  <2>3. /\ (IF 1 <= ELF_SIZE THEN ELF_SIZE - 1 + 1 ELSE 0) = ELF_SIZE /\ ELF_SIZE - 1 + 1 = ELF_SIZE
        /\ \A k \in 1 .. ELF_SIZE : 1 + k - 1 = k
    BY <1>1
  <2> HIDE DEF s
  <2>4. Len(s) = ELF_SIZE /\ \A k \in 1 .. ELF_SIZE : s[k] = disk[Contents(n)[k]]
    BY <1>5, <2>1, <2>2, <2>3
  <2>5. s = ELF <=> \A k \in 1 .. ELF_SIZE : s[k] = ELF[k]
    <3>1. (\A k \in 1 .. ELF_SIZE : s[k] = ELF[k]) => s = ELF
      <4>1. s \in Seq(S \cup STRING) /\ ELF \in Seq(S \cup STRING)
        BY <1>1, <2>2
      <4> QED  BY <1>1, <2>4, <4>1, SeqEqual
    <3> QED  BY <3>1
  <2>6. HasMagic(disk, n) <=> \A k \in 1 .. ELF_SIZE : disk[Contents(n)[k]] = ELF[k]
    BY <1>5, <1>7 DEF HasMagic
  <2> QED  BY <1>6, <1>7, <2>4, <2>5, <2>6 DEF n, s
<1>8. CASE ~ (Len(t) >= ELF_SIZE)
  BY <1>5, <1>6, <1>8 DEF HasMagic, n
<1> QED  BY <1>7, <1>8

-----------------------------------------------------------------------------
(* What sys_execute knows of the line at each of its places. *)

\* No two entries of the directory have the same name.
DistinctNames == \A d, e \in DOMAIN Directory : Directory[d] = Directory[e] => d = e

Finding == {"find", "magic", "check_magic", "load"}
Found   == {"magic", "check_magic", "load"}

NoSuchProgram ==
  \A e \in DOMAIN Directory :
    Directory[e] = parsed(line).name => ~ HasMagic(disk, EntryInodes[e])

RunPart ==
  /\ at \in Finding => f_cmd = parsed(line).name /\ cmd_args = parsed(line).args
  /\ at \in Found => Directory[entry + 1] = f_cmd
  /\ at = "report" /\ rval = -1 => NoSuchProgram
  /\ at = "halt" => rval # -1

\* The invariant is what RunsWhatWasTyped says, in terms of the code.
LEMMA RunPartIs ==
  ASSUME ProgramsStrong, RunPart PROVE RunsWhatWasTyped
<1>0. LinePart /\ LoadPart
  BY DEF ProgramsStrong
<1>1. at = "load" => Asks(Directory[entry + 1], cmd_args) /\ IsProgram(entry + 1)
  <2> SUFFICES ASSUME at = "load"
               PROVE  Asks(Directory[entry + 1], cmd_args) /\ IsProgram(entry + 1)
    OBVIOUS
  <2>1. entry + 1 \in DOMAIN Directory /\ HasMagic(disk, EntryInodes[entry + 1])
    BY <1>0 DEF LoadPart, AskedFor, Inode
  <2>2. Directory[entry + 1] = parsed(line).name /\ cmd_args = parsed(line).args
    BY DEF RunPart, Finding, Found
  <2> QED  BY <1>0, <2>1, <2>2, AsksParsed, ProgramIs
<1>2. ASSUME at = "report", rval = -1,
             NEW e \in DOMAIN Directory, NEW k \in 1 .. Len(line) + 1,
             Asks(Directory[e], SubSeq(line, k, Len(line)))
      PROVE  ~ IsProgram(e)
  <2>1. Directory[e] \in Seq(Letters) /\ Len(Directory[e]) >= 1
    BY ImageType
  <2>2. SubSeq(line, k, Len(line)) \in Seq(Typed)
    <3>1. Len(line) \in Nat /\ \A j \in 1 .. Len(line) : line[j] \in Typed
      BY <1>0 DEF LinePart
    <3>2. k \in Int /\ Len(line) \in Int /\ \A j \in k .. Len(line) : line[j] \in Typed
      BY <3>1
    <3> QED  BY <3>2, SubSeqProperties
  <2>3. Directory[e] = parsed(line).name
    BY <1>0, <1>2, <2>1, <2>2, AsksFirstWord
  <2> QED  BY <1>2, <2>3, ProgramIs DEF RunPart, NoSuchProgram
<1> QED  BY <1>1, <1>2 DEF RunsWhatWasTyped

\* A step that leaves the line alone and stays where it is.
LEMMA RunSame ==
  ASSUME RunPart, UNCHANGED <<session, at, rval>> PROVE RunPart'
BY DEF RunPart, NoSuchProgram, HasMagic, inode, ELF_SIZE, Contents, session

\* The programs end with a status that is not -1, and never go to the kernel's places.
LEMMA RunInProgram ==
  ASSUME at' \notin Finding \cup {"report"}, at' = "halt" => rval' # -1
  PROVE  RunPart'
BY DEF RunPart, Finding, Found

\* sys_execute parses the line.
LEMMA RunParse ==
  ASSUME RunPart, parse_command PROVE RunPart'
<1>1. /\ at' = "find" /\ f_cmd' = parsed(line).name /\ cmd_args' = parsed(line).args
      /\ line' = line
  BY DEF parse_command
<1>2. parsed(line)' = parsed(line)
  BY <1>1
<1> QED  BY <1>1, <1>2 DEF RunPart, Finding, Found

\* A name that is not found is that of no entry.
LEMMA RunFind ==
  ASSUME ProgramsStrong, RunPart, find_command PROVE RunPart'
<1>1. /\ at = "find" /\ read_dentry_by_name(f_cmd) /\ entry' = result'
      /\ at' = (IF result' = -1 THEN "report" ELSE "magic")
      /\ UNCHANGED <<disk, line, f_cmd, cmd_args>>
  BY DEF find_command, execute_returns
<1>2. f_cmd \in Seq(Typed)
  BY NameTyped DEF ProgramsStrong, LinePart
<1>3. result' = lookup(f_cmd)
  BY <1>1, <1>2, LookupStep
<1>4. f_cmd = parsed(line).name /\ cmd_args = parsed(line).args
  BY <1>1 DEF RunPart, Finding
<1>5. CASE result' = -1
  <2>1. \A e \in DOMAIN Directory : Directory[e] # f_cmd
    <3>1. IF \E k \in DOMAIN Directory : Directory[k] = f_cmd
            THEN lookup(f_cmd) >= 0 /\ Directory[lookup(f_cmd) + 1] = f_cmd
            ELSE lookup(f_cmd) = -1
      BY <1>2, LookupFinds
    <3>2. ~ (lookup(f_cmd) >= 0)
      BY <1>3, <1>5
    <3> QED  BY <3>1, <3>2
  <2>2. NoSuchProgram'
    BY <1>1, <1>4, <2>1 DEF NoSuchProgram
  <2> QED  BY <1>1, <1>5, <2>2 DEF RunPart, Finding, Found
<1>6. CASE result' # -1
  <2>1. Directory[entry' + 1] = f_cmd
    BY <1>1, <1>2, <1>3, <1>6, LookupType
  <2> QED  BY <1>1, <1>4, <1>6, <2>1 DEF RunPart, Finding, Found
<1> QED  BY <1>5, <1>6

\* The magic characters are read.
LEMMA RunMagic ==
  ASSUME RunPart, read_magic PROVE RunPart'
<1>1. at = "magic" /\ at' = "check_magic" /\ UNCHANGED session
  BY DEF read_magic
<1> QED  BY <1>1 DEF RunPart, Finding, Found, session

\* A file that is refused does not start with the magic characters.
LEMMA RunCheckMagic ==
  ASSUME DistinctNames, ProgramsStrong, RunPart, check_magic PROVE RunPart'
<1>1. /\ at = "check_magic" /\ pc = "idle" /\ UNCHANGED session
      /\ \/ at' = "load"
         \/ at' = "report" /\ rval' = FUNNY_NUMBER
         \/ at' = "report" /\ ~ IsExecutable
  BY DEF check_magic, execute_returns
<1>2. /\ f_cmd = parsed(line).name /\ cmd_args = parsed(line).args
      /\ Directory[entry + 1] = f_cmd /\ entry + 1 \in DOMAIN Directory
  BY <1>1 DEF RunPart, Finding, Found, ProgramsStrong, LoadPart, AskedFor
<1>3. CASE at' = "load"
  BY <1>1, <1>2, <1>3 DEF RunPart, Finding, Found, session
<1>4. CASE at' = "report" /\ rval' = FUNNY_NUMBER
  BY <1>4 DEF RunPart, Finding, Found, FUNNY_NUMBER
<1>5. CASE at' = "report" /\ ~ IsExecutable
  <2>1. ~ HasMagic(disk, EntryInodes[entry + 1])
    BY <1>1, <1>5, MagicIs DEF Inode
  <2>2. \A e \in DOMAIN Directory : Directory[e] = parsed(line).name => e = entry + 1
    BY <1>2 DEF DistinctNames
  <2>3. NoSuchProgram
    BY <2>1, <2>2 DEF NoSuchProgram
  <2>4. NoSuchProgram'
    BY <1>1, <2>3 DEF NoSuchProgram, HasMagic, inode, ELF_SIZE, Contents, session
  <2> QED  BY <1>5, <2>4 DEF RunPart, Finding, Found
<1> QED  BY <1>1, <1>3, <1>4, <1>5

\* The program starts.
LEMMA RunStart ==
  ASSUME ProgramsStrong, start_program PROVE RunPart'
<1>1. at' \in Codes
  BY StartsAProgram
<1> QED  BY <1>1, RunInProgram
         DEF Finding, Codes, CAT, LS, GREP, COUNTER, SIGTEST, OWN, FISH

\* What a program does is no concern of sys_execute.
InProgram == at' \notin Finding \cup {"report"} /\ (at' = "halt" => rval' # -1)

\* cat and ls.
LEMMA RunCatLs == ASSUME cat \/ ls PROVE InProgram
<1>1. CASE cat
  BY <1>1 DEF InProgram, Finding, cat, cat_args, cat_open, cat_read, cat_write, ArgsOr, OpenOr,
              ReadThen, GoTo, return
<1>2. CASE ls
  BY <1>2 DEF InProgram, Finding, ls, ls_open, ls_read, ls_write, OpenOr, ReadThen, GoTo, return
<1> QED  BY <1>1, <1>2

\* grep.
LEMMA RunGrep == ASSUME ProgramsStrong, grep PROVE InProgram
<1>1. CASE grep_args \/ grep_dir \/ grep_next \/ grep_open
  BY <1>1 DEF InProgram, Finding, grep_args, grep_dir, grep_next, grep_open, ArgsOr, OpenOr,
              ReadThen, GoTo, return
<1>2. CASE grep_name \/ grep_close
  BY <1>2 DEF InProgram, Finding, grep_name, grep_close, GoTo, return
<1>3. CASE grep_read \/ grep_got \/ grep_line
  <2>1. at' \in {"grep_read", "grep_got", "grep_line", "grep_close"}
    BY <1>3, GrepFileStep
  <2> QED  BY <2>1 DEF InProgram, Finding
<1> QED  BY <1>1, <1>2, <1>3 DEF grep

\* counter, sigtest and a program of the user's own.
LEMMA RunSmall ==
  ASSUME counter_choice \/ counter_loop \/ sigtest_args \/ sigtest_fault \/ own PROVE InProgram
<1>1. CASE counter_choice
  BY <1>1 DEF InProgram, Finding, counter_choice, GoTo, return
<1>2. CASE counter_loop
  BY <1>2 DEF InProgram, Finding, counter_loop, GoTo, return
<1>3. CASE sigtest_args \/ sigtest_fault
  BY <1>3 DEF InProgram, Finding, sigtest_args, sigtest_fault, ArgsOr, GoTo, return, EXCEPTION_HALT
<1>4. CASE own
  BY <1>4 DEF InProgram, Finding, own, own_call, own_end, GoTo, return
<1> QED  BY <1>1, <1>2, <1>3, <1>4

\* fish.
LEMMA RunFish == ASSUME fish PROVE InProgram
<1>1. CASE fish_open_rtc \/ fish_open1 \/ fish_open2
  <2>1. CASE fish_open_rtc
    <3>1. at' = "fish_open1"
      BY <2>1 DEF fish_open_rtc, GoTo
    <3> QED  BY <3>1 DEF InProgram, Finding
  <2>2. CASE fish_open1 \/ fish_open2
    <3>1. OpenOr(Frames[1], "fish_open2", 255) \/ OpenOr(Frames[2], "fish_read", 255)
      BY <2>2 DEF fish_open1, fish_open2
    <3>2. at' \in {"fish_open2", "fish_read"} \/ (at' = "halt" /\ rval' = 255)
      BY <3>1 DEF OpenOr, GoTo, return
    <3> QED  BY <3>2 DEF InProgram, Finding
  <2> QED  BY <1>1, <2>1, <2>2
<1>2. CASE fish_read \/ fish_skip \/ fish_got \/ fish_pair \/ fish_row
  BY <1>2 DEF InProgram, Finding, fish_read, fish_skip, fish_got, fish_pair, fish_row, ReadThen,
              GoTo, NextPlace
<1>3. CASE fish_tick \/ fish_ioctl \/ fish_end
  <2>1. (at = "fish_wait" /\ at' = at) \/ (at' = "halt" /\ rval' = 0)
    BY <1>3 DEF fish_tick, fish_ioctl, fish_end, return
  <2> QED  BY <2>1 DEF InProgram, Finding
<1> QED  BY <1>1, <1>2, <1>3 DEF fish

\* Every step keeps what sys_execute knows.
LEMMA RunStep ==
  ASSUME DistinctNames, ProgramsStrong, RunPart, [FishNext]_fishvars PROVE RunPart'
<1>1. CASE TypesLine
  <2>1. CASE read_line
    <3>1. (at' = at /\ at = "prompt") \/ at' = "parse"
      BY <2>1 DEF read_line
    <3> QED  BY <3>1 DEF RunPart, Finding, Found
  <2>2. CASE counter_choice \/ sigtest_fault
    BY <2>2, RunSmall, RunInProgram DEF InProgram
  <2> QED  BY <1>1, <2>1, <2>2 DEF TypesLine
<1>2. CASE kernel
  <2>1. CASE parse_command
    BY <2>1, RunParse
  <2>2. CASE find_command
    BY <2>2, RunFind
  <2>3. CASE read_magic
    BY <2>3, RunMagic
  <2>4. CASE check_magic
    BY <2>4, RunCheckMagic
  <2>5. CASE start_program
    BY <2>5, RunStart
  <2>6. CASE copying \/ copied
    <3>1. UNCHANGED <<session, at, rval>>
      BY <2>6 DEF copying, copied
    <3> QED  BY <3>1, RunSame
  <2>7. CASE halt
    <3>1. at = "halt" /\ at' = "report" /\ rval' = rval
      BY <2>7 DEF halt
    <3> QED  BY <3>1 DEF RunPart, Finding, Found
  <2> QED  BY <1>2, <2>1, <2>2, <2>3, <2>4, <2>5, <2>6, <2>7 DEF kernel
<1>3. CASE cat \/ ls \/ grep \/ counter_loop \/ sigtest_args \/ own
  BY <1>3, RunCatLs, RunGrep, RunSmall, RunInProgram DEF InProgram
<1>4. CASE shell_reports
  <2>1. at' = "prompt"
    BY <1>4 DEF shell_reports, report
  <2> QED  BY <2>1 DEF RunPart, Finding, Found
<1>5. CASE fish
  BY <1>5, RunFish, RunInProgram DEF InProgram
<1>6. CASE UNCHANGED fishvars
  <2>1. UNCHANGED <<session, at, rval>>
    BY <1>6 DEF fishvars, vars, cvars
  <2> QED  BY <2>1, RunSame
<1> QED  BY <1>1, <1>2, <1>3, <1>4, <1>5, <1>6 DEF FishNext, FishRunning, Progress

(***************************************************************************)
(* If no two entries of the directory have the same name, sys_execute      *)
(* starts exactly the program that the first word of the line names, with  *)
(* what follows one separator as its arguments, and refuses a line only    *)
(* when its first word is not the name of an executable.                   *)
(***************************************************************************)
THEOREM RunsCorrect == ASSUME DistinctNames PROVE FishSpec => []RunsWhatWasTyped
<1>1. FishInit => RunPart
  BY DEF FishInit, ProgramsInit, CommandsInit, RunPart, Finding, Found
<1>2. ProgramsStrong /\ RunPart /\ [FishNext]_fishvars => RunPart'
  BY RunStep
<1>3. ProgramsStrong /\ RunPart => RunsWhatWasTyped
  BY RunPartIs
<1> QED  BY <1>1, <1>2, <1>3, ProgramsAlways, PTL DEF FishSpec

-----------------------------------------------------------------------------
(***************************************************************************)
(* The list of blinking characters.  That it is sound says nothing of how  *)
(* it goes through the elements; the invariant names the elements in the   *)
(* order of the list.                                                      *)
(***************************************************************************)

\* path goes through m elements, each of them once: all that are in use.
IsList(m, path) ==
  /\ \A j, k \in 0 .. m - 1 : path[j] = path[k] => j = k
  /\ \A s \in Slots : blink_array[s].location # 0 <=> \E k \in 0 .. m - 1 : path[k] = s
  /\ mp1_list_head = (IF m = 0 THEN NULL ELSE path[0])
  /\ \A k \in 0 .. m - 1 : next[path[k]] = IF k = m - 1 THEN NULL ELSE path[k + 1]

ListPart == \E m \in Nat : \E path \in [0 .. m - 1 -> Slots] : IsList(m, path)

\* As many elements as there are, at most.
LEMMA ListFits ==
  ASSUME NEW m \in Nat, NEW path \in [0 .. m - 1 -> Slots],
         \A j, k \in 0 .. m - 1 : path[j] = path[k] => j = k
  PROVE  m <= NumSlots
<1>0. NumSlots \in Nat \ {0} /\ Slots = 1 .. NumSlots
  BY BlinkAssumption DEF Slots
<1>1. IsFiniteSet(Slots) /\ Cardinality(Slots) = NumSlots
  BY <1>0, FS_Interval
<1>2. Cardinality(0 .. m - 1) = m
  <2>1. PICK n \in Int : n = m - 1
    OBVIOUS
  <2>2. Cardinality(0 .. n) = IF 0 > n THEN 0 ELSE n - 0 + 1
    BY FS_Interval
  <2> QED  BY <2>1, <2>2
<1>3. path \in Injection(0 .. m - 1, Slots)
  BY DEF Injection, IsInjective
<1>4. Cardinality(0 .. m - 1) <= Cardinality(Slots)
  BY <1>1, <1>3, FS_Injection
<1> QED  BY <1>1, <1>2, <1>4

\* The definition of nth has a solution, which goes along the path.
LEMMA NthIs ==
  ASSUME NEW m \in Nat, NEW path \in [0 .. m - 1 -> Slots], IsList(m, path), next[NULL] = NULL
  PROVE  \A n \in 0 .. NumSlots : nth[n] = IF n < m THEN path[n] ELSE NULL
<1>0. NumSlots \in Nat \ {0} /\ NULL = 0
  BY BlinkAssumption DEF NULL
<1> DEFINE along == [n \in 0 .. NumSlots |-> IF n < m THEN path[n] ELSE NULL]
           Solves(g) == g = [n \in 0 .. NumSlots |-> IF n = 0 THEN mp1_list_head
                                                      ELSE next[g[n - 1]]]
<1>1. Solves(along)
  <2>1. ASSUME NEW n \in 0 .. NumSlots
        PROVE  along[n] = IF n = 0 THEN mp1_list_head ELSE next[along[n - 1]]
    <3>1. CASE n = 0
      BY <1>0, <3>1 DEF IsList
    <3>2. CASE n # 0
      <4>1. n - 1 \in 0 .. NumSlots /\ n - 1 \in Nat
        BY <1>0, <3>2
      <4>2. along[n - 1] = IF n - 1 < m THEN path[n - 1] ELSE NULL
        BY <4>1
      <4>3. CASE n - 1 < m
        <5>1. n - 1 \in 0 .. m - 1 /\ n - 1 + 1 = n
          BY <4>1, <4>3
        <5>2. PICK k \in 0 .. m - 1 : k = n - 1
          BY <5>1
        <5>3. next[path[k]] = IF k = m - 1 THEN NULL ELSE path[k + 1]
          BY DEF IsList
        <5> QED  BY <3>2, <4>2, <4>3, <5>1, <5>2, <5>3
      <4>4. CASE ~ (n - 1 < m)
        <5>1. along[n - 1] = NULL /\ ~ (n < m)
          BY <4>1, <4>2, <4>4
        <5> QED  BY <3>2, <5>1
      <4> QED  BY <4>3, <4>4
    <3> QED  BY <3>1, <3>2
  <2> QED  BY <2>1
<1>2. Solves(nth)
  BY <1>1 DEF nth
<1> HIDE DEF along
<1>3. along = nth
  <2> DEFINE differ == {n \in 0 .. NumSlots : along[n] # nth[n]}
  <2>1. ASSUME differ # {} PROVE FALSE
    <3>1. differ \in SUBSET Nat
      BY <1>0
    <3>2. PICK n \in differ : \A j \in differ : n <= j
      BY <2>1, <3>1, LeastOf
    <3>3. n # 0
      BY <1>1, <1>2, <3>2, <1>0
    <3>4. n - 1 \in 0 .. NumSlots /\ n - 1 \notin differ
      BY <1>0, <3>2, <3>3
    <3>5. along[n] = nth[n]
      BY <1>1, <1>2, <3>2, <3>3, <3>4
    <3> QED  BY <3>2, <3>5
  <2>2. \A n \in 0 .. NumSlots : along[n] = nth[n]
    BY <2>1
  <2> QED  BY <1>1, <1>2, <2>2
<1> QED  BY <1>3 DEF along

\* The elements of the list are those on the path.
LEMMA ListedIs ==
  ASSUME NEW m \in Nat, NEW path \in [0 .. m - 1 -> Slots], IsList(m, path), next[NULL] = NULL
  PROVE  /\ Listed = {path[k] : k \in 0 .. m - 1}
         /\ Listed = {s \in Slots : blink_array[s].location # 0}
         /\ nth[NumSlots] = NULL /\ m <= NumSlots
<1>0. NumSlots \in Nat \ {0} /\ NULL = 0 /\ NULL \notin Slots
  BY BlinkAssumption DEF NULL, Slots
<1>1. m <= NumSlots
  BY ListFits DEF IsList
<1>2. \A n \in 0 .. NumSlots : nth[n] = IF n < m THEN path[n] ELSE NULL
  BY NthIs
<1>3. \A k \in 0 .. m - 1 : path[k] \in Slots /\ k \in 0 .. NumSlots /\ nth[k] = path[k]
  BY <1>0, <1>1, <1>2
<1>4. Listed = {path[k] : k \in 0 .. m - 1}
  <2>1. CASE m = 0
    BY <1>0, <2>1 DEF Listed, IsList
  <2>2. CASE m # 0
    <3>1. mp1_list_head # NULL
      BY <1>0, <1>3, <2>2 DEF IsList
    <3>2. Listed = {nth[n] : n \in 0 .. NumSlots} \ {NULL}
      BY <3>1 DEF Listed
    <3>3. ASSUME NEW s \in Listed PROVE s \in {path[k] : k \in 0 .. m - 1}
      <4>1. PICK n \in 0 .. NumSlots : s = nth[n] /\ s # NULL
        BY <3>2
      <4>2. n < m /\ s = path[n]
        BY <1>2, <4>1
      <4> QED  BY <4>1, <4>2
    <3>4. ASSUME NEW k \in 0 .. m - 1 PROVE path[k] \in Listed
      BY <1>0, <1>3, <3>2
    <3> QED  BY <3>3, <3>4
  <2> QED  BY <2>1, <2>2
<1>5. Listed = {s \in Slots : blink_array[s].location # 0}
  BY <1>3, <1>4 DEF IsList
<1>6. nth[NumSlots] = NULL
  BY <1>0, <1>1, <1>2
<1> QED  BY <1>1, <1>4, <1>5, <1>6

\* The elements that are in use.
InUse == {s \in Slots : blink_array[s].location # 0}

Fields ==
  {"location", "on_char", "off_char", "on_length", "off_length", "countdown", "status", "born"}

ArrayPart ==
  /\ DOMAIN blink_array = Slots /\ blink_array = [s \in Slots |-> blink_array[s]]
  /\ \A s \in Slots : DOMAIN blink_array[s] = Fields /\ blink_array[s].location \in Cells
  /\ next \in [Slots \cup {NULL} -> Slots \cup {NULL}] /\ next[NULL] = NULL
  /\ DOMAIN vmem = Cells /\ vmem = [c \in Cells |-> vmem[c]]
  /\ ticks \in Nat

\* Where a character is in its period.
Phase(b) == (ticks - b.born) % (b.on_length + b.off_length)

\* The counter and the status agree with the clock.
InPhase(b) ==
  /\ b.on_length \in Nat \ {0} /\ b.off_length \in Nat \ {0}
  /\ b.born \in Nat /\ ticks - b.born \in Nat
  /\ IF Phase(b) < b.on_length
       THEN b.status = 1 /\ b.countdown = b.on_length - Phase(b)
       ELSE b.status = 0 /\ b.countdown = b.on_length + b.off_length - Phase(b)

TimePart == \A s \in InUse : InPhase(blink_array[s])

\* What was not drawn over has its place alone, and is there.
DrawnPart ==
  /\ disturbed \subseteq InUse
  /\ \A s \in InUse \ disturbed :
       /\ \A t \in InUse \ {s} : blink_array[t].location # blink_array[s].location
       /\ vmem[blink_array[s].location] =
            IF blink_array[s].status = 1 THEN blink_array[s].on_char ELSE blink_array[s].off_char

Agree(b, d) ==
  /\ b.on_length = d.on_length /\ b.off_length = d.off_length
  /\ b.countdown = d.countdown /\ b.status = d.status

StepPart ==
  \A p \in in_step : p \subseteq InUse /\ \A s, t \in p : Agree(blink_array[s], blink_array[t])

BlinkStrong == ArrayPart /\ ListPart /\ TimePart /\ DrawnPart /\ StepPart

\* A number of periods leaves no remainder.
LEMMA PeriodsLeave ==
  ASSUME NEW p \in Nat \ {0}, NEW q \in Int, NEW r \in 0 .. p - 1
  PROVE  (p * q + r) % p = r
OBVIOUS

\* The remainder counts up and starts again.
LEMMA NextPhase ==
  ASSUME NEW x \in Nat, NEW p \in Nat \ {0}
  PROVE  /\ x % p \in 0 .. p - 1
         /\ (x + 1) % p = IF x % p = p - 1 THEN 0 ELSE (x % p) + 1
<1>1. x % p \in 0 .. p - 1 /\ x \div p \in Int /\ x = (p * (x \div p)) + (x % p)
  OBVIOUS
<1>2. PICK q \in Int, r \in 0 .. p - 1 : x = p * q + r /\ x % p = r
  BY <1>1
<1>3. CASE r = p - 1
  <2>1. q + 1 \in Int /\ x + 1 = p * (q + 1) + 0 /\ 0 \in 0 .. p - 1
    BY <1>2, <1>3
  <2>2. (x + 1) % p = 0
    BY <2>1, PeriodsLeave
  <2> QED  BY <1>1, <1>2, <1>3, <2>2
<1>4. CASE r # p - 1
  <2>1. r + 1 \in 0 .. p - 1
    BY <1>4
  <2>2. PICK n \in 0 .. p - 1 : n = r + 1
    BY <2>1
  <2>3. x + 1 = p * q + n
    BY <1>2, <2>2
  <2>4. (x + 1) % p = n
    BY <2>3, PeriodsLeave
  <2> QED  BY <1>1, <1>2, <1>4, <2>2, <2>4
<1> QED  BY <1>3, <1>4

\* The list of BlinkStrong is the one the code goes through.
LEMMA ListIs == ASSUME BlinkStrong PROVE Listed = InUse /\ nth[NumSlots] = NULL
<1>0. PICK m \in Nat : \E path \in [0 .. m - 1 -> Slots] : IsList(m, path)
  BY DEF BlinkStrong, ListPart
<1>1. PICK path \in [0 .. m - 1 -> Slots] : IsList(m, path)
  BY <1>0
<1>2. next[NULL] = NULL
  BY DEF BlinkStrong, ArrayPart
<1> QED  BY <1>1, <1>2, ListedIs DEF InUse

\* A free element, if there is one.
LEMMA MallocIs ==
  /\ mp1_malloc # NULL => mp1_malloc \in Slots /\ blink_array[mp1_malloc].location = 0
  /\ mp1_malloc = NULL => \A s \in Slots : blink_array[s].location # 0
<1> DEFINE free == {s \in Slots : blink_array[s].location = 0}
<1>1. free \in SUBSET Nat
  BY BlinkAssumption DEF Slots
<1>2. mp1_malloc = IF free = {} THEN NULL ELSE CHOOSE s \in free : \A t \in free : s <= t
  BY DEF mp1_malloc
<1>3. free # {} => mp1_malloc \in free
  <2>1. SUFFICES ASSUME free # {} PROVE mp1_malloc \in free
    OBVIOUS
  <2> HIDE DEF free
  <2>2. \E s \in free : \A t \in free : s <= t
    BY <1>1, <2>1, LeastOf
  <2> QED  BY <1>2, <2>1, <2>2
<1>4. NULL \notin Slots
  BY DEF NULL, Slots
<1> QED  BY <1>2, <1>3, <1>4

\* mp1_find_helper gives an element in that place, if there is one.
LEMMA FindIs ==
  ASSUME BlinkStrong, NEW c \in Int
  PROVE  /\ mp1_find_helper(c) # NULL =>
              mp1_find_helper(c) \in InUse /\ blink_array[mp1_find_helper(c)].location = c
         /\ mp1_find_helper(c) = NULL => \A s \in InUse : blink_array[s].location # c
<1>0. PICK m \in Nat : \E path \in [0 .. m - 1 -> Slots] : IsList(m, path)
  BY DEF BlinkStrong, ListPart
<1>1. PICK path \in [0 .. m - 1 -> Slots] : IsList(m, path)
  BY <1>0
<1>2. next[NULL] = NULL
  BY DEF BlinkStrong, ArrayPart
<1>3. \A n \in 0 .. NumSlots : nth[n] = IF n < m THEN path[n] ELSE NULL
  BY <1>1, <1>2, NthIs
<1>4. InUse = {path[k] : k \in 0 .. m - 1} /\ m <= NumSlots
  BY <1>1, <1>2, ListedIs DEF InUse
<1>5. NumSlots \in Nat /\ NULL = 0 /\ NULL \notin Slots
  BY BlinkAssumption DEF NULL, Slots
<1> DEFINE here == {n \in 0 .. NumSlots : nth[n] # NULL /\ blink_array[nth[n]].location = c}
<1>6. mp1_find_helper(c) = IF here = {} THEN NULL
                           ELSE nth[CHOOSE n \in here : \A k \in here : n <= k]
  BY DEF mp1_find_helper
<1>7. \A n \in here : nth[n] \in InUse /\ blink_array[nth[n]].location = c /\ nth[n] # NULL
  BY <1>3, <1>4, <1>5
<1>8. \A s \in InUse : blink_array[s].location = c => here # {}
  BY <1>3, <1>4, <1>5
<1>9. here \in SUBSET Nat
  BY <1>5
<1> HIDE DEF here
<1>10. here # {} => \E n \in here : mp1_find_helper(c) = nth[n]
  <2>1. SUFFICES ASSUME here # {} PROVE \E n \in here : mp1_find_helper(c) = nth[n]
    OBVIOUS
  <2>2. \E n \in here : \A k \in here : n <= k
    BY <1>9, <2>1, LeastOf
  <2> QED  BY <1>6, <2>1, <2>2
<1> QED  BY <1>6, <1>7, <1>8, <1>10

\* A step that does not concern an element leaves it in its phase.
LEMMA PhaseSame ==
  ASSUME ticks' = ticks, NEW b, InPhase(b)
  PROVE  InPhase(b)'
BY DEF InPhase, Phase

\* Unchanged, the invariant stays.
LEMMA BlinkSame ==
  ASSUME BlinkStrong, UNCHANGED bvars PROVE BlinkStrong'
<1>1. UNCHANGED <<blink_array, next, mp1_list_head, vmem, ticks, in_step, disturbed>>
  BY DEF bvars
<1>2. InUse' = InUse
  BY <1>1 DEF InUse
<1>3. ArrayPart'
  BY <1>1 DEF BlinkStrong, ArrayPart
<1>4. ListPart'
  BY <1>1 DEF BlinkStrong, ListPart, IsList
<1>5. TimePart'
  BY <1>1, <1>2 DEF BlinkStrong, TimePart, InPhase, Phase
<1>6. DrawnPart' /\ StepPart'
  BY <1>1, <1>2 DEF BlinkStrong, DrawnPart, StepPart, Agree
<1> QED  BY <1>3, <1>4, <1>5, <1>6 DEF BlinkStrong

\* An element is put in front of the list.
LEMMA ListGrows ==
  ASSUME ListPart, NEW slot \in Slots, blink_array[slot].location = 0,
         \A s \in Slots \ {slot} : blink_array'[s] = blink_array[s],
         blink_array'[slot].location # 0,
         next \in [Slots \cup {NULL} -> Slots \cup {NULL}],
         next' = [next EXCEPT ![slot] = mp1_list_head], mp1_list_head' = slot
  PROVE  ListPart'
<1>0. PICK m \in Nat : \E path \in [0 .. m - 1 -> Slots] : IsList(m, path)
  BY DEF ListPart
<1>1. PICK path \in [0 .. m - 1 -> Slots] : IsList(m, path)
  BY <1>0
<1>2. \A k \in 0 .. m - 1 : path[k] \in Slots /\ path[k] # slot
  BY <1>1 DEF IsList
<1>3. PICK n \in Nat : n = m + 1
  OBVIOUS
<1> DEFINE longer == [k \in 0 .. n - 1 |-> IF k = 0 THEN slot ELSE path[k - 1]]
<1>4. longer \in [0 .. n - 1 -> Slots]
  BY <1>2, <1>3
<1>5. longer[0] = slot /\ \A k \in 1 .. m : longer[k] = path[k - 1]
  BY <1>3
<1> HIDE DEF longer
<1>6. \A j, k \in 0 .. n - 1 : longer[j] = longer[k] => j = k
  <2>1. SUFFICES ASSUME NEW j \in 0 .. n - 1, NEW k \in 0 .. n - 1, longer[j] = longer[k]
                 PROVE  j = k
    OBVIOUS
  <2>2. j = 0 \/ (j \in 1 .. m /\ j - 1 \in 0 .. m - 1)
    BY <1>3
  <2>3. k = 0 \/ (k \in 1 .. m /\ k - 1 \in 0 .. m - 1)
    BY <1>3
  <2>4. CASE j = 0 \/ k = 0
    BY <1>2, <1>5, <2>1, <2>2, <2>3, <2>4
  <2>5. CASE j # 0 /\ k # 0
    <3>1. path[j - 1] = path[k - 1]
      BY <1>5, <2>1, <2>2, <2>3, <2>5
    <3>2. j - 1 = k - 1
      BY <1>1, <2>2, <2>3, <2>5, <3>1 DEF IsList
    <3> QED  BY <3>2
  <2> QED  BY <2>4, <2>5
<1>7. ASSUME NEW s \in Slots
      PROVE  blink_array'[s].location # 0 <=> \E k \in 0 .. n - 1 : longer[k] = s
  <2>1. CASE s = slot
    BY <1>3, <1>5, <2>1
  <2>2. CASE s # slot
    <3>1. blink_array'[s].location # 0 <=> \E k \in 0 .. m - 1 : path[k] = s
      BY <1>1, <2>2 DEF IsList
    <3>2. ASSUME NEW k \in 0 .. m - 1, path[k] = s PROVE \E j \in 0 .. n - 1 : longer[j] = s
      <4>1. k + 1 \in 1 .. m /\ k + 1 \in 0 .. n - 1 /\ (k + 1) - 1 = k
        BY <1>3
      <4> QED  BY <1>5, <3>2, <4>1
    <3>3. ASSUME NEW j \in 0 .. n - 1, longer[j] = s PROVE \E k \in 0 .. m - 1 : path[k] = s
      <4>1. j # 0
        BY <1>5, <2>2, <3>3
      <4>2. j \in 1 .. m /\ j - 1 \in 0 .. m - 1
        BY <1>3, <4>1
      <4> QED  BY <1>5, <3>3, <4>2
    <3> QED  BY <3>1, <3>2, <3>3
  <2> QED  BY <2>1, <2>2
<1>8. mp1_list_head' = (IF n = 0 THEN NULL ELSE longer[0])
  BY <1>3, <1>5
<1>9. ASSUME NEW k \in 0 .. n - 1
      PROVE  next'[longer[k]] = IF k = n - 1 THEN NULL ELSE longer[k + 1]
  <2>1. CASE k = 0
    <3>1. next'[longer[0]] = mp1_list_head
      BY <1>5
    <3>2. mp1_list_head = (IF m = 0 THEN NULL ELSE path[0])
      BY <1>1 DEF IsList
    <3>3. m # 0 => longer[1] = path[0]
      BY <1>5
    <3> QED  BY <1>3, <2>1, <3>1, <3>2, <3>3
  <2>2. CASE k # 0
    <3>1. k \in 1 .. m /\ k - 1 \in 0 .. m - 1
      BY <1>3, <2>2
    <3>2. PICK j \in 0 .. m - 1 : j = k - 1
      BY <3>1
    <3>3. next'[path[j]] = next[path[j]]
      BY <1>2
    <3>4. next[path[j]] = IF j = m - 1 THEN NULL ELSE path[j + 1]
      BY <1>1 DEF IsList
    <3>5. longer[k] = path[j]
      BY <1>5, <3>1, <3>2
    <3>6. j # m - 1 => longer[k + 1] = path[j + 1]
      <4>1. SUFFICES ASSUME j # m - 1 PROVE longer[k + 1] = path[j + 1]
        OBVIOUS
      <4>2. k + 1 \in 1 .. m /\ (k + 1) - 1 = j + 1
        BY <3>1, <3>2, <4>1
      <4> QED  BY <1>5, <4>2
    <3>7. j = m - 1 <=> k = n - 1
      BY <1>3, <3>2
    <3> QED  BY <3>3, <3>4, <3>5, <3>6, <3>7
  <2> QED  BY <2>1, <2>2
<1>10. IsList(n, longer)'
  BY <1>6, <1>7, <1>8, <1>9 DEF IsList
<1> QED  BY <1>4, <1>10 DEF ListPart

\* What makes a record a new character.
IsNew(b) ==
  /\ DOMAIN b = Fields /\ b.location \in Nat \ {0}
  /\ b.on_length \in Nat \ {0} /\ b.off_length \in Nat \ {0}
  /\ b.countdown = b.on_length /\ b.status = 1 /\ b.born = ticks

\* A character is added.
LEMMA AddStep ==
  ASSUME BlinkStrong, NEW b, IsNew(b), mp1_ioctl_add(b) PROVE BlinkStrong'
<1>0. ArrayPart /\ ListPart /\ TimePart /\ DrawnPart /\ StepPart
  BY DEF BlinkStrong
<1>1. CASE b.location >= NumCells \/ mp1_malloc = NULL
  <2>1. UNCHANGED bvars
    BY <1>1 DEF mp1_ioctl_add
  <2> QED  BY <2>1, BlinkSame
<1>2. CASE ~ (b.location >= NumCells \/ mp1_malloc = NULL)
  <2>1. PICK slot \in Slots : slot = mp1_malloc /\ blink_array[slot].location = 0
    BY <1>2, MallocIs
  <2>2. /\ blink_array' = [blink_array EXCEPT ![slot] = b]
        /\ next' = [next EXCEPT ![slot] = mp1_list_head]
        /\ mp1_list_head' = slot
        /\ vmem' = [vmem EXCEPT ![b.location] = b.on_char]
        /\ disturbed' = disturbed \cup
             IF At(b.location) = {} THEN {} ELSE At(b.location) \cup {slot}
        /\ ticks' = ticks /\ in_step' = in_step
    BY <1>2, <2>1 DEF mp1_ioctl_add
  <2>3. PICK c \in Cells : c = b.location /\ c # 0
    BY <1>2, BlinkAssumption DEF IsNew, Cells
  <2>4. At(b.location) = {s \in InUse : blink_array[s].location = c}
    BY <2>3, ListIs DEF At
  <2>5. /\ blink_array'[slot] = b
        /\ \A s \in Slots \ {slot} : blink_array'[s] = blink_array[s]
    BY <1>0, <2>2 DEF ArrayPart
  <2>6. slot \notin InUse /\ InUse' = InUse \cup {slot} /\ InUse \subseteq Slots
    BY <2>1, <2>3, <2>5 DEF InUse
  <2>7. ArrayPart'
    <3>1. /\ DOMAIN blink_array' = Slots /\ blink_array' = [s \in Slots |-> blink_array'[s]]
          /\ \A s \in Slots : DOMAIN blink_array'[s] = Fields /\ blink_array'[s].location \in Cells
      BY <1>0, <2>2, <2>3, <2>5 DEF ArrayPart, IsNew
    <3>2. mp1_list_head \in Slots \cup {NULL}
      <4>1. PICK m \in Nat : \E path \in [0 .. m - 1 -> Slots] : IsList(m, path)
        BY <1>0 DEF ListPart
      <4> QED  BY <4>1 DEF IsList
    <3>3. next' \in [Slots \cup {NULL} -> Slots \cup {NULL}] /\ next'[NULL] = NULL
      BY <1>0, <2>2, <3>2 DEF ArrayPart, NULL, Slots
    <3>4. DOMAIN vmem' = Cells /\ vmem' = [d \in Cells |-> vmem'[d]] /\ ticks' \in Nat
      BY <1>0, <2>2 DEF ArrayPart
    <3> QED  BY <3>1, <3>3, <3>4 DEF ArrayPart
  <2>8. ListPart'
    BY <1>0, <2>1, <2>2, <2>3, <2>5, ListGrows DEF ArrayPart
  <2>9. TimePart'
    <3>1. InPhase(b)'
      <4>1. ticks \in Nat /\ ticks - b.born = 0 /\ b.on_length + b.off_length \in Nat \ {0}
        BY <1>0 DEF ArrayPart, IsNew
      <4>2. 0 % (b.on_length + b.off_length) = 0
        BY <4>1
      <4>3. InPhase(b)
        BY <4>1, <4>2 DEF InPhase, Phase, IsNew
      <4> QED  BY <2>2, <4>3, PhaseSame
    <3>2. ASSUME NEW s \in InUse PROVE InPhase(blink_array[s])'
      <4>1. PICK d : d = blink_array[s] /\ d = blink_array'[s]
        BY <2>5, <2>6
      <4>2. InPhase(d)
        BY <1>0, <4>1 DEF TimePart
      <4>3. InPhase(d)'
        BY <2>2, <4>2, PhaseSame
      <4> QED  BY <4>1, <4>3 DEF InPhase, Phase
    <3>3. InPhase(blink_array[slot])'
      BY <2>5, <3>1 DEF InPhase, Phase
    <3> QED  BY <2>6, <3>2, <3>3 DEF TimePart
  <2>10. DrawnPart'
    <3>1. disturbed' \subseteq InUse'
      BY <1>0, <2>2, <2>4, <2>6 DEF DrawnPart
    <3>2. ASSUME NEW s \in InUse' \ disturbed'
          PROVE  /\ \A t \in InUse' \ {s} : blink_array'[t].location # blink_array'[s].location
                 /\ vmem'[blink_array'[s].location] =
                      IF blink_array'[s].status = 1 THEN blink_array'[s].on_char
                      ELSE blink_array'[s].off_char
      <4>1. CASE s = slot
        <5>1. \A t \in InUse : blink_array[t].location # c
          BY <2>2, <2>4, <3>2, <4>1
        <5>2. vmem'[c] = b.on_char
          BY <1>0, <2>2, <2>3 DEF ArrayPart
        <5> QED  BY <2>3, <2>5, <2>6, <4>1, <5>1, <5>2 DEF IsNew
      <4>2. CASE s # slot
        <5>1. s \in InUse \ disturbed /\ s \in Slots /\ blink_array'[s] = blink_array[s]
          BY <2>2, <2>5, <2>6, <3>2, <4>2
        <5>2. blink_array[s].location # c
          BY <2>2, <2>4, <3>2, <5>1
        <5>3. \A t \in InUse' \ {s} : blink_array'[t].location # blink_array'[s].location
          BY <1>0, <2>3, <2>5, <2>6, <5>1, <5>2 DEF DrawnPart
        <5>4. vmem'[blink_array[s].location] = vmem[blink_array[s].location]
          BY <1>0, <2>2, <2>3, <5>1, <5>2 DEF ArrayPart
        <5> QED  BY <1>0, <5>1, <5>3, <5>4 DEF DrawnPart
      <4> QED  BY <4>1, <4>2
    <3> QED  BY <3>1, <3>2 DEF DrawnPart
  <2>11. StepPart'
    BY <1>0, <2>2, <2>5, <2>6 DEF StepPart, Agree
  <2> QED  BY <2>7, <2>8, <2>9, <2>10, <2>11 DEF BlinkStrong
<1> QED  BY <1>1, <1>2

\* An element is taken out of the list.
LEMMA ListShrinks ==
  ASSUME BlinkStrong, NEW slot \in InUse,
         \A s \in Slots \ {slot} : blink_array'[s] = blink_array[s],
         blink_array'[slot].location = 0,
         next' = unlinked(slot),
         mp1_list_head' = IF mp1_list_head = slot THEN next[slot] ELSE mp1_list_head
  PROVE  ListPart'
<1>0. PICK m \in Nat : \E path \in [0 .. m - 1 -> Slots] : IsList(m, path)
  BY DEF BlinkStrong, ListPart
<1>1. PICK path \in [0 .. m - 1 -> Slots] : IsList(m, path)
  BY <1>0
<1>2. PICK place \in 0 .. m - 1 : path[place] = slot
  BY <1>1 DEF IsList, InUse
<1>3. PICK n \in Nat : n = m - 1
  BY <1>2
<1>4. /\ \A k \in 0 .. m - 1 : path[k] \in Slots
      /\ \A k \in 0 .. m - 1 : next[path[k]] = IF k = m - 1 THEN NULL ELSE path[k + 1]
      /\ \A k \in 0 .. m - 1 : path[k] = slot => k = place
      /\ mp1_list_head = path[0] /\ NULL \notin Slots
  <2>1. m # 0 /\ NULL \notin Slots /\ \A k \in 0 .. m - 1 : path[k] \in Slots
    BY <1>2 DEF NULL, Slots
  <2>2. \A k \in 0 .. m - 1 : next[path[k]] = IF k = m - 1 THEN NULL ELSE path[k + 1]
    BY <1>1 DEF IsList
  <2>3. \A j, k \in 0 .. m - 1 : path[j] = path[k] => j = k
    BY <1>1 DEF IsList
  <2>4. \A k \in 0 .. m - 1 : path[k] = slot => k = place
    BY <1>2, <2>3
  <2>5. mp1_list_head = path[0]
    BY <1>1, <2>1 DEF IsList
  <2> QED  BY <2>1, <2>2, <2>4, <2>5
<1> DEFINE shorter == [k \in 0 .. n - 1 |-> IF k < place THEN path[k] ELSE path[k + 1]]
<1>5. \A k \in 0 .. n - 1 : shorter[k] = IF k < place THEN path[k] ELSE path[k + 1]
  OBVIOUS
<1>6. shorter \in [0 .. n - 1 -> Slots]
  BY <1>3, <1>4
<1> HIDE DEF shorter
<1>7. \A j, k \in 0 .. n - 1 : shorter[j] = shorter[k] => j = k
  <2> DEFINE from(k) == IF k < place THEN k ELSE k + 1
  <2>1. \A k \in 0 .. n - 1 : from(k) \in 0 .. m - 1 /\ shorter[k] = path[from(k)]
    BY <1>3, <1>5
  <2>2. \A j, k \in 0 .. n - 1 : from(j) = from(k) => j = k
    OBVIOUS
  <2> HIDE DEF from
  <2>3. \A j, k \in 0 .. m - 1 : path[j] = path[k] => j = k
    BY <1>1 DEF IsList
  <2> QED  BY <2>1, <2>2, <2>3
<1>8. ASSUME NEW s \in Slots
      PROVE  blink_array'[s].location # 0 <=> \E k \in 0 .. n - 1 : shorter[k] = s
  <2>1. \A k \in 0 .. n - 1 : shorter[k] # slot
    <3>1. SUFFICES ASSUME NEW k \in 0 .. n - 1 PROVE shorter[k] # slot
      OBVIOUS
    <3>2. k \in 0 .. m - 1 /\ k + 1 \in 0 .. m - 1
      BY <1>3
    <3>3. CASE k < place
      BY <1>4, <1>5, <3>2, <3>3
    <3>4. CASE ~ (k < place)
      BY <1>4, <1>5, <3>2, <3>4
    <3> QED  BY <3>3, <3>4
  <2>2. CASE s = slot
    BY <2>1, <2>2
  <2>3. CASE s # slot
    <3>1. blink_array'[s].location # 0 <=> \E k \in 0 .. m - 1 : path[k] = s
      BY <1>1, <2>3 DEF IsList
    <3>2. ASSUME NEW k \in 0 .. m - 1, path[k] = s PROVE \E j \in 0 .. n - 1 : shorter[j] = s
      <4>1. k # place
        BY <1>2, <2>3, <3>2
      <4>2. CASE k < place
        <5>1. k \in 0 .. n - 1 /\ shorter[k] = path[k]
          BY <1>3, <1>5, <4>2
        <5> QED  BY <3>2, <5>1
      <4>3. CASE k > place
        <5>1. k - 1 \in 0 .. n - 1 /\ ~ (k - 1 < place) /\ (k - 1) + 1 = k
          BY <1>3, <4>3
        <5>2. shorter[k - 1] = path[k]
          BY <1>5, <5>1
        <5> QED  BY <3>2, <5>1, <5>2
      <4> QED  BY <4>1, <4>2, <4>3
    <3>3. ASSUME NEW j \in 0 .. n - 1, shorter[j] = s PROVE \E k \in 0 .. m - 1 : path[k] = s
      <4>1. j \in 0 .. m - 1 /\ j + 1 \in 0 .. m - 1
        BY <1>3
      <4> QED  BY <1>5, <3>3, <4>1
    <3> QED  BY <3>1, <3>2, <3>3
  <2> QED  BY <2>2, <2>3
<1>9. mp1_list_head' = (IF n = 0 THEN NULL ELSE shorter[0])
  <2>1. mp1_list_head = slot <=> place = 0
    BY <1>2, <1>3, <1>4
  <2>2. CASE place = 0
    <3>1. mp1_list_head' = next[path[0]] /\ next[path[0]] = IF 0 = m - 1 THEN NULL ELSE path[0 + 1]
      BY <1>2, <1>4, <2>1, <2>2
    <3>2. n # 0 => shorter[0] = path[0 + 1]
      BY <1>3, <1>5, <2>2
    <3> QED  BY <1>3, <3>1, <3>2
  <2>3. CASE place # 0
    <3>1. mp1_list_head' = path[0]
      BY <1>4, <2>1, <2>3
    <3>2. n # 0 /\ shorter[0] = path[0]
      BY <1>3, <1>5, <2>3
    <3> QED  BY <3>1, <3>2
  <2> QED  BY <2>2, <2>3
<1>10. \A s \in Slots : next'[s] = CASE s = slot -> NULL
                                     [] s \in InUse /\ next[s] = slot -> next[slot]
                                     [] OTHER -> next[s]
  <2>1. Listed = InUse
    BY ListIs
  <2>2. DOMAIN next = Slots \cup {NULL}
    BY DEF BlinkStrong, ArrayPart
  <2> QED  BY <2>1, <2>2 DEF unlinked
<1>11. \A k \in 0 .. m - 1 : path[k] \in InUse
  BY <1>1, <1>4 DEF IsList, InUse
<1>12. ASSUME NEW k \in 0 .. n - 1
      PROVE  next'[shorter[k]] = IF k = n - 1 THEN NULL ELSE shorter[k + 1]
  <2>0. slot \in Slots
    BY DEF InUse
  <2>1. CASE k + 1 < place
    <3>1. k \in 0 .. m - 1 /\ k + 1 \in 0 .. m - 1 /\ k # m - 1 /\ k # n - 1
      BY <1>3, <2>1
    <3>2. shorter[k] = path[k] /\ shorter[k + 1] = path[k + 1]
      BY <1>3, <1>5, <2>1
    <3>3. path[k] # slot /\ next[path[k]] = path[k + 1] /\ path[k + 1] # slot
      BY <1>4, <2>1, <3>1
    <3>4. next'[path[k]] = path[k + 1]
      BY <1>4, <1>10, <3>1, <3>3
    <3> QED  BY <3>1, <3>2, <3>4
  <2>2. CASE k + 1 = place
    <3>1. k \in 0 .. m - 1 /\ k # m - 1
      BY <1>3, <2>2
    <3>2. shorter[k] = path[k]
      BY <1>5, <2>2
    <3>3. path[k] # slot /\ next[path[k]] = slot
      BY <1>2, <1>4, <2>2, <3>1
    <3>4. next'[path[k]] = next[slot]
      BY <1>4, <1>10, <1>11, <3>1, <3>3
    <3>5. next[slot] = IF place = m - 1 THEN NULL ELSE path[place + 1]
      BY <1>2, <1>4
    <3>6. place = m - 1 <=> k = n - 1
      BY <1>3, <2>2
    <3>7. k # n - 1 => shorter[k + 1] = path[place + 1]
      <4>1. SUFFICES ASSUME k # n - 1 PROVE shorter[k + 1] = path[place + 1]
        OBVIOUS
      <4>2. k + 1 \in 0 .. n - 1 /\ ~ (k + 1 < place)
        BY <2>2, <4>1
      <4> QED  BY <1>5, <2>2, <4>2
    <3> QED  BY <3>2, <3>4, <3>5, <3>6, <3>7
  <2>3. CASE k + 1 > place
    <3>1. PICK j \in 0 .. m - 1 : j = k + 1
      BY <1>3
    <3>2. shorter[k] = path[j] /\ path[j] # slot
      BY <1>4, <1>5, <2>3, <3>1
    <3>3. next[path[j]] = IF j = m - 1 THEN NULL ELSE path[j + 1]
      BY <1>4
    <3>4. next[path[j]] # slot
      <4>1. CASE j = m - 1
        BY <1>4, <2>0, <3>3, <4>1
      <4>2. CASE j # m - 1
        <5>1. j + 1 \in 0 .. m - 1 /\ j + 1 # place
          BY <2>3, <3>1, <4>2
        <5> QED  BY <1>4, <3>3, <4>2, <5>1
      <4> QED  BY <4>1, <4>2
    <3>5. next'[path[j]] = next[path[j]]
      BY <1>4, <1>10, <3>2, <3>4
    <3>6. j = m - 1 <=> k = n - 1
      BY <1>3, <3>1
    <3>7. k # n - 1 => shorter[k + 1] = path[j + 1]
      <4>1. SUFFICES ASSUME k # n - 1 PROVE shorter[k + 1] = path[j + 1]
        OBVIOUS
      <4>2. k + 1 \in 0 .. n - 1 /\ ~ (k + 1 < place)
        BY <2>3, <4>1
      <4> QED  BY <1>5, <3>1, <4>2
    <3> QED  BY <3>2, <3>3, <3>5, <3>6, <3>7
  <2> QED  BY <2>1, <2>2, <2>3
<1>13. IsList(n, shorter)'
  BY <1>7, <1>8, <1>9, <1>12 DEF IsList
<1> QED  BY <1>6, <1>13 DEF ListPart

\* A character is removed.
LEMMA RemoveStep ==
  ASSUME BlinkStrong, NEW c \in Int, mp1_ioctl_remove(c) PROVE BlinkStrong'
<1>0. ArrayPart /\ ListPart /\ TimePart /\ DrawnPart /\ StepPart
  BY DEF BlinkStrong
<1>1. CASE mp1_find_helper(c) = NULL
  <2>1. UNCHANGED bvars
    BY <1>1 DEF mp1_ioctl_remove
  <2> QED  BY <2>1, BlinkSame
<1>2. CASE mp1_find_helper(c) # NULL
  <2>1. PICK slot \in InUse : slot = mp1_find_helper(c)
    BY <1>2, FindIs
  <2>2. /\ blink_array' = [blink_array EXCEPT ![slot] = Zeroed]
        /\ mp1_list_head' = IF mp1_list_head = slot THEN next[slot] ELSE mp1_list_head
        /\ next' = unlinked(slot)
        /\ in_step' = {p \in in_step : slot \notin p}
        /\ disturbed' = disturbed \ {slot}
        /\ vmem' = vmem /\ ticks' = ticks
    BY <1>2, <2>1 DEF mp1_ioctl_remove
  <2>3. InUse \subseteq Slots /\ slot \in Slots /\ NULL \notin Slots
    BY DEF InUse, NULL, Slots
  <2>4. /\ blink_array'[slot] = Zeroed
        /\ \A s \in Slots \ {slot} : blink_array'[s] = blink_array[s]
    BY <1>0, <2>2, <2>3 DEF ArrayPart
  <2>5. Zeroed.location = 0 /\ DOMAIN Zeroed = Fields /\ 0 \in Cells
    BY BlinkAssumption DEF Zeroed, Fields, Cells
  <2>6. InUse' = InUse \ {slot}
    BY <2>3, <2>4, <2>5 DEF InUse
  <2>7. ArrayPart'
    <3>1. /\ DOMAIN blink_array' = Slots /\ blink_array' = [s \in Slots |-> blink_array'[s]]
          /\ \A s \in Slots : DOMAIN blink_array'[s] = Fields /\ blink_array'[s].location \in Cells
      BY <1>0, <2>2, <2>4, <2>5 DEF ArrayPart
    <3>2. next' \in [Slots \cup {NULL} -> Slots \cup {NULL}]
      BY <1>0, <2>2, <2>3 DEF ArrayPart, unlinked
    <3>3. next'[NULL] = NULL
      <4>1. Listed = InUse
        BY ListIs
      <4> QED  BY <1>0, <2>2, <2>3, <4>1 DEF ArrayPart, unlinked
    <3> QED  BY <1>0, <2>2, <3>1, <3>2, <3>3 DEF ArrayPart
  <2>8. ListPart'
    BY <2>2, <2>4, <2>5, ListShrinks
  <2>9. TimePart'
    <3>1. ASSUME NEW s \in InUse' PROVE InPhase(blink_array[s])'
      <4>1. PICK d : d = blink_array[s] /\ d = blink_array'[s]
        BY <2>3, <2>4, <2>6
      <4>2. InPhase(d)
        BY <1>0, <2>6, <4>1 DEF TimePart
      <4>3. InPhase(d)'
        BY <2>2, <4>2, PhaseSame
      <4> QED  BY <4>1, <4>3 DEF InPhase, Phase
    <3> QED  BY <3>1 DEF TimePart
  <2>10. DrawnPart'
    BY <1>0, <2>2, <2>3, <2>4, <2>6 DEF DrawnPart
  <2>11. StepPart'
    BY <1>0, <2>2, <2>3, <2>4, <2>6 DEF StepPart, Agree
  <2> QED  BY <2>7, <2>8, <2>9, <2>10, <2>11 DEF BlinkStrong
<1> QED  BY <1>1, <1>2

\* The list stays when only the time of its elements changes.
LEMMA ListStays ==
  ASSUME ListPart, UNCHANGED <<next, mp1_list_head>>,
         \A s \in Slots : blink_array'[s].location = blink_array[s].location
  PROVE  ListPart' /\ InUse' = InUse
<1>1. InUse' = InUse
  BY DEF InUse
<1>2. PICK m \in Nat : \E path \in [0 .. m - 1 -> Slots] : IsList(m, path)
  BY DEF ListPart
<1>3. PICK path \in [0 .. m - 1 -> Slots] : IsList(m, path)
  BY <1>2
<1>4. IsList(m, path)'
  BY <1>3 DEF IsList
<1> QED  BY <1>1, <1>4 DEF ListPart

\* What synced makes of two records.
LEMMA SyncedIs ==
  ASSUME NEW b, NEW d, DOMAIN b = Fields
  PROVE  /\ DOMAIN synced(b, d) = Fields /\ synced(b, d).location = b.location
         /\ synced(b, d).on_length = d.on_length /\ synced(b, d).off_length = d.off_length
         /\ synced(b, d).countdown = d.countdown /\ synced(b, d).status = d.status
         /\ synced(b, d).born = d.born
BY DEF synced, Fields

\* The phase depends on lengths, counter, status and birth.
LEMMA PhaseOf ==
  ASSUME NEW b, NEW d, InPhase(d), b.on_length = d.on_length, b.off_length = d.off_length,
         b.countdown = d.countdown, b.status = d.status, b.born = d.born
  PROVE  InPhase(b)
BY DEF InPhase, Phase

\* Two characters are synchronised.
LEMMA SyncStep ==
  ASSUME BlinkStrong, NEW from \in Int, NEW to \in Int, mp1_ioctl_sync(from, to)
  PROVE  BlinkStrong'
<1>0. ArrayPart /\ ListPart /\ TimePart /\ DrawnPart /\ StepPart
  BY DEF BlinkStrong
<1>1. CASE mp1_find_helper(from) = NULL \/ mp1_find_helper(to) = NULL
  <2>1. UNCHANGED bvars
    BY <1>1 DEF mp1_ioctl_sync
  <2> QED  BY <2>1, BlinkSame
<1>2. CASE ~ (mp1_find_helper(from) = NULL \/ mp1_find_helper(to) = NULL)
  <2>1. PICK first \in InUse : first = mp1_find_helper(from)
    BY <1>2, FindIs
  <2>2. PICK second \in InUse : second = mp1_find_helper(to) /\ blink_array[second].location = to
    BY <1>2, FindIs
  <2>3. /\ blink_array' = [blink_array EXCEPT ![second] = synced(@, blink_array[first])]
        /\ vmem' = [vmem EXCEPT ![to] = blink_array[second].off_char]
        /\ in_step' = {p \in in_step : second \notin p} \cup {{first, second}}
        /\ disturbed' = disturbed \cup At(to)
        /\ UNCHANGED <<next, mp1_list_head, ticks>>
    BY <1>2, <2>1, <2>2 DEF mp1_ioctl_sync
  <2>4. InUse \subseteq Slots /\ first \in Slots /\ second \in Slots
    BY DEF InUse
  <2>5. PICK b : b = blink_array[second] /\ DOMAIN b = Fields /\ b.location = to /\ to \in Cells
    BY <1>0, <2>2, <2>4 DEF ArrayPart
  <2>6. PICK d : d = blink_array[first] /\ InPhase(d)
    BY <1>0 DEF TimePart
  <2>7. PICK e : e = synced(b, d)
    OBVIOUS
  <2>8. /\ DOMAIN e = Fields /\ e.location = to
        /\ e.on_length = d.on_length /\ e.off_length = d.off_length
        /\ e.countdown = d.countdown /\ e.status = d.status /\ e.born = d.born
    BY <2>5, <2>7, SyncedIs
  <2>9. /\ blink_array'[second] = e
        /\ \A s \in Slots \ {second} : blink_array'[s] = blink_array[s]
    BY <1>0, <2>3, <2>4, <2>5, <2>6, <2>7 DEF ArrayPart
  <2>10. \A s \in Slots : blink_array'[s].location = blink_array[s].location
    BY <2>5, <2>8, <2>9
  <2>11. ListPart' /\ InUse' = InUse
    BY <1>0, <2>3, <2>10, ListStays
  <2>12. ArrayPart'
    <3>1. /\ DOMAIN blink_array' = Slots /\ blink_array' = [s \in Slots |-> blink_array'[s]]
          /\ \A s \in Slots : DOMAIN blink_array'[s] = Fields /\ blink_array'[s].location \in Cells
      BY <1>0, <2>3, <2>5, <2>8, <2>9 DEF ArrayPart
    <3>2. DOMAIN vmem' = Cells /\ vmem' = [c \in Cells |-> vmem'[c]]
      BY <1>0, <2>3 DEF ArrayPart
    <3> QED  BY <1>0, <2>3, <3>1, <3>2 DEF ArrayPart
  <2>13. TimePart'
    <3>1. InPhase(e)
      BY <2>6, <2>8, PhaseOf
    <3>2. ASSUME NEW s \in InUse PROVE InPhase(blink_array[s])'
      <4>1. PICK f : f = blink_array'[s]
        OBVIOUS
      <4>2. InPhase(f)
        BY <1>0, <2>4, <2>9, <3>1, <4>1 DEF TimePart
      <4>3. InPhase(f)'
        BY <2>3, <4>2, PhaseSame
      <4> QED  BY <4>1, <4>3 DEF InPhase, Phase
    <3> QED  BY <2>11, <3>2 DEF TimePart
  <2>14. At(to) = {s \in InUse : blink_array[s].location = to}
    BY ListIs DEF At
  <2>15. DrawnPart'
    <3>1. disturbed' \subseteq InUse'
      BY <1>0, <2>3, <2>11, <2>14 DEF DrawnPart
    <3>2. ASSUME NEW s \in InUse' \ disturbed'
          PROVE  /\ \A t \in InUse' \ {s} : blink_array'[t].location # blink_array'[s].location
                 /\ vmem'[blink_array'[s].location] =
                      IF blink_array'[s].status = 1 THEN blink_array'[s].on_char
                      ELSE blink_array'[s].off_char
      <4>1. s \in InUse \ disturbed /\ s \in Slots /\ blink_array[s].location # to
        BY <2>3, <2>4, <2>11, <2>14, <3>2
      <4>2. blink_array'[s] = blink_array[s]
        BY <2>2, <2>9, <4>1
      <4>3. vmem'[blink_array[s].location] = vmem[blink_array[s].location]
        BY <1>0, <2>3, <4>1 DEF ArrayPart
      <4>4. \A t \in InUse' \ {s} : blink_array'[t].location # blink_array'[s].location
        BY <1>0, <2>4, <2>10, <2>11, <4>1 DEF DrawnPart
      <4> QED  BY <1>0, <4>1, <4>2, <4>3, <4>4 DEF DrawnPart
    <3> QED  BY <3>1, <3>2 DEF DrawnPart
  <2>16. StepPart'
    <3>1. ASSUME NEW p \in in_step, second \notin p
          PROVE  p \subseteq InUse /\ \A s, t \in p : Agree(blink_array'[s], blink_array'[t])
      BY <1>0, <2>4, <2>9, <3>1 DEF StepPart
    <3>2. \A s, t \in {first, second} : Agree(blink_array'[s], blink_array'[t])
      <4>1. /\ blink_array'[first].on_length = d.on_length
            /\ blink_array'[first].off_length = d.off_length
            /\ blink_array'[first].countdown = d.countdown
            /\ blink_array'[first].status = d.status
        BY <2>4, <2>6, <2>8, <2>9
      <4> QED  BY <2>8, <2>9, <4>1 DEF Agree
    <3>3. {first, second} \subseteq InUse
      OBVIOUS
    <3>4. \A p \in in_step' : p \subseteq InUse /\ \A s, t \in p : Agree(blink_array'[s], blink_array'[t])
      BY <2>3, <3>1, <3>2, <3>3
    <3> QED  BY <2>11, <3>4 DEF StepPart, Agree
  <2> QED  BY <2>11, <2>12, <2>13, <2>15, <2>16 DEF BlinkStrong
<1> QED  BY <1>1, <1>2

\* What a tick makes of a record.
ticked(b) == IF Due(b) THEN toggled(b) ELSE counted(b)

\* A tick leaves place, lengths and characters alone.
LEMMA TickedIs ==
  ASSUME NEW b, DOMAIN b = Fields
  PROVE  /\ DOMAIN ticked(b) = Fields /\ ticked(b).location = b.location
         /\ ticked(b).on_length = b.on_length /\ ticked(b).off_length = b.off_length
         /\ ticked(b).on_char = b.on_char /\ ticked(b).off_char = b.off_char
         /\ ticked(b).born = b.born
         /\ ticked(b).status = (IF Due(b) THEN 1 - b.status ELSE b.status)
         /\ ticked(b).countdown = (IF ~ Due(b) THEN b.countdown - 1
                                   ELSE IF b.status = 1 THEN b.off_length ELSE b.on_length)
<1>1. CASE Due(b)
  BY <1>1 DEF ticked, toggled, Fields
<1>2. CASE ~ Due(b)
  BY <1>2 DEF ticked, counted, Fields
<1> QED  BY <1>1, <1>2

\* Counter and status follow the clock.
LEMMA PhaseStep ==
  ASSUME NEW b, DOMAIN b = Fields, InPhase(b), ticks \in Nat, ticks' = ticks + 1
  PROVE  InPhase(ticked(b))'
<1>1. PICK on \in Nat \ {0}, off \in Nat \ {0}, x \in Nat :
        on = b.on_length /\ off = b.off_length /\ x = ticks - b.born
  BY DEF InPhase
<1>2. PICK p \in Nat \ {0} : p = on + off
  OBVIOUS
<1>3. PICK r \in 0 .. p - 1 : r = x % p
  BY NextPhase
<1>4. (x + 1) % p = IF r = p - 1 THEN 0 ELSE r + 1
  BY <1>3, NextPhase
<1>5. b.born \in Nat /\ ticks' - b.born = x + 1
  BY <1>1 DEF InPhase
<1>6. IF r < on THEN b.status = 1 /\ b.countdown = on - r
      ELSE b.status = 0 /\ b.countdown = on + off - r
  BY <1>1, <1>2, <1>3 DEF InPhase, Phase
<1>7. PICK e : e = ticked(b)
  OBVIOUS
<1>8. /\ e.on_length = on /\ e.off_length = off /\ e.born = b.born
      /\ e.status = (IF Due(b) THEN 1 - b.status ELSE b.status)
      /\ e.countdown = (IF ~ Due(b) THEN b.countdown - 1
                        ELSE IF b.status = 1 THEN off ELSE on)
  BY <1>1, <1>7, TickedIs
<1>9. PICK q \in Nat : q = (x + 1) % p /\ q = IF r = p - 1 THEN 0 ELSE r + 1
  BY <1>4
<1>10. IF q < on THEN e.status = 1 /\ e.countdown = on - q
       ELSE e.status = 0 /\ e.countdown = on + off - q
  <2>1. CASE r < on
    <3>1. Due(b) <=> r = on - 1
      BY <1>6, <2>1 DEF Due
    <3> QED  BY <1>2, <1>6, <1>8, <1>9, <2>1, <3>1
  <2>2. CASE ~ (r < on)
    <3>1. Due(b) <=> r = p - 1
      BY <1>2, <1>6, <2>2 DEF Due
    <3> QED  BY <1>2, <1>6, <1>8, <1>9, <2>2, <3>1
  <2> QED  BY <2>1, <2>2
<1>11. InPhase(e)'
  <2>1. e.on_length + e.off_length = p /\ ticks' - e.born = x + 1
    BY <1>2, <1>5, <1>8
  <2>2. Phase(e)' = q
    BY <1>9, <2>1 DEF Phase
  <2> QED  BY <1>5, <1>8, <1>10, <2>1, <2>2 DEF InPhase
<1> QED  BY <1>7, <1>11 DEF InPhase, Phase, ticked, toggled, counted, Due

\* A tick goes through the list.
LEMMA TaskletStep ==
  ASSUME BlinkStrong, mp1_rtc_tasklet PROVE BlinkStrong'
<1>0. ArrayPart /\ ListPart /\ TimePart /\ DrawnPart /\ StepPart
  BY DEF BlinkStrong
<1>1. Listed = InUse /\ InUse \subseteq Slots
  BY ListIs DEF InUse
<1>2. PICK listed \in {Listed} : \E due \in {{s \in listed : Due(blink_array[s])}} :
        /\ blink_array' =
             [s \in Slots |-> CASE s \in due          -> toggled(blink_array[s])
                                [] s \in listed \ due -> counted(blink_array[s])
                                [] OTHER              -> blink_array[s]]
        /\ vmem' =
             [c \in Cells |-> IF \E s \in due : blink_array[s].location = c
                                THEN drawn(blink_array[LastAt(c, due)]) ELSE vmem[c]]
        /\ disturbed' = {s \in disturbed : s \in due => ~ Alone(s)}
        /\ ticks' = ticks + 1
        /\ UNCHANGED <<next, mp1_list_head, in_step>>
  BY DEF mp1_rtc_tasklet
<1>3. PICK due \in {{s \in listed : Due(blink_array[s])}} :
        /\ blink_array' =
             [s \in Slots |-> CASE s \in due          -> toggled(blink_array[s])
                                [] s \in listed \ due -> counted(blink_array[s])
                                [] OTHER              -> blink_array[s]]
        /\ vmem' =
             [c \in Cells |-> IF \E s \in due : blink_array[s].location = c
                                THEN drawn(blink_array[LastAt(c, due)]) ELSE vmem[c]]
        /\ disturbed' = {s \in disturbed : s \in due => ~ Alone(s)}
        /\ ticks' = ticks + 1
        /\ UNCHANGED <<next, mp1_list_head, in_step>>
  BY <1>2
<1>4. listed = InUse /\ due = {s \in InUse : Due(blink_array[s])}
  BY <1>1, <1>2, <1>3
<1>5. \A s \in InUse : blink_array'[s] = ticked(blink_array[s])
  BY <1>1, <1>3, <1>4 DEF ticked
<1>6. \A s \in Slots \ InUse : blink_array'[s] = blink_array[s]
  BY <1>3, <1>4
<1>7. \A s \in Slots : DOMAIN blink_array[s] = Fields /\ blink_array[s].location \in Cells
  BY <1>0 DEF ArrayPart
<1>8. \A s \in Slots :
        /\ DOMAIN blink_array'[s] = Fields
        /\ blink_array'[s].location = blink_array[s].location
  <2>1. SUFFICES ASSUME NEW s \in Slots
                 PROVE  /\ DOMAIN blink_array'[s] = Fields
                        /\ blink_array'[s].location = blink_array[s].location
    OBVIOUS
  <2>2. CASE s \in InUse
    <3>1. PICK b : b = blink_array[s] /\ DOMAIN b = Fields
      BY <1>7
    <3>2. DOMAIN ticked(b) = Fields /\ ticked(b).location = b.location
      BY <3>1, TickedIs
    <3> QED  BY <1>5, <2>2, <3>1, <3>2
  <2>3. CASE s \notin InUse
    BY <1>6, <1>7, <2>3
  <2> QED  BY <2>2, <2>3
<1>9. ListPart' /\ InUse' = InUse
  BY <1>0, <1>3, <1>4, <1>8, ListStays
<1>10. ArrayPart'
  <2>1. DOMAIN blink_array' = Slots /\ blink_array' = [s \in Slots |-> blink_array'[s]]
    BY <1>3, <1>4
  <2>2. DOMAIN vmem' = Cells /\ vmem' = [c \in Cells |-> vmem'[c]]
    BY <1>3, <1>4
  <2>3. ticks' \in Nat
    BY <1>0, <1>3, <1>4 DEF ArrayPart
  <2> QED  BY <1>0, <1>3, <1>4, <1>7, <1>8, <2>1, <2>2, <2>3 DEF ArrayPart
<1>11. TimePart'
  <2>1. ASSUME NEW s \in InUse PROVE InPhase(blink_array[s])'
    <3>1. PICK b : b = blink_array[s] /\ DOMAIN b = Fields
      BY <1>1, <1>7
    <3>2. InPhase(b) /\ ticks \in Nat
      BY <1>0, <3>1 DEF TimePart, ArrayPart
    <3>3. InPhase(ticked(b))'
      BY <1>3, <1>4, <3>1, <3>2, PhaseStep
    <3>4. PICK e : e = ticked(b) /\ e = blink_array'[s]
      BY <1>5, <3>1
    <3>5. InPhase(e)'
      BY <3>3, <3>4 DEF InPhase, Phase, ticked, toggled, counted, Due
    <3> QED  BY <3>4, <3>5 DEF InPhase, Phase
  <2> QED  BY <1>9, <2>1 DEF TimePart
<1>12. DrawnPart'
  <2>1. disturbed' \subseteq InUse'
    BY <1>0, <1>3, <1>4, <1>9 DEF DrawnPart
  <2>2. ASSUME NEW s \in InUse' \ disturbed'
        PROVE  /\ \A t \in InUse' \ {s} : blink_array'[t].location # blink_array'[s].location
               /\ vmem'[blink_array'[s].location] =
                    IF blink_array'[s].status = 1 THEN blink_array'[s].on_char
                    ELSE blink_array'[s].off_char
    <3>1. s \in InUse /\ s \in Slots
      BY <1>1, <1>9, <2>2
    <3>2. \A t \in InUse \ {s} : blink_array[t].location # blink_array[s].location
      <4>1. CASE s \notin disturbed
        BY <1>0, <3>1, <4>1 DEF DrawnPart
      <4>2. CASE s \in disturbed
        BY <1>1, <1>3, <1>4, <2>2, <4>2 DEF Alone
      <4> QED  BY <4>1, <4>2
    <3>3. s \notin due => s \notin disturbed
      BY <1>3, <1>4, <2>2
    <3>4. PICK b, c : b = blink_array[s] /\ c = b.location /\ DOMAIN b = Fields /\ c \in Cells
      BY <1>7, <3>1
    <3>5. InPhase(b)
      BY <1>0, <3>1, <3>4 DEF TimePart
    <3>6. b.status \in {0, 1}
      BY <3>5 DEF InPhase
    <3>7. PICK e : e = ticked(b) /\ e = blink_array'[s]
      BY <1>5, <3>1, <3>4
    <3>8. /\ e.location = c /\ e.on_char = b.on_char /\ e.off_char = b.off_char
          /\ e.status = (IF Due(b) THEN 1 - b.status ELSE b.status)
      <4>1. /\ ticked(b).location = b.location
            /\ ticked(b).on_char = b.on_char /\ ticked(b).off_char = b.off_char
            /\ ticked(b).status = (IF Due(b) THEN 1 - b.status ELSE b.status)
        BY <3>4, TickedIs
      <4> QED  BY <3>4, <3>7, <4>1
    <3>9. s \in due <=> Due(b)
      BY <1>3, <1>4, <3>1, <3>4
    <3>10. \A t \in due : blink_array[t].location = c => t = s
      BY <1>3, <1>4, <3>2, <3>4
    <3>11. vmem'[c] = IF e.status = 1 THEN e.on_char ELSE e.off_char
      <4>1. CASE s \in due
        <5>1. LastAt(c, due) = s
          <6>1. /\ s \in due /\ blink_array[s].location = c
                /\ \A t \in due \ {s} : blink_array[t].location = c => Precedes(t, s)
            BY <3>4, <3>10, <4>1
          <6>2. \A t \in due : blink_array[t].location = c => t = s
            BY <3>10
          <6> QED  BY <6>1, <6>2 DEF LastAt
        <5>2. vmem'[c] = drawn(b)
          BY <1>3, <1>4, <3>4, <4>1, <5>1
        <5> QED  BY <3>6, <3>8, <3>9, <4>1, <5>2 DEF drawn
      <4>2. CASE s \notin due
        <5>1. vmem'[c] = vmem[c]
          BY <1>3, <1>4, <3>4, <3>10, <4>2
        <5>2. vmem[c] = IF b.status = 1 THEN b.on_char ELSE b.off_char
          BY <1>0, <3>1, <3>3, <3>4, <4>2 DEF DrawnPart
        <5> QED  BY <3>8, <3>9, <4>2, <5>1, <5>2
      <4> QED  BY <4>1, <4>2
    <3>12. \A t \in InUse' \ {s} : blink_array'[t].location # blink_array'[s].location
      BY <1>1, <1>8, <1>9, <3>1, <3>2
    <3> QED  BY <3>7, <3>8, <3>11, <3>12
  <2> QED  BY <2>1, <2>2 DEF DrawnPart
<1>13. StepPart'
  <2>1. ASSUME NEW p \in in_step, NEW s \in p, NEW t \in p
        PROVE  Agree(blink_array'[s], blink_array'[t])
    <3>1. s \in InUse /\ t \in InUse /\ Agree(blink_array[s], blink_array[t])
      BY <1>0 DEF StepPart
    <3>2. PICK b, d : b = blink_array[s] /\ d = blink_array[t] /\ DOMAIN b = Fields
                      /\ DOMAIN d = Fields /\ Agree(b, d)
      BY <1>1, <1>7, <3>1
    <3>3. Due(b) <=> Due(d)
      BY <3>2 DEF Agree, Due
    <3>4. Agree(ticked(b), ticked(d))
      <4>1. /\ ticked(b).on_length = b.on_length /\ ticked(b).off_length = b.off_length
            /\ ticked(b).status = (IF Due(b) THEN 1 - b.status ELSE b.status)
            /\ ticked(b).countdown = (IF ~ Due(b) THEN b.countdown - 1
                                      ELSE IF b.status = 1 THEN b.off_length ELSE b.on_length)
        BY <3>2, TickedIs
      <4>2. /\ ticked(d).on_length = d.on_length /\ ticked(d).off_length = d.off_length
            /\ ticked(d).status = (IF Due(d) THEN 1 - d.status ELSE d.status)
            /\ ticked(d).countdown = (IF ~ Due(d) THEN d.countdown - 1
                                      ELSE IF d.status = 1 THEN d.off_length ELSE d.on_length)
        BY <3>2, TickedIs
      <4> QED  BY <3>2, <3>3, <4>1, <4>2 DEF Agree
    <3> QED  BY <1>5, <3>1, <3>2, <3>4
  <2>2. \A p \in in_step' : p \subseteq InUse' /\ \A s, t \in p : Agree(blink_array'[s], blink_array'[t])
    BY <1>0, <1>3, <1>4, <1>9, <2>1 DEF StepPart
  <2> QED  BY <2>2 DEF StepPart, Agree
<1> QED  BY <1>9, <1>10, <1>11, <1>12, <1>13 DEF BlinkStrong

\* A free element.
LEMMA ZeroedIs == DOMAIN Zeroed = Fields /\ Zeroed.location = 0 /\ 0 \in Cells
BY BlinkAssumption DEF Zeroed, Fields, Cells

\* The empty list satisfies the invariant.
LEMMA BlinkStart == BlinkInit => BlinkStrong
<1> SUFFICES ASSUME BlinkInit PROVE BlinkStrong
  OBVIOUS
<1>1. /\ blink_array = [s \in Slots |-> Zeroed] /\ next = [s \in Slots \cup {NULL} |-> NULL]
      /\ mp1_list_head = NULL /\ vmem = [c \in Cells |-> " "]
      /\ ticks = 0 /\ in_step = {} /\ disturbed = {}
  BY DEF BlinkInit
<1>2. ArrayPart
  <2>1. \A s \in Slots : blink_array[s] = Zeroed
    BY <1>1
  <2>2. /\ DOMAIN blink_array = Slots /\ blink_array = [s \in Slots |-> blink_array[s]]
        /\ DOMAIN vmem = Cells /\ vmem = [c \in Cells |-> vmem[c]]
    BY <1>1
  <2>3. next \in [Slots \cup {NULL} -> Slots \cup {NULL}] /\ next[NULL] = NULL
    BY <1>1
  <2> QED  BY <1>1, <2>1, <2>2, <2>3, ZeroedIs DEF ArrayPart
<1>3. InUse = {}
  BY <1>1, ZeroedIs DEF InUse
<1>4. ListPart
  <2>1. PICK m \in Nat : m = 0
    OBVIOUS
  <2>2. 1 \in Slots /\ \A k \in 0 .. m - 1 : FALSE
    BY <2>1, BlinkAssumption DEF Slots
  <2>3. PICK path \in [0 .. m - 1 -> Slots] : TRUE
    <3>1. [k \in 0 .. m - 1 |-> 1] \in [0 .. m - 1 -> Slots]
      BY <2>2
    <3> QED  BY <3>1
  <2>4. \A s \in Slots : blink_array[s].location = 0
    BY <1>1, ZeroedIs
  <2>5. IsList(m, path)
    BY <1>1, <2>1, <2>2, <2>4 DEF IsList
  <2> QED  BY <2>3, <2>5 DEF ListPart
<1> QED  BY <1>1, <1>2, <1>3, <1>4 DEF BlinkStrong, TimePart, DrawnPart, StepPart

-----------------------------------------------------------------------------
(* fish asks for characters on the screen only. *)

DrawPart ==
  /\ at \in InFrames => frame.row \in Nat /\ frame.col \in Nat
  /\ at = "fish_wait" =>
       DOMAIN frame = {"rtc", "script", "waited"} /\ frame.script \in Seq(Requests)

\* The places where fish has something to do.
FishPlaces == InFrames \cup {"fish_wait"}

\* Every step but those of fish is somewhere else, or leaves place and frame alone.
LEMMA NotFish ==
  ASSUME ProgramsStrong, TypesLine \/ Progress \/ shell_reports
  PROVE  at' \notin FishPlaces \/ UNCHANGED <<at, frame>>
<1>1. CASE TypesLine
  <2>1. CASE read_line
    <3>1. at' = "parse" \/ at' = "prompt"
      BY <2>1 DEF read_line
    <3> QED  BY <3>1 DEF FishPlaces, InFrames
  <2>2. CASE counter_choice \/ sigtest_fault
    BY <2>2 DEF counter_choice, sigtest_fault, GoTo, return, FishPlaces, InFrames
  <2> QED  BY <1>1, <2>1, <2>2 DEF TypesLine
<1>2. CASE kernel
  <2>1. CASE parse_command \/ find_command \/ read_magic \/ check_magic \/ halt
    <3>1. at' \in {"find", "report", "magic", "check_magic", "load"}
      BY <2>1 DEF parse_command, find_command, read_magic, check_magic, halt, execute_returns
    <3> QED  BY <3>1 DEF FishPlaces, InFrames
  <2>2. CASE start_program
    <3>1. at' \in Codes
      BY <2>2, StartsAProgram
    <3> QED  BY <3>1 DEF FishPlaces, InFrames, Codes, CAT, LS, GREP, COUNTER, SIGTEST, OWN, FISH
  <2>3. CASE copying \/ copied
    <3>1. at' = at /\ frame' = frame
      BY <1>2, <2>3 DEF copying, copied, kernel
    <3> QED  BY <3>1
  <2> QED  BY <1>2, <2>1, <2>2, <2>3 DEF kernel
<1>3. CASE cat \/ ls
  BY <1>3 DEF cat, cat_args, cat_open, cat_read, cat_write, ls, ls_open, ls_read, ls_write,
              ArgsOr, OpenOr, ReadThen, GoTo, return, FishPlaces, InFrames
<1>4. CASE grep
  <2>1. CASE grep_args \/ grep_dir \/ grep_next \/ grep_open
    BY <2>1 DEF grep_args, grep_dir, grep_next, grep_open, ArgsOr, OpenOr, ReadThen, GoTo, return,
                FishPlaces, InFrames
  <2>2. CASE grep_name \/ grep_close
    BY <2>2 DEF grep_name, grep_close, GoTo, return, FishPlaces, InFrames
  <2>3. CASE grep_read \/ grep_got \/ grep_line
    <3>1. at' \in {"grep_read", "grep_got", "grep_line", "grep_close"}
      BY <2>3, GrepFileStep
    <3> QED  BY <3>1 DEF FishPlaces, InFrames
  <2> QED  BY <1>4, <2>1, <2>2, <2>3 DEF grep
<1>5. CASE counter_loop \/ sigtest_args \/ own
  BY <1>5 DEF counter_loop, sigtest_args, own, own_call, own_end, ArgsOr, GoTo, return, FishPlaces,
              InFrames
<1>6. CASE shell_reports
  BY <1>6 DEF shell_reports, report, FishPlaces, InFrames
<1> QED  BY <1>1, <1>2, <1>3, <1>4, <1>5, <1>6 DEF Progress

\* What a new character is.
LEMMA BlinkingIs ==
  ASSUME NEW location \in Nat \ {0}, NEW on_char, NEW off_char, NEW on_length \in Nat \ {0},
         NEW off_length \in Nat \ {0}
  PROVE  IsNew(Blinking(location, on_char, off_char, on_length, off_length))
BY DEF IsNew, Blinking, Fields

\* fish opens and reads its frames.
LEMMA FramesDraw ==
  ASSUME ProgramsStrong, BlinkStrong, DrawPart,
         fish_open_rtc \/ fish_open1 \/ fish_open2 \/ fish_read \/ fish_skip \/ fish_got
  PROVE  BlinkStrong' /\ DrawPart'
<1>1. UNCHANGED bvars
  BY DEF fish_open_rtc, fish_open1, fish_open2, fish_read, fish_skip, fish_got, Still
<1>2. BlinkStrong'
  BY <1>1, BlinkSame
<1>3. DrawPart'
  <2>1. CASE fish_open_rtc
    <3>1. at' = "fish_open1"
      BY <2>1 DEF fish_open_rtc, GoTo
    <3> QED  BY <3>1 DEF DrawPart, InFrames
  <2>2. CASE fish_open1
    <3>1. at' \in {"fish_open2", "halt"}
      BY <2>2 DEF fish_open1, OpenOr, GoTo, return
    <3> QED  BY <3>1 DEF DrawPart, InFrames
  <2>3. CASE fish_open2
    <3>1. at' \in {"fish_read", "halt"} /\ frame'.row = 0 /\ frame'.col = 0
      BY <2>3 DEF fish_open2, OpenOr, GoTo, return
    <3> QED  BY <3>1 DEF DrawPart, InFrames
  <2>4. CASE fish_read
    <3>1. at = "fish_read" /\ at' = "fish_got" /\ frame' = frame
      BY <2>4 DEF fish_read, ReadThen, GoTo
    <3> QED  BY <3>1 DEF DrawPart, InFrames
  <2>5. CASE fish_skip \/ fish_got
    <3>1. at \in InFrames /\ at' \in {"fish_read", "fish_pair"}
      BY <2>5 DEF fish_skip, fish_got, GoTo, NextPlace, InFrames
    <3>2. DOMAIN frame = FishFrame
      BY <3>1 DEF ProgramsStrong, PlacePart, FishPart
    <3>3. frame'.row = frame.row /\ frame'.col = frame.col
      BY <2>5, <3>2 DEF fish_skip, fish_got, FishFrame
    <3> QED  BY <3>1, <3>3 DEF DrawPart
  <2> QED  BY <2>1, <2>2, <2>3, <2>4, <2>5
<1> QED  BY <1>2, <1>3

\* fish makes blinking characters of what it has read.
LEMMA PairDraw ==
  ASSUME ProgramsStrong, BlinkStrong, DrawPart, fish_pair
  PROVE  BlinkStrong' /\ DrawPart'
<1>1. at \in InFrames /\ at' = "fish_read"
  BY DEF fish_pair, GoTo, InFrames
<1>2. DOMAIN frame = FishFrame /\ frame.row \in Nat /\ frame.col \in Nat
  BY <1>1 DEF ProgramsStrong, PlacePart, FishPart, DrawPart
<1>3. frame'.row = frame.row /\ frame'.col = frame.col + 1
  BY <1>2 DEF fish_pair, FishFrame
<1>4. DrawPart'
  BY <1>1, <1>2, <1>3 DEF DrawPart
<1>5. CASE Blank(frame.c)
  <2>1. UNCHANGED bvars
    BY <1>5 DEF fish_pair, Still
  <2> QED  BY <1>4, <2>1, BlinkSame
<1>6. CASE ~ Blank(frame.c)
  <2>1. Width \in Nat \ {0} /\ Offset \in Nat \ {0} /\ FrameLength \in Nat \ {0}
    BY FishAssumption DEF Times
  <2>2. \A x, y \in Nat : x * y \in Nat
    OBVIOUS
  <2>3. PICK c \in Nat \ {0} : c = frame.row * Width + frame.col + Offset
    BY <1>2, <2>1, <2>2
  <2>4. PICK one, two : one = OrSpace(frame.c[1]) /\ two = OrSpace(frame.c[2])
    OBVIOUS
  <2>5. PICK b : b = Blinking(c, one, two, FrameLength, FrameLength)
    OBVIOUS
  <2>6. IsNew(b)
    BY <2>1, <2>5, BlinkingIs
  <2>7. mp1_ioctl_add(b)
    BY <1>6, <2>3, <2>4, <2>5 DEF fish_pair
  <2> QED  BY <1>4, <2>6, <2>7, AddStep
<1> QED  BY <1>5, <1>6

\* A row is complete, or the picture is.
LEMMA RowDraw ==
  ASSUME ProgramsStrong, BlinkStrong, DrawPart, fish_row
  PROVE  BlinkStrong' /\ DrawPart'
<1>1. at \in InFrames /\ at' \in {"fish_wait", "fish_read"} /\ UNCHANGED bvars
  BY DEF fish_row, GoTo, InFrames, Still
<1>2. DOMAIN frame = FishFrame /\ frame.row \in Nat
  BY <1>1 DEF ProgramsStrong, PlacePart, FishPart, DrawPart
<1>3. CASE frame.eof = <<TRUE, TRUE>>
  <2>1. PICK script \in Scripts : frame' = [rtc |-> frame.rtc, script |-> script, waited |-> 0]
    BY <1>3 DEF fish_row
  <2>2. script \in Seq(Requests)
    BY FishAssumption
  <2>3. at' = "fish_wait"
    BY <1>3 DEF fish_row, GoTo
  <2>4. DOMAIN frame' = {"rtc", "script", "waited"} /\ frame'.script = script
    BY <2>1
  <2>5. DrawPart'
    BY <2>2, <2>3, <2>4 DEF DrawPart, InFrames
  <2> QED  BY <1>1, <2>5, BlinkSame
<1>4. CASE frame.eof # <<TRUE, TRUE>>
  <2>1. /\ frame' = [frame EXCEPT !.row = @ + 1, !.col = 0,
                       !.c = [f \in 1 .. 2 |-> IF frame.eof[f] THEN NEWLINE ELSE "0"]]
        /\ at' = "fish_read"
    BY <1>4 DEF fish_row, GoTo
  <2>2. frame'.row = frame.row + 1 /\ frame'.col = 0
    BY <1>2, <2>1 DEF FishFrame
  <2>3. DrawPart'
    BY <1>2, <2>1, <2>2 DEF DrawPart, InFrames
  <2> QED  BY <1>1, <2>3, BlinkSame
<1> QED  BY <1>3, <1>4

\* fish waits and asks for changes.
LEMMA WaitDraw ==
  ASSUME ProgramsStrong, BlinkStrong, DrawPart, fish_tick \/ fish_ioctl \/ fish_end
  PROVE  BlinkStrong' /\ DrawPart'
<1>1. at = "fish_wait"
  BY DEF fish_tick, fish_ioctl, fish_end
<1>2. DOMAIN frame = {"rtc", "script", "waited"} /\ frame.script \in Seq(Requests)
  BY <1>1 DEF DrawPart
<1>3. CASE fish_tick
  <2>1. at' = at /\ frame' = [frame EXCEPT !.waited = @ + 1] /\ mp1_rtc_tasklet
    BY <1>3 DEF fish_tick
  <2>2. DOMAIN frame' = DOMAIN frame /\ frame'.script = frame.script
    BY <1>2, <2>1
  <2>3. DrawPart'
    BY <1>1, <1>2, <2>1, <2>2 DEF DrawPart, InFrames
  <2> QED  BY <2>1, <2>3, TaskletStep
<1>4. CASE fish_ioctl
  <2>1. /\ at' = at /\ frame' = [frame EXCEPT !.script = Tail(@), !.waited = 0]
        /\ frame.script # << >>
    BY <1>4 DEF fish_ioctl
  <2>2. Tail(frame.script) \in Seq(Requests) /\ frame.script[1] \in Requests
    BY <1>2, <2>1, HeadTailProperties, ElementOfSeq
  <2>3. DOMAIN frame' = DOMAIN frame /\ frame'.script = Tail(frame.script)
    BY <1>2, <2>1
  <2>4. DrawPart'
    BY <1>1, <1>2, <2>1, <2>2, <2>3 DEF DrawPart, InFrames
  <2>5. PICK r \in Requests : r = frame.script[1]
    BY <2>2
  <2>6. PICK c \in Nat \ {0} : c = r.location
    BY BlinkAssumption DEF Requests, Cells
  <2>7. CASE r.op = "add"
    <3>0. r.on \in Times /\ r.off \in Times
      BY <2>7 DEF Requests
    <3>1. PICK on \in Nat \ {0}, off \in Nat \ {0} : on = r.on /\ off = r.off
      <4>1. \A x \in Times : x \in Nat \ {0}
        BY DEF Times
      <4>2. r.on \in Nat \ {0} /\ r.off \in Nat \ {0}
        BY <3>0, <4>1
      <4> QED  BY <4>2
    <3>2. PICK b : b = Blinking(c, "I", "M", on, off)
      OBVIOUS
    <3>3. IsNew(b)
      BY <3>2, BlinkingIs
    <3>4. mp1_ioctl_add(b)
      BY <1>4, <2>5, <2>6, <2>7, <3>1, <3>2 DEF fish_ioctl
    <3> QED  BY <2>4, <3>3, <3>4, AddStep
  <2>8. CASE r.op = "sync"
    <3>1. mp1_ioctl_sync(Offset, c)
      BY <1>4, <2>5, <2>6, <2>8 DEF fish_ioctl
    <3>2. Offset \in Int /\ c \in Int
      BY FishAssumption
    <3> QED  BY <2>4, <3>1, <3>2, SyncStep
  <2>9. CASE r.op = "remove"
    <3>1. mp1_ioctl_remove(c) /\ c \in Int
      BY <1>4, <2>5, <2>6, <2>9 DEF fish_ioctl
    <3> QED  BY <2>4, <3>1, RemoveStep
  <2> QED  BY <2>7, <2>8, <2>9 DEF Requests
<1>5. CASE fish_end
  <2>1. at' = "halt" /\ UNCHANGED bvars
    BY <1>5 DEF fish_end, return, Still
  <2>2. DrawPart'
    BY <2>1 DEF DrawPart, InFrames
  <2> QED  BY <2>1, <2>2, BlinkSame
<1> QED  BY <1>3, <1>4, <1>5

\* Everything keeps the list sound and the characters in time.
LEMMA BlinkStep ==
  ProgramsStrong /\ BlinkStrong /\ DrawPart /\ [FishNext]_fishvars =>
    (BlinkStrong' \/ BlinkInit') /\ DrawPart'
<1> SUFFICES ASSUME ProgramsStrong, BlinkStrong, DrawPart, [FishNext]_fishvars
             PROVE  (BlinkStrong' \/ BlinkInit') /\ DrawPart'
  OBVIOUS
<1>1. CASE (TypesLine \/ Progress) /\ Still
  <2>1. BlinkStrong'
    BY <1>1, BlinkSame DEF Still
  <2>2. at' \notin FishPlaces \/ UNCHANGED <<at, frame>>
    BY <1>1, NotFish
  <2>3. DrawPart'
    BY <2>2 DEF DrawPart, FishPlaces
  <2> QED  BY <2>1, <2>3
<1>2. CASE shell_reports /\ forget
  <2>1. DOMAIN next = Slots \cup {NULL} /\ SPACE = " "
    BY DEF BlinkStrong, ArrayPart, SPACE
  <2>2. BlinkInit'
    BY <1>2, <2>1 DEF forget, BlinkInit, SPACE
  <2>3. at' = "prompt"
    BY <1>2 DEF shell_reports, report
  <2>4. DrawPart'
    BY <2>3 DEF DrawPart, InFrames
  <2> QED  BY <2>2, <2>4
<1>3. CASE fish
  BY <1>3, FramesDraw, PairDraw, RowDraw, WaitDraw DEF fish
<1>4. CASE UNCHANGED fishvars
  <2>1. UNCHANGED bvars /\ UNCHANGED <<at, frame>>
    BY <1>4 DEF fishvars, vars, cvars
  <2>2. DrawPart'
    BY <2>1 DEF DrawPart
  <2> QED  BY <2>1, <2>2, BlinkSame
<1> QED  BY <1>1, <1>2, <1>3, <1>4 DEF FishNext, FishRunning

\* The invariant of what blinks, throughout a session.
LEMMA BlinkAlways == FishSpec => []BlinkStrong
<1>1. FishInit => BlinkInit /\ DrawPart
  BY DEF FishInit, ProgramsInit, CommandsInit, DrawPart, InFrames
<1> QED  BY <1>1, BlinkStart, BlinkStep, ProgramsAlways, PTL DEF FishSpec

(***************************************************************************)
(* Whatever the frames are and whatever is added, synchronised and removed *)
(* at whatever tick, the list of blinking characters ends, and goes        *)
(* through exactly the elements of blink_array that are in use.            *)
(***************************************************************************)
THEOREM ListCorrect == FishSpec => []ListSound
<1>1. BlinkStrong => ListSound
  BY ListIs DEF ListSound, InUse
<1> QED  BY <1>1, BlinkAlways, PTL

(***************************************************************************)
(* What blinks does so in time: at every tick the screen shows the         *)
(* character of the phase that the clock tells, in every place that        *)
(* nothing else was drawn in since its character last changed, and what    *)
(* was synchronised keeps the status and counter of its partner.           *)
(***************************************************************************)
THEOREM BlinkCorrect == FishSpec => []BlinksInTime
<1>1. ASSUME BlinkStrong PROVE BlinksOnTime
  <2>1. SUFFICES ASSUME NEW s \in InUse \ disturbed
                 PROVE  vmem[blink_array[s].location] =
                          IF Phase(blink_array[s]) < blink_array[s].on_length
                            THEN blink_array[s].on_char ELSE blink_array[s].off_char
    BY <1>1, ListIs DEF BlinksOnTime, Phase
  <2>2. blink_array[s].status = IF Phase(blink_array[s]) < blink_array[s].on_length THEN 1 ELSE 0
    BY <1>1 DEF BlinkStrong, TimePart, InPhase
  <2> QED  BY <1>1, <2>2 DEF BlinkStrong, DrawnPart
<1>2. ASSUME BlinkStrong PROVE InStep
  BY <1>2 DEF BlinkStrong, StepPart, Agree, InStep
<1>3. BlinkStrong => BlinksInTime
  BY <1>1, <1>2 DEF BlinksInTime
<1> QED  BY <1>3, BlinkAlways, PTL

-----------------------------------------------------------------------------
(* Sequences put together, up to the k-th one. *)

IsFlat(seqs, n, g) ==
  g = [k \in 1 .. n |-> IF k = 1 THEN seqs[k] ELSE g[k - 1] \o seqs[k]]

Flat(seqs, k) == IF k = 0 THEN << >> ELSE (CHOOSE g : IsFlat(seqs, Len(seqs), g))[k]

\* Putting sequences together ends, whatever they are.
LEMMA FlatExists ==
  ASSUME NEW seqs, NEW n \in Nat PROVE \E g : IsFlat(seqs, n, g)
<1> DEFINE without == {m \in Nat : ~ \E g : IsFlat(seqs, m, g)}
<1>1. SUFFICES ASSUME without # {} PROVE FALSE
  OBVIOUS
<1>2. PICK m \in without : \A j \in without : m <= j
  BY <1>1, LeastOf
<1>3. m # 0
  <2>1. SUFFICES ASSUME m = 0 PROVE \E g : IsFlat(seqs, m, g)
    BY <1>2
  <2> DEFINE none == [k \in 1 .. m |-> 0]
  <2>2. none = [k \in 1 .. m |-> IF k = 1 THEN seqs[k] ELSE none[k - 1] \o seqs[k]]
    BY <2>1
  <2> QED  BY <2>2 DEF IsFlat
<1>4. m - 1 \in Nat /\ m - 1 \notin without
  BY <1>2, <1>3
<1>5. PICK g : IsFlat(seqs, m - 1, g)
  BY <1>4
<1> DEFINE more == [k \in 1 .. m |-> IF k = m THEN (IF m = 1 THEN seqs[m] ELSE g[m - 1] \o seqs[m])
                                     ELSE g[k]]
<1>6. \A k \in 1 .. m : more[k] = IF k = 1 THEN seqs[k] ELSE more[k - 1] \o seqs[k]
  <2>1. \A k \in 1 .. m - 1 : g[k] = IF k = 1 THEN seqs[k] ELSE g[k - 1] \o seqs[k]
    BY <1>5 DEF IsFlat
  <2>2. SUFFICES ASSUME NEW k \in 1 .. m
                 PROVE  more[k] = IF k = 1 THEN seqs[k] ELSE more[k - 1] \o seqs[k]
    OBVIOUS
  <2>3. CASE k = m
    BY <1>3, <2>3
  <2>4. CASE k # m
    <3>1. k \in 1 .. m - 1 /\ (k # 1 => k - 1 \in 1 .. m /\ k - 1 # m)
      BY <2>4
    <3> QED  BY <2>1, <2>4, <3>1
  <2> QED  BY <2>3, <2>4
<1>7. IsFlat(seqs, m, more)
  BY <1>6 DEF IsFlat
<1> QED  BY <1>2, <1>7

\* FlattenSeq puts one sequence after the other.
LEMMA FlatIs ==
  ASSUME NEW S, NEW seqs \in Seq(Seq(S))
  PROVE  /\ \A k \in 1 .. Len(seqs) : Flat(seqs, k) = Flat(seqs, k - 1) \o seqs[k]
         /\ Seqs!FlattenSeq(seqs) = Flat(seqs, Len(seqs))
<1>1. Len(seqs) \in Nat
  OBVIOUS
<1>2. PICK g : g = CHOOSE h : IsFlat(seqs, Len(seqs), h)
  OBVIOUS
<1>3. IsFlat(seqs, Len(seqs), g)
  BY <1>1, <1>2, FlatExists
<1>4. \A k \in 1 .. Len(seqs) : g[k] = IF k = 1 THEN seqs[k] ELSE g[k - 1] \o seqs[k]
  BY <1>3 DEF IsFlat
<1>5. \A k \in Nat : Flat(seqs, k) = IF k = 0 THEN << >> ELSE g[k]
  BY <1>2 DEF Flat
<1>6. ASSUME NEW k \in 1 .. Len(seqs)
      PROVE  Flat(seqs, k) = Flat(seqs, k - 1) \o seqs[k]
  <2>1. seqs[k] \in Seq(S)
    BY ElementOfSeq
  <2>2. << >> \o seqs[k] = seqs[k]
    BY <2>1, ConcatEmptySeq
  <2>3. Flat(seqs, k) = g[k] /\ Flat(seqs, k - 1) = IF k - 1 = 0 THEN << >> ELSE g[k - 1]
    BY <1>5
  <2>4. CASE k = 1
    <3>1. g[k] = seqs[k] /\ Flat(seqs, k - 1) = << >>
      BY <1>4, <2>3, <2>4
    <3> QED  BY <2>2, <2>3, <3>1
  <2>5. CASE k # 1
    <3>1. k - 1 # 0
      BY <2>5
    <3>2. Flat(seqs, k - 1) = g[k - 1]
      BY <2>3, <3>1
    <3>3. g[k] = g[k - 1] \o seqs[k]
      BY <1>4, <2>5
    <3> QED  BY <2>3, <3>2, <3>3
  <2> QED  BY <2>4, <2>5
<1>7. Seqs!FlattenSeq(seqs) = Flat(seqs, Len(seqs))
  <2>1. CASE Len(seqs) = 0
    <3>1. seqs = << >>
      BY <2>1, EmptySeq
    <3>2. Seqs!FlattenSeq(seqs) = seqs
      BY <2>1 DEF Seqs!FlattenSeq
    <3>3. Flat(seqs, Len(seqs)) = << >>
      BY <2>1 DEF Flat
    <3> QED  BY <3>1, <3>2, <3>3
  <2>2. CASE Len(seqs) # 0
    <3>1. Seqs!FlattenSeq(seqs) = (CHOOSE h : IsFlat(seqs, Len(seqs), h))[Len(seqs)]
      BY <2>2 DEF Seqs!FlattenSeq, IsFlat
    <3> QED  BY <2>2, <3>1 DEF Flat
  <2> QED  BY <2>1, <2>2
<1> QED  BY <1>6, <1>7

-----------------------------------------------------------------------------
(* The numerals of counter. *)

IsDigits(m, g) ==
  g = [n \in 0 .. m |-> IF n = 0 THEN << >> ELSE <<n % RADIX>> \o g[n \div RADIX]]

\* A number without its last digit is smaller.
LEMMA LastDigit ==
  ASSUME NEW n \in Nat \ {0}
  PROVE  /\ n \div RADIX \in 0 .. n - 1 /\ n % RADIX \in 0 .. RADIX - 1
         /\ n = (n \div RADIX) * RADIX + (n % RADIX)
<1>1. RADIX \in Nat /\ RADIX > 1
  BY ProgramsAssumption
<1>2. PICK q \in Int, r \in 0 .. RADIX - 1 :
        q = n \div RADIX /\ r = n % RADIX /\ n = RADIX * q + r
  BY <1>1
<1>3. q >= 0
  <2>1. SUFFICES ASSUME q <= -1 PROVE FALSE
    OBVIOUS
  <2>2. RADIX * q <= RADIX * (-1)
    BY <1>1, <2>1
  <2> QED  BY <1>1, <1>2, <2>2
<1>4. q < n
  <2>1. CASE q = 0
    BY <1>2, <2>1
  <2>2. CASE q > 0
    <3>1. \A x, y \in Nat : x * y \in Nat /\ (x + 2) * y = x * y + 2 * y
      OBVIOUS
    <3>2. PICK x \in Nat, y \in Nat : RADIX = x + 2 /\ q = y
      BY <1>1, <2>2
    <3>3. RADIX * q = x * y + 2 * y /\ x * y \in Nat
      BY <3>1, <3>2
    <3> QED  BY <1>2, <2>2, <3>2, <3>3
  <2> QED  BY <1>3, <2>1, <2>2
<1>5. RADIX * q = q * RADIX
  BY <1>1
<1> QED  BY <1>1, <1>2, <1>3, <1>4, <1>5

\* Up to every number, the digits are defined.
LEMMA DigitsExist ==
  ASSUME NEW m \in Nat PROVE \E g : IsDigits(m, g)
<1> DEFINE without == {n \in Nat : ~ \E g : IsDigits(n, g)}
<1>1. SUFFICES ASSUME without # {} PROVE FALSE
  OBVIOUS
<1>2. PICK n \in without : \A j \in without : n <= j
  BY <1>1, LeastOf
<1>3. n # 0
  <2>1. SUFFICES ASSUME n = 0 PROVE \E g : IsDigits(n, g)
    BY <1>2
  <2> DEFINE none == [k \in 0 .. n |-> << >>]
  <2>2. none = [k \in 0 .. n |-> IF k = 0 THEN << >> ELSE <<k % RADIX>> \o none[k \div RADIX]]
    BY <2>1
  <2> QED  BY <2>2 DEF IsDigits
<1>4. n - 1 \in Nat /\ n - 1 \notin without
  BY <1>2, <1>3
<1>5. PICK g : IsDigits(n - 1, g)
  BY <1>4
<1> DEFINE more == [k \in 0 .. n |-> IF k = n THEN <<n % RADIX>> \o g[n \div RADIX] ELSE g[k]]
<1>6. \A k \in 0 .. n : more[k] = IF k = 0 THEN << >> ELSE <<k % RADIX>> \o more[k \div RADIX]
  <2>1. \A k \in 0 .. n - 1 : g[k] = IF k = 0 THEN << >> ELSE <<k % RADIX>> \o g[k \div RADIX]
    BY <1>5 DEF IsDigits
  <2>2. SUFFICES ASSUME NEW k \in 0 .. n
                 PROVE  more[k] = IF k = 0 THEN << >> ELSE <<k % RADIX>> \o more[k \div RADIX]
    OBVIOUS
  <2>3. CASE k = 0
    <3>1. more[k] = g[k] /\ k \in 0 .. n - 1
      BY <1>3, <2>3
    <3> QED  BY <2>1, <2>3, <3>1
  <2>4. CASE k # 0
    <3>1. k \in Nat \ {0}
      BY <2>4
    <3>2. k \div RADIX \in 0 .. k - 1
      BY <3>1, LastDigit
    <3>3. k \div RADIX \in 0 .. n /\ k \div RADIX # n
      BY <3>2
    <3>4. more[k \div RADIX] = g[k \div RADIX]
      BY <3>3
    <3>5. more[k] = <<k % RADIX>> \o g[k \div RADIX]
      <4>1. CASE k = n
        BY <4>1
      <4>2. CASE k # n
        <5>1. k \in 0 .. n - 1 /\ more[k] = g[k]
          BY <4>2
        <5> QED  BY <2>1, <2>4, <5>1
      <4> QED  BY <4>1, <4>2
    <3> QED  BY <2>4, <3>4, <3>5
  <2> QED  BY <2>3, <2>4
<1>7. IsDigits(n, more)
  BY <1>6 DEF IsDigits
<1> QED  BY <1>2, <1>7

\* They do not depend on how far they are defined.
LEMMA DigitsAgree ==
  ASSUME NEW m \in Nat, NEW n \in Nat, NEW g, NEW h, IsDigits(m, g), IsDigits(n, h),
         NEW k \in Nat, k <= m, k <= n
  PROVE  g[k] = h[k]
<1> DEFINE differ == {j \in Nat : j <= m /\ j <= n /\ g[j] # h[j]}
<1>1. SUFFICES ASSUME differ # {} PROVE FALSE
  OBVIOUS
<1>2. PICK j \in differ : \A x \in differ : j <= x
  BY <1>1, LeastOf
<1>3. j \in 0 .. m /\ j \in 0 .. n
  BY <1>2
<1>4. g[j] = IF j = 0 THEN << >> ELSE <<j % RADIX>> \o g[j \div RADIX]
  BY <1>3 DEF IsDigits
<1>5. h[j] = IF j = 0 THEN << >> ELSE <<j % RADIX>> \o h[j \div RADIX]
  BY <1>3 DEF IsDigits
<1>6. j # 0
  BY <1>2, <1>4, <1>5
<1>7. j \in Nat \ {0}
  BY <1>2, <1>6
<1>8. j \div RADIX \in 0 .. j - 1
  BY <1>7, LastDigit
<1>9. j \div RADIX \in Nat /\ j \div RADIX <= m /\ j \div RADIX <= n /\ ~ (j <= j \div RADIX)
  BY <1>2, <1>8
<1>10. j \div RADIX \notin differ
  BY <1>2, <1>9
<1>11. g[j \div RADIX] = h[j \div RADIX]
  BY <1>9, <1>10
<1>12. g[j] = h[j]
  BY <1>4, <1>5, <1>6, <1>11
<1> QED  BY <1>2, <1>12

\* What itoa takes the digits from.
LEMMA DigitsAre ==
  ASSUME NEW n \in Nat
  PROVE  digits[n] = IF n = 0 THEN << >> ELSE <<n % RADIX>> \o digits[n \div RADIX]
<1> DEFINE upto(m) == CHOOSE g : IsDigits(m, g)
           all == [m \in Nat |-> upto(m)[m]]
           Solves(g) == g = [m \in Nat |-> IF m = 0 THEN << >>
                                           ELSE <<m % RADIX>> \o g[m \div RADIX]]
<1>1. \A m \in Nat : IsDigits(m, upto(m))
  BY DigitsExist
<1> HIDE DEF upto
<1>2. ASSUME NEW m \in Nat
      PROVE  all[m] = IF m = 0 THEN << >> ELSE <<m % RADIX>> \o all[m \div RADIX]
  <2>1. m \in 0 .. m /\ all[m] = upto(m)[m]
    OBVIOUS
  <2>2. upto(m)[m] = IF m = 0 THEN << >> ELSE <<m % RADIX>> \o upto(m)[m \div RADIX]
    <3>1. IsDigits(m, upto(m))
      BY <1>1
    <3> QED  BY <2>1, <3>1 DEF IsDigits
  <2>3. CASE m = 0
    BY <2>1, <2>2, <2>3
  <2>4. CASE m # 0
    <3>1. m \in Nat \ {0}
      BY <2>4
    <3>2. m \div RADIX \in 0 .. m - 1
      BY <3>1, LastDigit
    <3>3. PICK k \in Nat : k = m \div RADIX /\ k <= m /\ k <= k
      BY <3>2
    <3>4. IsDigits(m, upto(m)) /\ IsDigits(k, upto(k))
      BY <1>1
    <3>5. upto(m)[k] = upto(k)[k]
      BY <3>3, <3>4, DigitsAgree
    <3>6. all[k] = upto(k)[k]
      OBVIOUS
    <3> QED  BY <2>1, <2>2, <2>4, <3>3, <3>5, <3>6
  <2> QED  BY <2>3, <2>4
<1>3. Solves(all)
  <2> DEFINE right == [m \in Nat |-> IF m = 0 THEN << >> ELSE <<m % RADIX>> \o all[m \div RADIX]]
  <2>1. \A m \in Nat : all[m] = right[m]
    BY <1>2
  <2>2. all = right
    BY <2>1
  <2> QED  BY <2>2
<1> HIDE DEF all
<1>4. Solves(digits)
  BY <1>3 DEF digits
<1> QED  BY <1>4

\* v gives the values of the first digits of s, up to the n-th.
IsValue(s, n, v) == v = [k \in 0 .. n |-> IF k = 0 THEN 0 ELSE v[k - 1] * RADIX + s[k]]

\* There is one value only.
LEMMA NumberIs ==
  ASSUME NEW s, NEW n \in Nat, Len(s) = n, NEW v, IsValue(s, n, v)
  PROVE  Number(s) = v[n]
<1>1. PICK g : g = CHOOSE h : IsValue(s, n, h)
  OBVIOUS
<1>2. IsValue(s, n, g)
  BY <1>1
<1>3. Number(s) = g[n]
  BY <1>1 DEF Number, IsValue
<1> DEFINE differ == {k \in Nat : k <= n /\ g[k] # v[k]}
<1>4. SUFFICES ASSUME differ # {} PROVE FALSE
  BY <1>3
<1>5. PICK k \in differ : \A j \in differ : k <= j
  BY <1>4, LeastOf
<1>6. k \in 0 .. n /\ g[k] # v[k]
  BY <1>5
<1>7. g[k] = IF k = 0 THEN 0 ELSE g[k - 1] * RADIX + s[k]
  BY <1>2, <1>6 DEF IsValue
<1>8. v[k] = IF k = 0 THEN 0 ELSE v[k - 1] * RADIX + s[k]
  BY <1>6 DEF IsValue
<1>9. k # 0
  BY <1>6, <1>7, <1>8
<1>10. k - 1 \in Nat /\ k - 1 <= n /\ ~ (k <= k - 1)
  BY <1>6, <1>9
<1>11. k - 1 \notin differ
  BY <1>5, <1>10
<1>12. g[k - 1] = v[k - 1]
  BY <1>10, <1>11
<1> QED  BY <1>6, <1>7, <1>8, <1>9, <1>12

\* The digits of n, the highest place first, stand for n.
StandsFor(n) ==
  /\ digits[n] \in Seq(Nat)
  /\ \E v : IsValue(strrev(digits[n]), Len(digits[n]), v) /\ v[Len(digits[n])] = n
  /\ n # 0 => Len(digits[n]) >= 1 /\ strrev(digits[n])[1] # 0

\* One digit more in front is one more at the end when they are reversed.
LEMMA ReversedIs ==
  ASSUME NEW s \in Seq(Nat), NEW t \in Seq(Nat), Len(t) = Len(s) + 1,
         \A k \in 1 .. Len(s) : t[k + 1] = s[k]
  PROVE  /\ strrev(t)[Len(s) + 1] = t[1]
         /\ \A k \in 1 .. Len(s) : strrev(t)[k] = strrev(s)[k]
<1>1. Len(s) \in Nat
  OBVIOUS
<1>4. \A k \in 1 .. Len(s) + 1 : strrev(t)[k] = t[(Len(s) + 1) + 1 - k]
  BY <1>1 DEF strrev
<1>5. strrev(t)[Len(s) + 1] = t[1]
  <2>1. Len(s) + 1 \in 1 .. Len(s) + 1 /\ (Len(s) + 1) + 1 - (Len(s) + 1) = 1
    BY <1>1
  <2> QED  BY <1>4, <2>1
<1>6. ASSUME NEW k \in 1 .. Len(s) PROVE strrev(t)[k] = strrev(s)[k]
  <2>1. /\ k \in 1 .. Len(s) + 1 /\ Len(s) + 1 - k \in 1 .. Len(s)
        /\ (Len(s) + 1) + 1 - k = (Len(s) + 1 - k) + 1
    BY <1>1
  <2>2. strrev(t)[k] = s[Len(s) + 1 - k]
    BY <1>4, <2>1
  <2>3. strrev(s)[k] = s[Len(s) + 1 - k]
    BY DEF strrev
  <2> QED  BY <2>2, <2>3
<1> QED  BY <1>5, <1>6

\* A number is the value of its digits.
LEMMA DigitsStand ==
  ASSUME NEW n \in Nat \ {0}, n \div RADIX \in Nat, StandsFor(n \div RADIX)
  PROVE  StandsFor(n)
<1>1. RADIX \in Nat /\ RADIX > 1
  BY ProgramsAssumption
<1>0. n % RADIX \in 0 .. RADIX - 1 /\ n = (n \div RADIX) * RADIX + (n % RADIX)
  BY LastDigit
<1>2. PICK q \in Nat, d \in Nat : q = n \div RADIX /\ d = n % RADIX /\ n = q * RADIX + d
  <2>1. n % RADIX \in Nat
    BY <1>0, <1>1
  <2> QED  BY <1>0, <2>1
<1>3. PICK s \in Seq(Nat) : s = digits[q]
  BY <1>2 DEF StandsFor
<1>4. PICK t : t = digits[n]
  OBVIOUS
<1>5. t = <<d>> \o s
  BY <1>2, <1>3, <1>4, DigitsAre
<1>6. /\ t \in Seq(Nat) /\ Len(t) = Len(s) + 1 /\ strrev(t)[Len(s) + 1] = d
      /\ \A k \in 1 .. Len(s) : strrev(t)[k] = strrev(s)[k]
  <2>1. Len(s) \in Nat /\ <<d>> \in Seq(Nat) /\ Len(<<d>>) = 1 /\ <<d>>[1] = d
    OBVIOUS
  <2>2. /\ Len(<<d>> \o s) = Len(<<d>>) + Len(s) /\ <<d>> \o s \in Seq(Nat)
        /\ \A k \in 1 .. Len(<<d>>) + Len(s) :
             (<<d>> \o s)[k] = IF k <= Len(<<d>>) THEN <<d>>[k] ELSE s[k - Len(<<d>>)]
    BY <2>1, ConcatProperties
  <2>3. /\ t \in Seq(Nat) /\ Len(t) = Len(s) + 1 /\ t[1] = d
        /\ \A k \in 1 .. Len(s) : t[k + 1] = s[k]
    BY <1>5, <2>1, <2>2
  <2> QED  BY <2>3, ReversedIs
<1>7. PICK l \in Nat : l = Len(s)
  OBVIOUS
<1>8. PICK v : IsValue(strrev(s), l, v) /\ v[l] = q
  BY <1>2, <1>3, <1>7 DEF StandsFor
<1> DEFINE w == [k \in 0 .. l + 1 |-> IF k = l + 1 THEN n ELSE v[k]]
<1>9. ASSUME NEW k \in 0 .. l + 1
      PROVE  w[k] = IF k = 0 THEN 0 ELSE w[k - 1] * RADIX + strrev(t)[k]
  <2>1. CASE k = l + 1
    <3>1. k # 0 /\ k - 1 = l /\ l \in 0 .. l + 1 /\ l # l + 1
      BY <1>7, <2>1
    <3>2. w[k - 1] = q /\ w[k] = n
      BY <1>8, <2>1, <3>1
    <3>3. strrev(t)[k] = d
      BY <1>6, <1>7, <2>1
    <3> QED  BY <1>2, <3>1, <3>2, <3>3
  <2>2. CASE k # l + 1
    <3>1. k \in 0 .. l
      BY <2>2
    <3>2. v[k] = IF k = 0 THEN 0 ELSE v[k - 1] * RADIX + strrev(s)[k]
      BY <1>8, <3>1 DEF IsValue
    <3>3. w[k] = v[k]
      BY <2>2
    <3>4. CASE k = 0
      BY <3>2, <3>3, <3>4
    <3>5. CASE k # 0
      <4>1. k \in 1 .. l /\ k - 1 \in 0 .. l + 1 /\ k - 1 # l + 1
        BY <3>1, <3>5
      <4>2. strrev(t)[k] = strrev(s)[k]
        BY <1>6, <1>7, <4>1
      <4>3. w[k - 1] = v[k - 1]
        BY <4>1
      <4> QED  BY <3>2, <3>3, <3>5, <4>2, <4>3
    <3> QED  BY <3>4, <3>5
  <2> QED  BY <2>1, <2>2
<1>10. IsValue(strrev(t), l + 1, w) /\ w[l + 1] = n
  BY <1>9 DEF IsValue
<1> HIDE DEF w
<1>11. strrev(t)[1] # 0
  <2>1. CASE q = 0
    <3>0. digits[q] = IF q = 0 THEN << >> ELSE <<q % RADIX>> \o digits[q \div RADIX]
      BY DigitsAre
    <3>1. s = << >> /\ Len(s) = 0
      BY <1>3, <2>1, <3>0
    <3>2. strrev(t)[0 + 1] = d
      BY <1>6, <3>1
    <3>3. q * RADIX = 0 /\ 0 + 1 = 1
      BY <1>1, <2>1
    <3>4. d # 0
      BY <1>2, <3>3
    <3> QED  BY <3>2, <3>3, <3>4
  <2>2. CASE q # 0
    <3>1. Len(s) >= 1 /\ strrev(s)[1] # 0
      BY <1>2, <1>3, <2>2 DEF StandsFor
    <3>2. 1 \in 1 .. Len(s)
      BY <1>7, <3>1
    <3> QED  BY <1>6, <3>1, <3>2
  <2> QED  BY <2>1, <2>2
<1> QED  BY <1>4, <1>6, <1>7, <1>10, <1>11 DEF StandsFor

\* itoa writes the number it is given, without leading zeros.
LEMMA ItoaIs ==
  ASSUME NEW n \in Nat \ {0} PROVE Number(itoa(n)) = n /\ itoa(n)[1] # 0
<1> DEFINE wrong == {m \in Nat : ~ StandsFor(m)}
<1>1. wrong = {}
  <2>1. SUFFICES ASSUME wrong # {} PROVE FALSE
    OBVIOUS
  <2>2. PICK m \in wrong : \A j \in wrong : m <= j
    BY <2>1, LeastOf
  <2>3. m # 0
    <3> DEFINE v == [k \in 0 .. 0 |-> 0]
    <3>1. digits[0] = << >>
      BY DigitsAre
    <3>2. v = [k \in 0 .. 0 |-> IF k = 0 THEN 0 ELSE v[k - 1] * RADIX + strrev(<< >>)[k]]
      OBVIOUS
    <3>3. IsValue(strrev(<< >>), 0, v) /\ v[0] = 0
      BY <3>2 DEF IsValue
    <3>4. << >> \in Seq(Nat) /\ Len(<< >>) = 0
      OBVIOUS
    <3> HIDE DEF v
    <3>5. StandsFor(0)
      BY <3>1, <3>3, <3>4 DEF StandsFor
    <3> QED  BY <2>2, <3>5
  <2>4. m \in Nat \ {0} /\ m \div RADIX \in 0 .. m - 1
    BY <2>2, <2>3, LastDigit
  <2>5. m \div RADIX \in Nat /\ ~ (m <= m \div RADIX)
    BY <2>4
  <2>6. StandsFor(m \div RADIX)
    BY <2>2, <2>5
  <2>7. StandsFor(m)
    BY <2>4, <2>5, <2>6, DigitsStand
  <2> QED  BY <2>2, <2>7
<1>2. StandsFor(n)
  BY <1>1
<1>3. PICK s \in Seq(Nat) : s = digits[n]
  BY <1>2 DEF StandsFor
<1>4. PICK l \in Nat : l = Len(s)
  OBVIOUS
<1>5. PICK v : IsValue(strrev(s), l, v) /\ v[l] = n
  BY <1>2, <1>3, <1>4 DEF StandsFor
<1>6. strrev(s) \in Seq(Nat) /\ Len(strrev(s)) = l
  <2>1. strrev(s) = [k \in 1 .. l |-> s[l + 1 - k]]
    BY <1>4 DEF strrev
  <2>2. \A k \in 1 .. l : s[l + 1 - k] \in Nat
    BY <1>4
  <2>3. strrev(s) \in Seq(Nat) /\ DOMAIN strrev(s) = 1 .. l
    BY <2>1, <2>2, IsASeq
  <2> QED  BY <2>3, LenProperties
<1>7. Number(strrev(s)) = n
  BY <1>5, <1>6, NumberIs
<1>8. itoa(n) = strrev(s)
  BY <1>3 DEF itoa
<1> QED  BY <1>2, <1>3, <1>7, <1>8 DEF StandsFor

-----------------------------------------------------------------------------
(***************************************************************************)
(* What cat, ls and counter print.  A listing starts with the first entry  *)
(* of the directory because read_index is 0 whenever no directory is open, *)
(* whatever ran before.                                                    *)
(***************************************************************************)
IndexPart == read_index = 0 \/ \E d \in Fds : fdt[d].type = DIR_TYPE

\* The places of the programs that print something else.
OtherPlaces ==
  {GREP, SIGTEST, OWN, FISH, "grep_dir", "sigtest_name", "own_end", "fish_open1",
   "fish_open2", "fish_wait"} \cup InDir \cup InFrames

\* Neither read_index nor an open directory changes.
LEMMA IndexKeeps ==
  ASSUME IndexPart, read_index' = read_index,
         \A d \in Fds : fdt[d].type = DIR_TYPE => fdt'[d].type = DIR_TYPE
  PROVE  IndexPart'
BY DEF IndexPart

\* Opening a file.
LEMMA IndexOpen ==
  ASSUME CallsPart, IndexPart, NEW fname \in Seq(Typed), sys_open(fname) PROVE IndexPart'
<1>1. /\ \A d \in Fds : d # fd' => fdt'[d] = fdt[d]
      /\ fd' # -1 => fdt[fd'] = Closed
  BY OpenStep
<1>2. \A d \in Fds : d # -1 /\ (fdt[d].type = DIR_TYPE => fdt[d] # Closed)
  BY SizesType DEF Fds, MIN_FD_INDEX, Closed, DIR_TYPE
<1>3. \A d \in Fds : fdt[d].type = DIR_TYPE => fdt'[d].type = DIR_TYPE
  BY <1>1, <1>2
<1>4. read_index' = read_index
  BY DEF sys_open
<1> QED  BY <1>3, <1>4, IndexKeeps

\* Reading moves read_index only while the directory read is open.
LEMMA IndexRead ==
  ASSUME CallsPart, IndexPart, NEW d \in Fds, NEW array, NEW count \in Nat,
         sys_read(d, array, count)
  PROVE  IndexPart'
<1>1. \A e \in Fds : fdt'[e].type = fdt[e].type
  BY ReadCall
<1>2. fdt[d].type = DIR_TYPE \/ read_index' = read_index
  BY DEF sys_read, rtc_read, file_read
<1>3. CASE fdt[d].type = DIR_TYPE
  BY <1>1, <1>3 DEF IndexPart
<1>4. CASE read_index' = read_index
  BY <1>1, <1>4, IndexKeeps
<1> QED  BY <1>2, <1>3, <1>4

\* Closing a directory resets it.
LEMMA IndexClose ==
  ASSUME CallsPart, IndexPart, NEW d, sys_close(d) PROVE IndexPart'
<1>1. /\ fdt' = [fdt EXCEPT ![d] = Closed] /\ fdt \in [Fds -> Descriptors]
      /\ read_index' = IF fdt[d].type = DIR_TYPE THEN 0 ELSE read_index
  BY DEF sys_close, dir_close, CallsPart, TablePart
<1>2. CASE fdt[d].type = DIR_TYPE
  BY <1>1, <1>2 DEF IndexPart
<1>3. CASE fdt[d].type # DIR_TYPE
  <2>1. \A e \in Fds : fdt[e].type = DIR_TYPE => fdt'[e].type = DIR_TYPE
    BY <1>1, <1>3
  <2> QED  BY <1>1, <1>3, <2>1, IndexKeeps
<1> QED  BY <1>2, <1>3

\* grep.
LEMMA GrepIndex ==
  ASSUME ProgramsStrong, IndexPart, grep
  PROVE  /\ IndexPart' /\ UNCHANGED session
         /\ at \in OtherPlaces /\ at' \in (OtherPlaces \ Codes) \cup {"halt"}
<1>0. GrepPart /\ CallsPart
  BY DEF ProgramsStrong, PlacePart
<1>1. at \in OtherPlaces
  BY DEF grep, grep_args, grep_dir, grep_next, grep_name, grep_open, grep_read, grep_got,
         grep_line, grep_close, OtherPlaces, InDir, InFile
<1>2. at' \in (OtherPlaces \ Codes) \cup {"halt"}
  <2>1. at' \in {"grep_dir", "grep_next", "grep_name", "grep_open", "grep_read", "grep_got",
                 "grep_line", "grep_close", "halt"}
    BY GrepDirStep, GrepFileStep DEF grep
  <2> QED  BY <2>1 DEF OtherPlaces, InDir, InFile, Codes, CAT, LS, GREP, COUNTER, SIGTEST, OWN, FISH
<1>3. UNCHANGED session
  BY DEF grep, grep_args, grep_dir, grep_next, grep_name, grep_open, grep_read, grep_got,
         grep_line, grep_close, ArgsOr, OpenOr, ReadThen, Idle
<1>4. CASE grep_args \/ grep_name \/ grep_got \/ grep_line
  <2>1. UNCHANGED files
    BY <1>4 DEF grep_args, grep_name, grep_got, grep_line, ArgsOr, Idle
  <2> QED  BY <1>1, <1>2, <1>3, <2>1, IndexKeeps DEF files
<1>5. CASE grep_dir
  <2>1. sys_open(DirName) /\ DirName \in Seq(Typed)
    BY <1>5, CommandsAssumption, NameTyped DEF grep_dir, OpenOr
  <2> QED  BY <1>0, <1>1, <1>2, <1>3, <2>1, IndexOpen
<1>6. CASE grep_open
  <2>1. at = "grep_open" /\ sys_open(frame.fname)
    BY <1>6 DEF grep_open, OpenOr
  <2>2. frame.fname \in Seq(Typed)
    BY <1>0, <2>1, NameTyped DEF GrepPart, IsName
  <2> QED  BY <1>0, <1>1, <1>2, <1>3, <2>1, <2>2, IndexOpen
<1>7. CASE grep_next
  <2>1. at = "grep_next" /\ sys_read(frame.dir, "name_buf", SBUFSIZE - 1)
    BY <1>7 DEF grep_next, ReadThen
  <2>2. frame.dir \in Fds /\ SBUFSIZE - 1 \in Nat
    BY <1>0, <2>1, SizesType DEF GrepPart, HasType, InDir
  <2> QED  BY <1>0, <1>1, <1>2, <1>3, <2>1, <2>2, IndexRead
<1>8. CASE grep_read
  <2>1. at = "grep_read" /\ sys_read(fd, "data", GrepBuf - frame.last)
    BY <1>8 DEF grep_read, ReadThen
  <2>2. fd \in Fds /\ frame.last \in 0 .. GrepBuf /\ GrepBuf \in Nat
    BY <1>0, <2>1, SizesType DEF GrepPart, NotDir, InFile
  <2>3. PICK c \in Nat : c = GrepBuf - frame.last
    BY <2>2
  <2> QED  BY <1>0, <1>1, <1>2, <1>3, <2>1, <2>2, <2>3, IndexRead
<1>9. CASE grep_close
  <2>1. sys_close(fd)
    BY <1>9 DEF grep_close
  <2> QED  BY <1>0, <1>1, <1>2, <1>3, <2>1, IndexClose
<1> QED  BY <1>4, <1>5, <1>6, <1>7, <1>8, <1>9 DEF grep

\* fish, which closes its frames and the RTC.
LEMMA FishIndex ==
  ASSUME ProgramsStrong, IndexPart, fish
  PROVE  /\ IndexPart' /\ UNCHANGED session
         /\ at \in OtherPlaces /\ at' \in (OtherPlaces \ Codes) \cup {"halt"}
<1>0. FishPart /\ CallsPart
  BY DEF ProgramsStrong, PlacePart
<1>1. at \in OtherPlaces
  BY DEF fish, fish_open_rtc, fish_open1, fish_open2, fish_read, fish_skip, fish_got, fish_pair,
         fish_row, fish_tick, fish_ioctl, fish_end, OtherPlaces, InFrames
<1>2. at' \in (OtherPlaces \ Codes) \cup {"halt"}
  <2>1. at' \in InFrames \cup {"fish_open1", "fish_open2", "fish_wait", "halt"}
    BY FishOpenStep, FishFramesStep, FishWaitStep DEF fish, InFrames
  <2> QED  BY <2>1 DEF OtherPlaces, InFrames, Codes, CAT, LS, GREP, COUNTER, SIGTEST, OWN, FISH
<1>3. CASE fish_open_rtc
  <2>1. sys_open(RtcName) /\ UNCHANGED session
    BY <1>3 DEF fish_open_rtc
  <2>2. RtcName \in Seq(Typed)
    BY FishAssumption, ImageType, NameTyped
  <2> QED  BY <1>0, <1>1, <1>2, <2>1, <2>2, IndexOpen
<1>4. CASE fish_open1 \/ fish_open2
  <2>0. (sys_open(Frames[1]) \/ sys_open(Frames[2])) /\ UNCHANGED session
    BY <1>4 DEF fish_open1, fish_open2, OpenOr
  <2>1. PICK f \in 1 .. 2 : sys_open(Frames[f])
    BY <2>0
  <2>2. Frames \in Seq(Seq(Letters) \ {DirName}) /\ Len(Frames) = 2
    BY FishAssumption
  <2>3. Frames[f] \in Seq(Letters) \ {DirName}
    BY <2>2, ElementOfSeq
  <2>4. Frames[f] \in Seq(Typed)
    BY <2>3, NameTyped
  <2> QED  BY <1>0, <1>1, <1>2, <2>0, <2>1, <2>4, IndexOpen
<1>5. CASE fish_read
  <2>1. /\ at = "fish_read" /\ sys_read(frame.fds[frame.f], "c", 1) /\ UNCHANGED session
    BY <1>5 DEF fish_read, ReadThen
  <2>2. frame.f \in 1 .. 2 /\ \E d, e \in Fds : frame.fds = <<d, e>>
    BY <1>0, <2>1 DEF FishPart, InFrames
  <2>3. frame.fds[frame.f] \in Fds
    BY <2>2
  <2> QED  BY <1>0, <1>1, <1>2, <2>1, <2>3, IndexRead
<1>6. CASE fish_skip \/ fish_got \/ fish_pair
  <2>1. UNCHANGED <<session, files>>
    BY <1>6 DEF fish_skip, fish_got, fish_pair, Idle
  <2> QED  BY <1>1, <1>2, <2>1, IndexKeeps DEF files
<1>7. CASE fish_row
  <2>1. /\ at = "fish_pair" /\ UNCHANGED <<session, read_index>>
        /\ fdt' = [d \in Fds |-> IF \E f \in 1 .. 2 : frame.eof[f] /\ frame.fds[f] = d
                                   THEN Closed ELSE fdt[d]]
    BY <1>7 DEF fish_row
  <2>2. PICK d \in Fds, e \in Fds : frame.fds = <<d, e>> /\ NotDir(d) /\ NotDir(e)
    BY <1>0, <2>1 DEF FishPart, InFrames
  <2>3. \A f \in 1 .. 2 : frame.fds[f] \in {d, e}
    BY <2>2
  <2>4. \A g \in Fds : fdt[g].type = DIR_TYPE => fdt'[g] = fdt[g]
    BY <2>1, <2>2, <2>3 DEF NotDir
  <2> QED  BY <1>1, <1>2, <2>1, <2>4, IndexKeeps
<1>8. CASE fish_tick \/ fish_ioctl
  <2>1. UNCHANGED <<session, files>>
    BY <1>8 DEF fish_tick, fish_ioctl, Idle
  <2> QED  BY <1>1, <1>2, <2>1, IndexKeeps DEF files
<1>9. CASE fish_end
  <2>1. sys_close(frame.rtc) /\ UNCHANGED session
    BY <1>9 DEF fish_end
  <2> QED  BY <1>0, <1>1, <1>2, <2>1, IndexClose
<1> QED  BY <1>3, <1>4, <1>5, <1>6, <1>7, <1>8, <1>9 DEF fish

\* sigtest and a program of the user's own.
LEMMA SmallIndex ==
  ASSUME IndexPart, sigtest_args \/ sigtest_fault \/ own
  PROVE  /\ IndexPart' /\ UNCHANGED session
         /\ at \in OtherPlaces /\ at' \in (OtherPlaces \ Codes) \cup {"halt"}
<1>1. UNCHANGED <<session, files>>
  BY DEF sigtest_args, sigtest_fault, own, own_call, own_end, ArgsOr, Idle
<1>2. IndexPart'
  BY <1>1, IndexKeeps DEF files
<1>3. at \in {SIGTEST, "sigtest_name", OWN, "own_end"} /\ at' \in {"sigtest_name", "own_end", "halt"}
  BY DEF sigtest_args, sigtest_fault, own, own_call, own_end, ArgsOr, GoTo, return
<1>4. at' \notin Codes
  BY <1>3 DEF Codes, CAT, LS, GREP, COUNTER, SIGTEST, OWN, FISH
<1> QED  BY <1>1, <1>2, <1>3, <1>4 DEF OtherPlaces

\* The programs whose output is the subject.
LEMMA PrinterIndex ==
  ASSUME ProgramsStrong, IndexPart, cat \/ ls \/ counter_choice \/ counter_loop
  PROVE  IndexPart' /\ UNCHANGED session
<1>0. CallsPart /\ CatPart /\ LsPart
  BY DEF ProgramsStrong, PlacePart
<1>1. CASE cat_args \/ cat_write \/ ls_write \/ counter_choice \/ counter_loop
  <2>1. UNCHANGED <<session, files>>
    BY <1>1 DEF cat_args, cat_write, ls_write, counter_choice, counter_loop, ArgsOr, Idle
  <2> QED  BY <2>1, IndexKeeps DEF files
<1>2. CASE cat_open
  <2>1. sys_open(cmd_args) /\ UNCHANGED session /\ cmd_args \in Seq(Typed)
    BY <1>2 DEF cat_open, OpenOr, ProgramsStrong, LinePart
  <2> QED  BY <1>0, <2>1, IndexOpen
<1>3. CASE ls_open
  <2>1. sys_open(DirName) /\ UNCHANGED session /\ DirName \in Seq(Typed)
    BY <1>3, CommandsAssumption, NameTyped DEF ls_open, OpenOr
  <2> QED  BY <1>0, <2>1, IndexOpen
<1>4. CASE cat_read
  <2>1. at = "cat_read" /\ sys_read(fd, "cat_buf", CatBuf) /\ UNCHANGED session
    BY <1>4 DEF cat_read, ReadThen
  <2>2. fd \in Fds /\ CatBuf \in Nat
    BY <1>0, <2>1, SizesType DEF CatPart, IsOpen
  <2> QED  BY <1>0, <2>1, <2>2, IndexRead
<1>5. CASE ls_read
  <2>1. at = "ls_read" /\ sys_read(fd, "name_buf", SBUFSIZE - 1) /\ UNCHANGED session
    BY <1>5 DEF ls_read, ReadThen
  <2>2. fd \in Fds /\ SBUFSIZE - 1 \in Nat
    BY <1>0, <2>1, SizesType DEF LsPart, HasType
  <2> QED  BY <1>0, <2>1, <2>2, IndexRead
<1> QED  BY <1>1, <1>2, <1>3, <1>4, <1>5 DEF cat, ls

\* Before a program has opened or written anything.
Early ==
  {"prompt", "parse", "find", "magic", "check_magic", "load", "cat_open"} \cup Codes

TidyPart ==
  /\ IndexPart
  /\ at \in Early \cup {"report"} => fdt = NewTable
  /\ at \in Early => out = << >>

\* No directory is open in a new table.
LEMMA NewTableIs == fdt = NewTable => \A d \in Fds : fdt[d].type # DIR_TYPE
BY DEF NewTable, Closed, DIR_TYPE

\* The shell and the kernel leave nothing behind.
LEMMA KernelTidy ==
  ASSUME ProgramsStrong, TidyPart, kernel \/ read_line \/ report PROVE TidyPart'
<1>1. CASE read_line \/ parse_command \/ find_command \/ read_magic \/ check_magic
  <2>1. /\ at \in Early /\ at' \in Early \cup {"report"} /\ UNCHANGED <<files, out>>
    BY <1>1 DEF read_line, parse_command, find_command, read_magic, check_magic,
                execute_returns, Early
  <2>2. IndexPart'
    BY <2>1, IndexKeeps DEF TidyPart, files
  <2> QED  BY <2>1, <2>2 DEF TidyPart, files, NewTable, Closed
<1>2. CASE start_program
  <2>1. /\ at \in Early /\ at' \in Codes /\ fdt' = NewTable /\ UNCHANGED <<read_index, out>>
    BY <1>2, StartsAProgram DEF start_program, Early
  <2>2. fdt = NewTable /\ fdt' = fdt /\ out = << >>
    BY <2>1 DEF TidyPart
  <2>3. IndexPart'
    BY <2>1, <2>2, IndexKeeps DEF TidyPart
  <2> QED  BY <2>1, <2>2, <2>3 DEF TidyPart, Early
<1>3. CASE copying
  <2>1. UNCHANGED <<files, at, out>>
    BY <1>3 DEF copying
  <2>2. IndexPart'
    BY <2>1, IndexKeeps DEF TidyPart, files
  <2> QED  BY <2>1, <2>2 DEF TidyPart, files
<1>4. CASE copied
  <2>1. /\ \A e \in Fds : fdt'[e].type = fdt[e].type
        /\ reading = -1 => UNCHANGED files
        /\ UNCHANGED <<at, out>>
    BY <1>4, CopiedStep DEF ProgramsStrong
  <2>2. read_index' = read_index
    BY <1>4 DEF copied, files
  <2>3. IndexPart'
    BY <2>1, <2>2, IndexKeeps DEF TidyPart
  <2>4. ASSUME at \in Early \cup {"report"} PROVE reading = -1
    <3>1. \A d \in Fds : fdt[d].type = -1
      BY <2>4 DEF TidyPart, NewTable, Closed
    <3> QED  BY <3>1 DEF ProgramsStrong, CallsPart, ReadPart, HasType, FILE_TYPE
  <2> QED  BY <2>1, <2>3, <2>4 DEF TidyPart, files
<1>5. CASE halt
  <2>1. at' = "report" /\ fdt' = NewTable /\ read_index' = dir_close(Fds)
    BY <1>5 DEF halt
  <2>2. read_index' = 0
    BY <2>1 DEF dir_close, TidyPart, IndexPart
  <2>3. at' \notin Early
    BY <2>1 DEF Early, Codes, CAT, LS, GREP, COUNTER, SIGTEST, OWN, FISH
  <2> QED  BY <2>1, <2>2, <2>3 DEF TidyPart, IndexPart
<1>6. CASE report
  <2>1. at = "report" /\ at' = "prompt" /\ out' = << >> /\ UNCHANGED <<fdt, read_index>>
    BY <1>6 DEF report
  <2>2. IndexPart'
    BY <2>1, IndexKeeps DEF TidyPart
  <2> QED  BY <2>1, <2>2 DEF TidyPart
<1> QED  BY <1>1, <1>2, <1>3, <1>4, <1>5, <1>6 DEF kernel

\* A program starts with nothing open and nothing written.
LEMMA ProgramsTidy ==
  ASSUME ProgramsStrong, TidyPart,
         cat \/ ls \/ grep \/ counter_choice \/ counter_loop \/ sigtest_args \/ sigtest_fault
            \/ own \/ fish
  PROVE  TidyPart'
<1>1. CASE cat \/ ls \/ counter_choice \/ counter_loop
  <2>1. IndexPart'
    BY <1>1, PrinterIndex DEF TidyPart
  <2>2. CASE cat_args
    <3>1. at \in Early /\ UNCHANGED <<files, out>>
      BY <2>2 DEF cat_args, ArgsOr, Idle, Early, Codes
    <3> QED  BY <2>1, <3>1 DEF TidyPart, files
  <2>3. CASE cat_open \/ cat_read \/ cat_write
    <3>1. at' \in {"cat_read", "cat_write", "halt"}
      BY <2>3 DEF cat_open, cat_read, cat_write, OpenOr, ReadThen, GoTo, return
    <3>2. at' \notin Early \cup {"report"}
      BY <3>1 DEF Early, Codes, CAT, LS, GREP, COUNTER, SIGTEST, OWN, FISH
    <3> QED  BY <2>1, <3>2 DEF TidyPart
  <2>4. CASE ls \/ counter_choice \/ counter_loop
    <3>1. at' \in {"ls_read", "ls_write", "counter_loop", "halt"}
      BY <2>4 DEF ls, ls_open, ls_read, ls_write, counter_choice, counter_loop, OpenOr, ReadThen,
                  GoTo, return
    <3>2. at' \notin Early \cup {"report"}
      BY <3>1 DEF Early, Codes, CAT, LS, GREP, COUNTER, SIGTEST, OWN, FISH
    <3> QED  BY <2>1, <3>2 DEF TidyPart
  <2> QED  BY <1>1, <2>2, <2>3, <2>4 DEF cat
<1>2. CASE grep \/ sigtest_args \/ sigtest_fault \/ own \/ fish
  <2>1. IndexPart' /\ at' \in (OtherPlaces \ Codes) \cup {"halt"}
    BY <1>2, GrepIndex, FishIndex, SmallIndex DEF TidyPart
  <2>2. at' \notin Early \cup {"report"}
    <3>1. at' \notin Codes
      BY <2>1 DEF Codes, CAT, LS, GREP, COUNTER, SIGTEST, OWN, FISH
    <3>2. at' \in {"grep_dir", "sigtest_name", "own_end", "fish_open1", "fish_open2", "fish_wait",
                   "halt"} \cup InDir \cup InFrames
      BY <2>1, <3>1 DEF OtherPlaces, Codes
    <3> QED  BY <3>1, <3>2 DEF InDir, InFile, InFrames, Early
  <2> QED  BY <2>1, <2>2 DEF TidyPart
<1> QED  BY <1>1, <1>2

\* Every step keeps it.
LEMMA TidyStep == ProgramsStrong /\ TidyPart /\ [FishNext]_fishvars => TidyPart'
<1> SUFFICES ASSUME ProgramsStrong, TidyPart, [FishNext]_fishvars PROVE TidyPart'
  OBVIOUS
<1>1. CASE UNCHANGED fishvars
  <2>1. UNCHANGED <<files, at, out>>
    BY <1>1 DEF fishvars, vars, cvars
  <2>2. IndexPart'
    BY <2>1, IndexKeeps DEF TidyPart, files
  <2> QED  BY <2>1, <2>2 DEF TidyPart, files
<1> QED  BY <1>1, KernelTidy, ProgramsTidy DEF FishNext, FishRunning, TypesLine, Progress, shell_reports

-----------------------------------------------------------------------------
(* Which program runs, and with which arguments. *)

CatPlaces     == {CAT, "cat_open", "cat_read", "cat_write"}
LsPlaces      == {LS, "ls_read", "ls_write"}
CounterPlaces == {COUNTER, "counter_loop"}

\* The code of the program that was executed.
Ran == Text(Inode)[ELF_SIZE + 1]

WhoPart ==
  /\ at = "find" => f_cmd = parsed(line).name /\ cmd_args = parsed(line).args
  /\ at \in Found \cup {CAT} => Len(cmd_args) < CatBuf
  /\ at \in CatPlaces => Ran = CAT
  /\ at \in LsPlaces => Ran = LS
  /\ at \in CounterPlaces => Ran = COUNTER
  /\ at \in OtherPlaces => Ran \notin {CAT, LS, COUNTER}

\* The files and the entry executed do not change.
LEMMA RanSame ==
  ASSUME UNCHANGED session
  PROVE  /\ Ran' = Ran /\ cmd_args' = cmd_args
         /\ \A e \in DOMAIN Directory : Text(EntryInodes[e])' = Text(EntryInodes[e])
BY DEF session, Ran, Text, Inode, Chars, Contents, inode, ELF_SIZE

\* Behind a name, what is left of the line fits the buffer of cat.
LEMMA RestFits ==
  ASSUME LinePart, Len(parsed(line).name) > 0 PROVE Len(parsed(line).args) < CatBuf
<1>1. line \in Seq(Typed) /\ Len(line) \in Nat /\ Len(line) < KEY_BUF_SIZE
      /\ \A k \in 1 .. Len(line) : line[k] \in Typed
  BY DEF LinePart
<1>2. PICK f \in Nat, n \in Nat :
        /\ FirstWord(f, n)
        /\ parsed(line).name = SubSeq(line, f + 1, f + n)
        /\ parsed(line).args = SubSeq(line, f + n + 2, Len(line))
  BY ParsedIs
<1>3. n <= Len(line) - f
  BY <1>1, <1>2 DEF FirstWord
<1>4. n >= 1
  <2>1. \A k \in f + 1 .. f + n : line[k] \in Typed
    BY <1>1, <1>3
  <2>2. Len(SubSeq(line, f + 1, f + n)) = IF f + 1 <= f + n THEN (f + n) - (f + 1) + 1 ELSE 0
    BY <2>1, SubSeqProperties
  <2> QED  BY <1>2, <2>2
<1>5. Len(parsed(line).args) = IF f + n + 2 <= Len(line) THEN Len(line) - (f + n + 2) + 1 ELSE 0
  <2>1. \A k \in f + n + 2 .. Len(line) : line[k] \in Typed
    BY <1>1
  <2>2. f + n + 2 \in Int /\ Len(line) \in Int
    BY <1>1
  <2> QED  BY <1>2, <2>1, <2>2, SubSeqProperties
<1>6. KEY_BUF_SIZE \in Nat /\ CatBuf \in Nat \ {0} /\ KEY_BUF_SIZE <= CatBuf + 2
  BY CommandsAssumption
<1> QED  BY <1>1, <1>4, <1>5, <1>6

\* The place where a program starts is its code.
LEMMA StartsRan ==
  ASSUME ProgramsStrong, start_program PROVE at' = Ran
<1>1. at = "load" /\ pc = "idle" /\ at' = Code
  BY DEF start_program
<1>2. AskedFor(inode(Inode).length) /\ HasMagic(disk, Inode) /\ CallsPart /\ disk \in Disks
  BY <1>1 DEF ProgramsStrong, LoadPart
<1>3. Inode \in 0 .. NumInodes - 1 /\ ELF_SIZE \in Nat
  BY <1>2, EntryType, CommandsAssumption DEF AskedFor, Inode, ELF_SIZE
<1>4. inode(Inode).length \in Nat
  BY <1>3, ImageType
<1>5. inode(Inode).length > ELF_SIZE
  BY <1>2, <1>3, FishAssumption
<1>6. /\ result = inode(Inode).length
      /\ \A k \in 1 .. result : Chars(buf)[k] = disk[Contents(Inode)[k]]
  BY <1>1, <1>2, <1>3, <1>4, StartOfFile DEF AskedFor
<1>7. ELF_SIZE + 1 \in 1 .. inode(Inode).length
  BY <1>3, <1>4, <1>5
<1>8. Contents(Inode) \in Seq(FileBytes(Inode)) /\ Len(Contents(Inode)) = inode(Inode).length
  BY <1>3, ContentsAre
<1>9. Text(Inode)[ELF_SIZE + 1] = disk[Contents(Inode)[ELF_SIZE + 1]]
  BY <1>7, <1>8, CharsAre DEF Text
<1> QED  BY <1>1, <1>6, <1>7, <1>9 DEF Code, Ran

\* No place belongs to two programs.
LEMMA PlacesApart ==
  /\ CatPlaces \cap (LsPlaces \cup CounterPlaces \cup OtherPlaces) = {}
  /\ LsPlaces \cap (CounterPlaces \cup OtherPlaces) = {}
  /\ CounterPlaces \cap OtherPlaces = {}
  /\ {"prompt", "parse", "find", "magic", "check_magic", "load", "halt", "report"} \cap
       (CatPlaces \cup LsPlaces \cup CounterPlaces \cup OtherPlaces \cup Codes) = {}
<1>1. CatPlaces \cap (LsPlaces \cup CounterPlaces \cup OtherPlaces) = {}
  BY DEF CatPlaces, LsPlaces, CounterPlaces, OtherPlaces, InDir, InFile, InFrames, CAT, LS, GREP,
         COUNTER, SIGTEST, OWN, FISH
<1>2. LsPlaces \cap (CounterPlaces \cup OtherPlaces) = {}
  BY DEF LsPlaces, CounterPlaces, OtherPlaces, InDir, InFile, InFrames, LS, GREP,
         COUNTER, SIGTEST, OWN, FISH
<1>3. CounterPlaces \cap OtherPlaces = {}
  BY DEF CounterPlaces, OtherPlaces, InDir, InFile, InFrames, GREP, COUNTER, SIGTEST, OWN, FISH
<1>4. {"prompt", "parse", "find", "magic", "check_magic", "load", "halt", "report"} \cap
        (CatPlaces \cup LsPlaces \cup CounterPlaces \cup OtherPlaces \cup Codes) = {}
  BY DEF CatPlaces, LsPlaces, CounterPlaces, OtherPlaces, InDir, InFile, InFrames, Codes, CAT, LS,
         GREP, COUNTER, SIGTEST, OWN, FISH
<1> QED  BY <1>1, <1>2, <1>3, <1>4

\* Where nothing is known of the program.
LEMMA WhoOutside ==
  ASSUME at' \in {"prompt", "parse", "halt", "report"} PROVE WhoPart'
<1>1. at' \notin CatPlaces \cup LsPlaces \cup CounterPlaces \cup OtherPlaces \cup Codes
  BY PlacesApart
<1>2. at' # "find" /\ at' \notin Found \cup {CAT}
  BY DEF Found, CAT
<1> QED  BY <1>1, <1>2 DEF WhoPart

\* A program stays among its places until it ends.
LEMMA WhoStays ==
  ASSUME WhoPart, UNCHANGED session, NEW places,
         places \in {CatPlaces, LsPlaces, CounterPlaces, OtherPlaces},
         at \in places, at' \in (places \ Codes) \cup {"halt"}
  PROVE  WhoPart'
<1>1. Ran' = Ran
  BY RanSame
<1>2. CASE at' = "halt"
  BY <1>2, WhoOutside
<1>3. CASE at' \in places \ Codes
  <2>1. at' # "find" /\ at' \notin Found \cup {CAT}
    BY <1>3, PlacesApart DEF Found, Codes
  <2>2. CASE places = CatPlaces
    BY <1>1, <1>3, <2>1, <2>2, PlacesApart DEF WhoPart
  <2>3. CASE places = LsPlaces
    BY <1>1, <1>3, <2>1, <2>3, PlacesApart DEF WhoPart
  <2>4. CASE places = CounterPlaces
    BY <1>1, <1>3, <2>1, <2>4, PlacesApart DEF WhoPart
  <2>5. CASE places = OtherPlaces
    BY <1>1, <1>3, <2>1, <2>5, PlacesApart DEF WhoPart
  <2> QED  BY <2>2, <2>3, <2>4, <2>5
<1> QED  BY <1>2, <1>3

\* sys_execute.
LEMMA KernelWho ==
  ASSUME ProgramsStrong, WhoPart, kernel \/ read_line \/ report PROVE WhoPart'
<1>0. LinePart
  BY DEF ProgramsStrong
<1>1. CASE read_line \/ halt \/ report
  <2>1. at' \in {"prompt", "parse", "report"}
    BY <1>1 DEF read_line, halt, report
  <2> QED  BY <2>1, WhoOutside
<1>2. CASE parse_command
  <2>1. /\ at' = "find" /\ f_cmd' = parsed(line).name /\ cmd_args' = parsed(line).args
        /\ line' = line
    BY <1>2 DEF parse_command
  <2>2. parsed(line)' = parsed(line)
    BY <2>1
  <2>3. at' \notin CatPlaces \cup LsPlaces \cup CounterPlaces \cup OtherPlaces
    BY <2>1, PlacesApart
  <2>4. at' \notin Found \cup {CAT}
    BY <2>1 DEF Found, CAT
  <2> QED  BY <2>1, <2>2, <2>3, <2>4 DEF WhoPart
<1>3. CASE find_command
  <2>1. /\ at = "find" /\ result' = lookup(f_cmd) /\ cmd_args' = cmd_args
        /\ at' = (IF result' = -1 THEN "report" ELSE "magic")
    BY <1>3 DEF find_command, execute_returns, read_dentry_by_name
  <2>2. CASE at' = "report"
    BY <2>2, WhoOutside
  <2>3. CASE at' = "magic"
    <3>1. lookup(f_cmd) # -1 /\ f_cmd = parsed(line).name /\ cmd_args = parsed(line).args
      BY <2>1, <2>3 DEF WhoPart
    <3>2. Len(f_cmd) # 0 /\ Len(f_cmd) \in Nat
      BY <1>0, <3>1 DEF lookup, LinePart
    <3>3. Len(cmd_args) < CatBuf
      BY <1>0, <3>1, <3>2, RestFits
    <3>4. at' \notin CatPlaces \cup LsPlaces \cup CounterPlaces \cup OtherPlaces
      BY <2>3, PlacesApart
    <3> QED  BY <2>1, <2>3, <3>3, <3>4 DEF WhoPart
  <2> QED  BY <2>1, <2>2, <2>3
<1>4. CASE read_magic \/ check_magic
  <2>1. at \in Found /\ at' \in {"check_magic", "load", "report"} /\ UNCHANGED session
    BY <1>4 DEF read_magic, check_magic, execute_returns, Found
  <2>2. CASE at' = "report"
    BY <2>2, WhoOutside
  <2>3. CASE at' # "report"
    <3>1. at' \notin CatPlaces \cup LsPlaces \cup CounterPlaces \cup OtherPlaces
      BY <2>1, <2>3, PlacesApart
    <3> QED  BY <2>1, <2>3, <3>1 DEF WhoPart, session
  <2> QED  BY <2>2, <2>3
<1>5. CASE start_program
  <2>1. at = "load" /\ UNCHANGED session /\ at' \in Codes /\ at' = Ran
    BY <1>5, StartsAProgram, StartsRan DEF start_program
  <2>2. Ran' = Ran /\ cmd_args' = cmd_args
    BY <2>1, RanSame
  <2>3. Len(cmd_args) < CatBuf
    BY <2>1 DEF WhoPart, Found
  <2>4. at' # "find"
    BY <2>1, PlacesApart
  <2>5. /\ at' \in CatPlaces => at' = CAT
        /\ at' \in LsPlaces => at' = LS
        /\ at' \in CounterPlaces => at' = COUNTER
        /\ at' \in OtherPlaces => at' \notin {CAT, LS, COUNTER}
    <3>1. at' \in {CAT, LS, GREP, COUNTER, SIGTEST, OWN, FISH}
      BY <2>1 DEF Codes
    <3>2. at' \in OtherPlaces => at' \notin {CAT, LS, COUNTER}
      BY PlacesApart DEF CatPlaces, LsPlaces, CounterPlaces
    <3> QED  BY <3>1, <3>2 DEF CatPlaces, LsPlaces, CounterPlaces, CAT, LS, GREP, COUNTER, SIGTEST,
                               OWN, FISH
  <2> QED  BY <2>1, <2>2, <2>3, <2>4, <2>5 DEF WhoPart
<1>6. CASE copying \/ copied
  <2>1. UNCHANGED <<session, at>>
    BY <1>6 DEF copying, copied
  <2>2. Ran' = Ran
    BY <2>1, RanSame
  <2> QED  BY <2>1, <2>2 DEF WhoPart, session
<1> QED  BY <1>1, <1>2, <1>3, <1>4, <1>5, <1>6 DEF kernel

\* Where cat, ls and counter go.
LEMMA PrinterPlaces ==
  /\ cat => at \in CatPlaces /\ at' \in (CatPlaces \ Codes) \cup {"halt"}
  /\ ls => at \in LsPlaces /\ at' \in (LsPlaces \ Codes) \cup {"halt"}
  /\ counter_choice \/ counter_loop =>
       at \in CounterPlaces /\ at' \in (CounterPlaces \ Codes) \cup {"halt"}
<1>1. cat => at \in CatPlaces /\ at' \in {"cat_open", "cat_read", "cat_write", "halt"}
  BY DEF cat, cat_args, cat_open, cat_read, cat_write, ArgsOr, OpenOr, ReadThen, GoTo, return,
         CatPlaces
<1>2. ls => at \in LsPlaces /\ at' \in {"ls_read", "ls_write", "halt"}
  BY DEF ls, ls_open, ls_read, ls_write, OpenOr, ReadThen, GoTo, return, LsPlaces
<1>3. counter_choice \/ counter_loop => at \in CounterPlaces /\ at' \in {"counter_loop", "halt"}
  BY DEF counter_choice, counter_loop, GoTo, return, CounterPlaces
<1>4. {"cat_open", "cat_read", "cat_write", "ls_read", "ls_write", "counter_loop"} \cap Codes = {}
  BY DEF Codes, CAT, LS, GREP, COUNTER, SIGTEST, OWN, FISH
<1> QED  BY <1>1, <1>2, <1>3, <1>4 DEF CatPlaces, LsPlaces, CounterPlaces

\* Every step keeps it.
LEMMA WhoStep ==
  ProgramsStrong /\ TidyPart /\ WhoPart /\ [FishNext]_fishvars => WhoPart'
<1> SUFFICES ASSUME ProgramsStrong, TidyPart, WhoPart, [FishNext]_fishvars PROVE WhoPart'
  OBVIOUS
<1>1. CASE UNCHANGED fishvars
  <2>1. UNCHANGED <<session, at>>
    BY <1>1 DEF fishvars, vars, cvars
  <2>2. Ran' = Ran
    BY <2>1, RanSame
  <2> QED  BY <2>1, <2>2 DEF WhoPart, session
<1>2. CASE cat \/ ls \/ counter_choice \/ counter_loop
  <2>1. UNCHANGED session
    BY <1>2, PrinterIndex DEF TidyPart
  <2> QED  BY <1>2, <2>1, PrinterPlaces, WhoStays
<1>3. CASE grep \/ sigtest_args \/ sigtest_fault \/ own \/ fish
  <2>1. /\ UNCHANGED session
        /\ at \in OtherPlaces /\ at' \in (OtherPlaces \ Codes) \cup {"halt"}
    BY <1>3, GrepIndex, FishIndex, SmallIndex DEF TidyPart
  <2> QED  BY <2>1, WhoStays
<1> QED  BY <1>1, <1>2, <1>3, KernelWho
         DEF FishNext, FishRunning, TypesLine, Progress, shell_reports

-----------------------------------------------------------------------------
(* What has been printed so far, and is left to print. *)

\* What is printed when s has been delivered of what cat has open for entry e.
Seen(e, s) ==
  /\ Types[e] = FILE_TYPE => s = SubSeq(Text(EntryInodes[e]), 1, fdt[fd].file_pos)
  /\ Types[e] = DIR_TYPE  => read_index <= Len(Directory) /\ s = Flat(Directory, read_index)
  /\ Types[e] = RTC_TYPE  => s = << >>

\* cat has opened entry e.
CatOpen(e) ==
  Directory[e] = cmd_args /\ fdt[fd].type = Types[e] /\ fdt[fd].inode = EntryInodes[e]

CatShows ==
  /\ at = "cat_open" => cmd_args # << >>
  /\ at = "cat_read" => \E e \in DOMAIN Directory : CatOpen(e) /\ Seen(e, out)
  /\ at = "cat_write" =>
       \E e \in DOMAIN Directory :
         /\ CatOpen(e)
         /\ pc = "copy" => reading = fd /\ Seen(e, out)
         /\ pc = "idle" => Seen(e, out \o got) /\ (got = << >> => out \o got = Shown(e))

\* The lines of ls.
NameLines == [e \in DOMAIN Directory |-> Append(Directory[e], NEWLINE)]

LsShows ==
  /\ at = "ls_read" => read_index <= Len(Directory) /\ out = Flat(NameLines, read_index)
  /\ at = "ls_write" =>
       IF got = << >> THEN out = Flat(NameLines, Len(Directory))
       ELSE read_index <= Len(Directory) /\ out \o ls_line(got) = Flat(NameLines, read_index)

Numerals == {itoa(k) : k \in Nat}
Choices  == {0} \cup {Maxima[c] : c \in DOMAIN Maxima}

\* The numerals from 1 on are printed.
Counted == out \in Seq(Numerals) /\ \A k \in 1 .. Len(out) : out[k] = itoa(k)

CounterShows ==
  at = "counter_loop" => frame.max \in Choices /\ Counted /\ Len(out) <= frame.max

\* What the programs have done when they end.
CatDid ==
  \/ cmd_args = << >> /\ rval = 3 /\ out = << >>
  \/ \E e \in DOMAIN Directory :
       Directory[e] = cmd_args /\ rval = 0 /\ out = Shown(e)
  \/ /\ cmd_args # << >> /\ \A e \in DOMAIN Directory : Directory[e] # cmd_args
     /\ rval = 2 /\ out = << >>

LsDid      == rval = 0 /\ out = Flat(NameLines, Len(Directory))
CounterDid == Counted /\ Len(out) \in Choices

EndShows ==
  at = "halt" \/ (at = "report" /\ rval \notin {-1, FUNNY_NUMBER}) =>
    /\ Ran = CAT => CatDid
    /\ Ran = LS => LsDid
    /\ Ran = COUNTER => CounterDid

PrintPart == CatShows /\ LsShows /\ CounterShows /\ EndShows

\* Sequences put together are a sequence.
LEMMA FlatType ==
  ASSUME NEW S, NEW seqs \in Seq(Seq(S)), NEW n \in 0 .. Len(seqs)
  PROVE  Flat(seqs, n) \in Seq(S)
<1> DEFINE wrong == {k \in Nat : k <= Len(seqs) /\ Flat(seqs, k) \notin Seq(S)}
<1>0. Len(seqs) \in Nat
  OBVIOUS
<1>1. SUFFICES ASSUME Flat(seqs, n) \notin Seq(S) PROVE FALSE
  OBVIOUS
<1>9. n \in wrong
  BY <1>0, <1>1
<1>2. PICK k \in wrong : \A j \in wrong : k <= j
  BY <1>9, LeastOf
<1>3. k # 0
  <2>1. Flat(seqs, 0) = << >> /\ << >> \in Seq(S)
    BY EmptySeq DEF Flat
  <2> QED  BY <1>2, <2>1
<1>4. k \in 1 .. Len(seqs) /\ k - 1 \in Nat /\ k - 1 <= Len(seqs) /\ ~ (k <= k - 1)
  BY <1>0, <1>2, <1>3
<1>5. Flat(seqs, k - 1) \in Seq(S)
  BY <1>2, <1>4
<1>6. seqs[k] \in Seq(S)
  BY <1>4, ElementOfSeq
<1>7. Flat(seqs, k) = Flat(seqs, k - 1) \o seqs[k]
  BY <1>4, FlatIs
<1> HIDE DEF wrong
<1>8. Flat(seqs, k - 1) \o seqs[k] \in Seq(S)
  BY <1>5, <1>6, ConcatProperties
<1> QED  BY <1>2, <1>7, <1>8 DEF wrong

\* The names of the directory, alone and as lines.
LEMMA NamesAre ==
  /\ Directory \in Seq(Seq(Letters))
  /\ NameLines \in Seq(Seq(Letters \cup {NEWLINE})) /\ Len(NameLines) = Len(Directory)
  /\ \A e \in 1 .. Len(Directory) : NameLines[e] = ls_line(Directory[e])
<1>1. Directory \in Seq(Seq(Letters)) /\ Len(Directory) \in Nat
      /\ DOMAIN Directory = 1 .. Len(Directory)
  BY FileSystemAssumption, ImageType
<1>2. ASSUME NEW e \in 1 .. Len(Directory)
      PROVE  Append(Directory[e], NEWLINE) \in Seq(Letters \cup {NEWLINE})
  <2>1. Directory[e] \in Seq(Letters)
    BY ImageType
  <2>2. Directory[e] \in Seq(Letters \cup {NEWLINE})
    BY <2>1
  <2> QED  BY <2>2
<1>3. NameLines = [e \in 1 .. Len(Directory) |-> Append(Directory[e], NEWLINE)]
  BY <1>1 DEF NameLines
<1>4. NameLines \in Seq(Seq(Letters \cup {NEWLINE}))
  BY <1>1, <1>2, <1>3, IsASeq
<1>5. Len(NameLines) = Len(Directory)
  BY <1>1, <1>3, <1>4, LenProperties
<1> QED  BY <1>1, <1>3, <1>4, <1>5 DEF ls_line

\* sys_open with a new table finds every name of the directory.
LEMMA OpenFinds ==
  ASSUME CallsPart, fdt = NewTable, NEW fname \in Seq(Typed), sys_open(fname)
  PROVE  /\ read_index' = read_index
         /\ \/ fd' = -1 /\ \A e \in DOMAIN Directory : Directory[e] # fname
            \/ \E e \in DOMAIN Directory :
                 /\ fd' # -1 /\ Directory[e] = fname
                 /\ fdt'[fd'] = [type |-> Types[e], inode |-> EntryInodes[e], file_pos |-> 0]
<1>1. /\ result' = lookup(fname) /\ read_index' = read_index
  BY DEF sys_open, read_dentry_by_name
<1>2. FreeFds # {}
  <2>1. MIN_FD_INDEX \in Fds
    BY CommandsAssumption DEF Fds, MIN_FD_INDEX
  <2>2. fdt[MIN_FD_INDEX] = Closed
    BY <2>1 DEF NewTable
  <2> QED  BY <2>1, <2>2 DEF FreeFds
<1>3. (CHOOSE d \in FreeFds : \A e \in FreeFds : d <= e) \in FreeFds
  BY <1>2, FreeType
<1>4. FreeFds \subseteq Fds /\ -1 \notin Fds
  BY SizesType DEF FreeFds, Fds, MIN_FD_INDEX
<1>5. CASE result' = -1
  <2>1. fd' = -1
    BY <1>5 DEF sys_open
  <2>2. ~ (lookup(fname) >= 0)
    BY <1>1, <1>5
  <2>3. \A e \in DOMAIN Directory : Directory[e] # fname
    BY <2>2, LookupFinds
  <2> QED  BY <1>1, <2>1, <2>3
<1>6. CASE result' # -1
  <2>1. fd' \in Fds /\ fd' # -1
    BY <1>2, <1>3, <1>4, <1>6 DEF sys_open
  <2>2. fdt' = [fdt EXCEPT ![fd'] = [type     |-> Types[result' + 1],
                                     inode    |-> EntryInodes[result' + 1],
                                     file_pos |-> 0]]
    BY <2>1 DEF sys_open
  <2>3. result' + 1 \in DOMAIN Directory /\ Directory[result' + 1] = fname
    BY <1>1, <1>6, LookupType
  <2>4. DOMAIN fdt = Fds
    BY DEF NewTable
  <2>5. fdt'[fd'] = [type |-> Types[result' + 1], inode |-> EntryInodes[result' + 1], file_pos |-> 0]
    BY <2>1, <2>2, <2>4
  <2> QED  BY <1>1, <2>1, <2>3, <2>5
<1> QED  BY <1>5, <1>6

\* A read moves the position and keeps the inode.
LEMMA AdvancedIs ==
  ASSUME TablePart, NEW d \in Fds, NEW n, fdt' = advanced(d, n)
  PROVE  fdt'[d].type = fdt[d].type /\ fdt'[d].inode = fdt[d].inode
         /\ fdt'[d].file_pos = fdt[d].file_pos + n
<1>1. fdt \in [Fds -> Descriptors] /\ fdt[d] \in Descriptors
  BY DEF TablePart
<1> QED  BY <1>1 DEF advanced, Descriptors

\* The text of a file is as long as the file.
LEMMA TextIs ==
  ASSUME NEW n \in 0 .. NumInodes - 1
  PROVE  \E S : /\ Text(n) \in Seq(S) /\ Len(Text(n)) = inode(n).length
                /\ inode(n).length \in Nat
                /\ \A k \in 1 .. inode(n).length : Text(n)[k] = disk[ByteOf(n, k - 1)]
<1>1. /\ Contents(n) \in Seq(FileBytes(n)) /\ Len(Contents(n)) = inode(n).length
      /\ \A k \in 1 .. inode(n).length : Contents(n)[k] = ByteOf(n, k - 1)
  BY ContentsAre
<1>2. inode(n).length \in Nat
  BY ImageType
<1>3. /\ Text(n) \in Seq({disk[b] : b \in FileBytes(n)}) /\ Len(Text(n)) = inode(n).length
      /\ \A k \in 1 .. inode(n).length : Text(n)[k] = disk[Contents(n)[k]]
  BY <1>1, CharsAre DEF Text
<1> QED  BY <1>1, <1>2, <1>3

(***************************************************************************)
(* A read of a file delivers the part of its text from the position on,    *)
(* moves the position behind it, and delivers nothing only at the end.     *)
(***************************************************************************)
LEMMA CopiedText ==
  ASSUME CallsPart, copied, reading # -1
  PROVE  LET x == fdt[reading] IN
         /\ reading \in Fds /\ x.type = FILE_TYPE /\ x.inode \in 0 .. NumInodes - 1
         /\ x.file_pos \in Nat
         /\ fdt'[reading].type = x.type /\ fdt'[reading].inode = x.inode
         /\ \E c \in Nat :
              /\ x.file_pos + c <= inode(x.inode).length
              /\ fdt'[reading].file_pos = x.file_pos + c
              /\ got' = SubSeq(Text(x.inode), x.file_pos + 1, x.file_pos + c)
              /\ got' = << >> /\ args.length # 0 => x.file_pos + c = inode(x.inode).length
<1> DEFINE x == fdt[reading]
<1>1. /\ read_data_done /\ got' = Chars(buf) /\ fdt' = advanced(reading, i)
  BY DEF copied
<1>2. /\ reading \in Fds /\ x.type = FILE_TYPE /\ args.inode = x.inode
      /\ args.offset = x.file_pos /\ TablePart /\ pc = "copy"
  BY DEF CallsPart, ReadPart, HasType
<1>3. /\ Copied /\ ~ InLoop
  BY <1>1, <1>2 DEF CallsPart, FileSystemStrong, read_data_done
<1>4. PICK n, off : n = args.inode /\ off = args.offset
  OBVIOUS
<1>5. /\ i \in 0 .. args.length /\ args.length \in Nat
      /\ i + off <= inode(n).length /\ off \in 0 .. inode(n).length
      /\ n \in 0 .. NumInodes - 1
      /\ buf \in Seq(FileBytes(n)) /\ Len(buf) = i
      /\ \A k \in 1 .. i : buf[k] = ByteOf(n, off + k - 1)
  BY <1>3, <1>4 DEF Copied
<1>6. PICK S : /\ Text(n) \in Seq(S) /\ Len(Text(n)) = inode(n).length
               /\ inode(n).length \in Nat
               /\ \A k \in 1 .. inode(n).length : Text(n)[k] = disk[ByteOf(n, k - 1)]
  BY <1>5, TextIs
<1>7. PICK c \in Nat : c = i
  BY <1>5
<1>8. off \in Nat /\ off + c <= inode(n).length
  BY <1>5, <1>6, <1>7
<1>9. fdt'[reading].type = x.type /\ fdt'[reading].inode = x.inode
      /\ fdt'[reading].file_pos = x.file_pos + i
  BY <1>1, <1>2, AdvancedIs
<1> HIDE DEF x
<1>10. got' = SubSeq(Text(n), off + 1, off + c)
  <2> DEFINE sub == SubSeq(Text(n), off + 1, off + c)
             B == {disk[b] : b \in FileBytes(n)}
  <2>1. Len(got') = c /\ got' \in Seq(B) /\ \A k \in 1 .. c : got'[k] = disk[buf[k]]
    BY <1>1, <1>5, <1>7, CharsAre
  <2>2. \A k \in off + 1 .. off + c : Text(n)[k] \in S
    BY <1>6, <1>8, ElementOfSeq
  <2>3. off + 1 \in Int /\ off + c \in Int
    BY <1>8
  <2>4. /\ sub \in Seq(S)
        /\ Len(sub) = IF off + 1 <= off + c THEN (off + c) - (off + 1) + 1 ELSE 0
        /\ \A k \in 1 .. (off + c) - (off + 1) + 1 : sub[k] = Text(n)[(off + 1) + k - 1]
    BY <2>2, <2>3, SubSeqProperties
  <2>5. (off + c) - (off + 1) + 1 = c /\ (IF off + 1 <= off + c THEN (off + c) - (off + 1) + 1 ELSE 0) = c
    BY <1>8
  <2>6. Len(sub) = c
    BY <2>4, <2>5
  <2>7. ASSUME NEW k \in 1 .. c PROVE got'[k] = sub[k]
    <3>1. sub[k] = Text(n)[(off + 1) + k - 1]
      BY <2>4, <2>5
    <3>0. PICK l \in Nat : l = inode(n).length
      BY <1>6
    <3>5. off \in Nat /\ off + c <= l
      BY <1>8, <3>0
    <3>6. (off + 1) + k - 1 = off + k /\ off + k \in 1 .. l /\ (off + k) - 1 = off + k - 1
      BY <3>5
    <3>2. (off + 1) + k - 1 = off + k /\ off + k \in 1 .. inode(n).length
          /\ (off + k) - 1 = off + k - 1
      BY <3>0, <3>6
    <3>3. Text(n)[off + k] = disk[ByteOf(n, (off + k) - 1)]
      BY <1>6, <3>2
    <3>4. got'[k] = disk[buf[k]] /\ buf[k] = ByteOf(n, off + k - 1)
      BY <1>5, <1>7, <2>1
    <3> QED  BY <3>1, <3>2, <3>3, <3>4
  <2> HIDE DEF sub, B
  <2>8. got' \in Seq(B \cup S) /\ sub \in Seq(B \cup S)
    BY <2>1, <2>4
  <2>9. got' = sub
    BY <2>1, <2>6, <2>7, <2>8, SeqEqual
  <2> QED  BY <2>9 DEF sub
<1>11. ASSUME got' = << >>, args.length # 0 PROVE off + c = inode(n).length
  <2>1. Len(got') = i
    BY <1>1, <1>5, CharsAre
  <2>2. i = 0
    BY <1>11, <2>1, EmptySeq
  <2>3. ~ (0 + off < inode(n).length)
    BY <1>3, <1>4, <1>5, <1>11, <2>2 DEF InLoop
  <2> QED  BY <1>6, <1>7, <1>8, <2>2, <2>3
<1>12. x.inode = n /\ x.file_pos = off
  BY <1>2, <1>4
<1>13. \E k \in Nat :
              /\ x.file_pos + k <= inode(x.inode).length
              /\ fdt'[reading].file_pos = x.file_pos + k
              /\ got' = SubSeq(Text(x.inode), x.file_pos + 1, x.file_pos + k)
              /\ got' = << >> /\ args.length # 0 => x.file_pos + k = inode(x.inode).length
  BY <1>7, <1>8, <1>9, <1>10, <1>11, <1>12
<1> QED  BY <1>2, <1>5, <1>8, <1>9, <1>12, <1>13 DEF x

\* Where PrintPart says nothing.
LEMMA PrintElsewhere ==
  ASSUME at' \notin {"cat_open", "cat_read", "cat_write", "ls_read", "ls_write", "counter_loop",
                     "halt", "report"}
         \/ (at' = "report" /\ rval' \in {-1, FUNNY_NUMBER})
  PROVE  PrintPart'
BY DEF PrintPart, CatShows, LsShows, CounterShows, EndShows

\* What is shown of an entry does not change.
LEMMA ShownSame ==
  ASSUME UNCHANGED session, NEW e \in DOMAIN Directory PROVE Shown(e)' = Shown(e)
<1>1. Text(EntryInodes[e])' = Text(EntryInodes[e])
  BY RanSame
<1> QED  BY <1>1 DEF Shown, FILE_TYPE, DIR_TYPE, RTC_TYPE

\* Nothing that PrintPart looks at changes.
LEMMA PrintSame ==
  ASSUME PrintPart, UNCHANGED <<session, files, at, rval, out, frame, pc>> PROVE PrintPart'
<1>1. /\ Ran' = Ran /\ cmd_args' = cmd_args
      /\ \A e \in DOMAIN Directory : Text(EntryInodes[e])' = Text(EntryInodes[e])
  BY RanSame
<1>2. \A e \in DOMAIN Directory : Shown(e)' = Shown(e)
  BY ShownSame
<1>3. UNCHANGED <<fdt, read_index, fd, reading, got, at, rval, out, frame, pc>>
  BY DEF files
<1>4. ASSUME NEW e \in DOMAIN Directory
      PROVE  /\ CatOpen(e) => CatOpen(e)'
             /\ Seen(e, out) => Seen(e, out)'
             /\ Seen(e, out \o got) => Seen(e, out \o got)'
  BY <1>1, <1>3 DEF CatOpen, Seen
<1>5. CatShows'
  <2>1. CASE at = "cat_open"
    BY <1>1, <1>3, <2>1 DEF PrintPart, CatShows
  <2>2. CASE at = "cat_read"
    BY <1>3, <1>4, <2>2 DEF PrintPart, CatShows
  <2>3. CASE at = "cat_write"
    <3>1. PICK e \in DOMAIN Directory :
            /\ CatOpen(e)
            /\ pc = "copy" => reading = fd /\ Seen(e, out)
            /\ pc = "idle" => Seen(e, out \o got) /\ (got = << >> => out \o got = Shown(e))
      BY <2>3 DEF PrintPart, CatShows
    <3>2. /\ CatOpen(e)'
          /\ pc' = "copy" => reading' = fd' /\ Seen(e, out)'
          /\ pc' = "idle" => Seen(e, out \o got)' /\ (got' = << >> => out' \o got' = Shown(e)')
      BY <1>2, <1>3, <1>4, <3>1
    <3> QED  BY <1>3, <2>3, <3>2 DEF CatShows
  <2> QED  BY <1>3, <2>1, <2>2, <2>3 DEF CatShows
<1>6. LsShows'
  BY <1>3 DEF PrintPart, LsShows, NameLines, ls_line
<1>7. CounterShows'
  BY <1>3 DEF PrintPart, CounterShows, Counted, Numerals, Choices
<1>8. EndShows'
  <2>1. CatDid => CatDid'
    BY <1>1, <1>2, <1>3 DEF CatDid
  <2>2. LsDid => LsDid'
    BY <1>3 DEF LsDid, NameLines
  <2>3. CounterDid => CounterDid'
    BY <1>3 DEF CounterDid, Counted, Numerals, Choices
  <2> QED  BY <1>1, <1>3, <2>1, <2>2, <2>3 DEF PrintPart, EndShows
<1> QED  BY <1>5, <1>6, <1>7, <1>8 DEF PrintPart

\* A program that prints something else ends.
LEMMA OtherPrint ==
  ASSUME WhoPart, UNCHANGED session, at \in OtherPlaces,
         at' \in (OtherPlaces \ Codes) \cup {"halt"}
  PROVE  PrintPart'
<1>1. Ran' \notin {CAT, LS, COUNTER}
  BY RanSame DEF WhoPart
<1>2. CASE at' = "halt"
  BY <1>1, <1>2 DEF PrintPart, CatShows, LsShows, CounterShows, EndShows
<1>3. CASE at' \in OtherPlaces
  <2>1. at' \notin CatPlaces \cup LsPlaces \cup CounterPlaces \cup {"halt", "report"}
    BY <1>3, PlacesApart
  <2> QED  BY <2>1, PrintElsewhere DEF CatPlaces, LsPlaces, CounterPlaces
<1> QED  BY <1>2, <1>3

\* read_data has delivered to cat, or to somebody else.
LEMMA CopiedPrint ==
  ASSUME ProgramsStrong, PrintPart, copied, UNCHANGED frame PROVE PrintPart'
<1>1. /\ pc = "copy" /\ pc' = "idle" /\ fd' = fd /\ UNCHANGED <<session, at, rval, out>>
      /\ at \in CopyPlaces
  BY CopiedStep DEF ProgramsStrong, PlacePart
<1>2. CASE at # "cat_write"
  BY <1>1, <1>2, PrintElsewhere DEF CopyPlaces
<1>3. CASE at = "cat_write"
  <2>1. PICK e \in DOMAIN Directory : CatOpen(e) /\ reading = fd /\ Seen(e, out)
    BY <1>1, <1>3 DEF PrintPart, CatShows
  <2>2. reading # -1 /\ args.length = CatBuf /\ CatBuf # 0 /\ read_index' = read_index
    BY <1>1, <1>3, CommandsAssumption
    DEF ProgramsStrong, PlacePart, CatPart, Delivered, copied
  <2>3. /\ fdt[fd].type = FILE_TYPE /\ fdt[fd].inode \in 0 .. NumInodes - 1
        /\ fdt[fd].file_pos \in Nat
        /\ fdt'[fd].type = fdt[fd].type /\ fdt'[fd].inode = fdt[fd].inode
        /\ \E c \in Nat :
              /\ fdt[fd].file_pos + c <= inode(fdt[fd].inode).length
              /\ fdt'[fd].file_pos = fdt[fd].file_pos + c
              /\ got' = SubSeq(Text(fdt[fd].inode), fdt[fd].file_pos + 1, fdt[fd].file_pos + c)
              /\ got' = << >> => fdt[fd].file_pos + c = inode(fdt[fd].inode).length
    BY <2>1, <2>2, CopiedText DEF ProgramsStrong
  <2>4. Types[e] = FILE_TYPE /\ EntryInodes[e] = fdt[fd].inode /\ Directory[e] = cmd_args
    BY <2>1, <2>3 DEF CatOpen
  <2>5. PICK n \in 0 .. NumInodes - 1, pos \in Nat, c \in Nat :
          /\ n = EntryInodes[e] /\ pos = fdt[fd].file_pos
          /\ pos + c <= inode(n).length /\ fdt'[fd].file_pos = pos + c
          /\ got' = SubSeq(Text(n), pos + 1, pos + c)
          /\ got' = << >> => pos + c = inode(n).length
    BY <2>3, <2>4
  <2>6. PICK S : Text(n) \in Seq(S) /\ Len(Text(n)) = inode(n).length /\ inode(n).length \in Nat
    BY <2>5, TextIs
  <2>7. PICK l \in Nat : l = inode(n).length
    BY <2>6
  <2>17. pos + c <= l
    BY <2>5, <2>7
  <2>8. 1 \in 1 .. l + 1 /\ pos \in 1 - 1 .. l /\ pos + c \in pos .. l
    BY <2>17
  <2>9. SubSeq(Text(n), 1, pos) \o SubSeq(Text(n), pos + 1, pos + c) = SubSeq(Text(n), 1, pos + c)
    BY <2>6, <2>7, <2>8, ConcatAdjacentSubSeq
  <2>10. out = SubSeq(Text(n), 1, pos)
    BY <2>1, <2>4, <2>5 DEF Seen
  <2>11. out' \o got' = SubSeq(Text(n), 1, pos + c)
    BY <1>1, <2>5, <2>9, <2>10
  <2>12. Text(EntryInodes[e])' = Text(n) /\ Shown(e)' = Shown(e)
    BY <1>1, <2>5, RanSame, ShownSame
  <2>13. ASSUME got' = << >> PROVE out' \o got' = Shown(e)'
    <3>1. SubSeq(Text(n), 1, Len(Text(n))) = Text(n)
      BY <2>6, SubSeqFull
    <3>2. Shown(e) = Text(n)
      BY <2>4, <2>5 DEF Shown, FILE_TYPE, DIR_TYPE, RTC_TYPE
    <3> QED  BY <2>5, <2>6, <2>11, <2>12, <2>13, <3>1, <3>2
  <2>14. Seen(e, out \o got)'
    <3>1. Types[e] # DIR_TYPE /\ Types[e] # RTC_TYPE
      BY <2>4 DEF FILE_TYPE, DIR_TYPE, RTC_TYPE
    <3>2. out' \o got' = SubSeq(Text(EntryInodes[e])', 1, fdt'[fd'].file_pos)
      BY <1>1, <2>5, <2>11, <2>12
    <3> QED  BY <3>1, <3>2 DEF Seen
  <2>15. CatOpen(e)'
    BY <1>1, <2>3, <2>4 DEF CatOpen, session
  <2>16. CatShows'
    BY <1>1, <1>3, <2>13, <2>14, <2>15 DEF CatShows
  <2> QED  BY <1>1, <1>3, <2>16 DEF PrintPart, LsShows, CounterShows, EndShows
<1> QED  BY <1>2, <1>3

\* The shell and the kernel.
LEMMA KernelPrint ==
  ASSUME ProgramsStrong, PrintPart, kernel \/ shell_reports \/ (read_line /\ UNCHANGED frame)
  PROVE  PrintPart'
<1>1. CASE read_line \/ parse_command \/ find_command \/ read_magic \/ check_magic \/ report
  <2>1. \/ at' \in {"prompt", "parse", "find", "magic", "check_magic", "load"}
        \/ at' = "report" /\ rval' \in {-1, FUNNY_NUMBER}
    BY <1>1 DEF read_line, parse_command, find_command, read_magic, check_magic, report,
                execute_returns
  <2> QED  BY <2>1, PrintElsewhere
<1>2. CASE start_program
  <2>1. at' \in Codes
    BY <1>2, StartsAProgram
  <2> QED  BY <2>1, PrintElsewhere DEF Codes, CAT, LS, GREP, COUNTER, SIGTEST, OWN, FISH
<1>3. CASE copying /\ UNCHANGED frame
  <2>1. UNCHANGED <<session, files, at, rval, out, frame, pc>>
    BY <1>3 DEF copying, copy_byte
  <2> QED  BY <2>1, PrintSame
<1>4. CASE copied /\ UNCHANGED frame
  BY <1>4, CopiedPrint
<1>5. CASE halt
  <2>1. at = "halt" /\ at' = "report" /\ UNCHANGED <<session, rval, out>>
    BY <1>5 DEF halt
  <2>2. /\ Ran = CAT => CatDid
        /\ Ran = LS => LsDid
        /\ Ran = COUNTER => CounterDid
    BY <2>1 DEF PrintPart, EndShows
  <2>3. Ran' = Ran /\ cmd_args' = cmd_args /\ \A e \in DOMAIN Directory : Shown(e)' = Shown(e)
    BY <2>1, RanSame, ShownSame
  <2>4. CatDid => CatDid'
    BY <2>1, <2>3 DEF CatDid
  <2>5. LsDid => LsDid'
    BY <2>1 DEF LsDid, NameLines
  <2>6. CounterDid => CounterDid'
    BY <2>1 DEF CounterDid, Counted, Numerals, Choices
  <2>7. EndShows'
    BY <2>2, <2>3, <2>4, <2>5, <2>6 DEF EndShows
  <2> QED  BY <2>1, <2>7 DEF PrintPart, CatShows, LsShows, CounterShows
<1> QED  BY <1>1, <1>2, <1>3, <1>4, <1>5 DEF kernel, shell_reports

\* cat has ended.
LEMMA CatEnds ==
  ASSUME at' = "halt", Ran' = CAT, CatDid' PROVE PrintPart'
<1>1. CAT # LS /\ CAT # COUNTER
  BY DEF CAT, LS, COUNTER
<1> QED  BY <1>1 DEF PrintPart, CatShows, LsShows, CounterShows, EndShows

\* cat is given its arguments unless there are none: the buffer holds them.
LEMMA CatArgsPrint ==
  ASSUME ProgramsStrong, TidyPart, WhoPart, cat_args PROVE PrintPart'
<1>1. /\ at = CAT /\ UNCHANGED session /\ out' = out
      /\ IF GetArgsFails(CatBuf) THEN at' = "halt" /\ rval' = 3 ELSE at' = "cat_open"
  BY SizeIs DEF cat_args, ArgsOr, Idle, return, GoTo
<1>2. /\ Len(cmd_args) \in Nat /\ CatBuf \in Nat /\ Len(cmd_args) < CatBuf
      /\ cmd_args \in Seq(Typed) /\ Ran = CAT
  BY <1>1, SizesType DEF WhoPart, CatPlaces, ProgramsStrong, LinePart
<1>3. Ran' = CAT /\ cmd_args' = cmd_args
  BY <1>1, <1>2, RanSame
<1>4. out = << >>
  BY <1>1 DEF TidyPart, Early, Codes
<1>5. CASE GetArgsFails(CatBuf)
  <2>1. cmd_args = << >>
    BY <1>2, <1>5, EmptySeq DEF GetArgsFails
  <2>2. CatDid'
    BY <1>1, <1>3, <1>4, <1>5, <2>1 DEF CatDid
  <2> QED  BY <1>1, <1>3, <1>5, <2>2, CatEnds
<1>6. CASE ~ GetArgsFails(CatBuf)
  <2>1. cmd_args # << >>
    BY <1>6, EmptySeq DEF GetArgsFails
  <2> QED  BY <1>1, <1>3, <1>6, <2>1 DEF PrintPart, CatShows, LsShows, CounterShows, EndShows
<1> QED  BY <1>5, <1>6

\* cat opens the entry with the name it was given.
LEMMA CatOpenPrint ==
  ASSUME ProgramsStrong, TidyPart, WhoPart, PrintPart, cat_open PROVE PrintPart'
<1>1. /\ at = "cat_open" /\ sys_open(cmd_args) /\ UNCHANGED <<session, out>>
      /\ IF fd' = -1 THEN at' = "halt" /\ rval' = 2 ELSE at' = "cat_read"
  BY DEF cat_open, OpenOr, return, GoTo
<1>2. fdt = NewTable /\ out = << >> /\ read_index = 0
  BY <1>1, NewTableIs DEF TidyPart, IndexPart, Early
<1>3. cmd_args \in Seq(Typed) /\ cmd_args # << >> /\ Ran = CAT /\ CallsPart
  BY <1>1 DEF ProgramsStrong, LinePart, PrintPart, CatShows, WhoPart, CatPlaces
<1>4. Ran' = CAT /\ cmd_args' = cmd_args
  BY <1>1, <1>3, RanSame
<1>5. /\ read_index' = read_index
      /\ \/ fd' = -1 /\ \A e \in DOMAIN Directory : Directory[e] # cmd_args
         \/ \E e \in DOMAIN Directory :
              /\ fd' # -1 /\ Directory[e] = cmd_args
              /\ fdt'[fd'] = [type |-> Types[e], inode |-> EntryInodes[e], file_pos |-> 0]
  BY <1>1, <1>2, <1>3, OpenFinds
<1>6. CASE fd' = -1
  <2>1. CatDid'
    BY <1>1, <1>2, <1>3, <1>4, <1>5, <1>6 DEF CatDid
  <2> QED  BY <1>1, <1>4, <1>6, <2>1, CatEnds
<1>7. CASE fd' # -1
  <2>1. PICK e \in DOMAIN Directory :
          /\ Directory[e] = cmd_args
          /\ fdt'[fd'] = [type |-> Types[e], inode |-> EntryInodes[e], file_pos |-> 0]
    BY <1>5, <1>7
  <2>2. CatOpen(e)'
    BY <1>4, <2>1 DEF CatOpen
  <2>3. fdt'[fd'].file_pos = 0
    BY <2>1
  <2>4. \A s : SubSeq(s, 1, 0) = << >>
    BY SubSeqEmpty
  <2>5. Flat(Directory, 0) = << >> /\ 0 <= Len(Directory)
    BY ImageType DEF Flat
  <2>6. out' = << >> /\ read_index' = 0
    BY <1>1, <1>2, <1>5
  <2>7. Seen(e, out)'
    BY <2>3, <2>4, <2>5, <2>6 DEF Seen
  <2> QED  BY <1>1, <1>7, <2>2, <2>7 DEF PrintPart, CatShows, LsShows, CounterShows, EndShows
<1> QED  BY <1>6, <1>7

\* A read of the directory continues the names.
LEMMA NextName ==
  ASSUME CallsPart, NEW d \in Fds, NEW array, fdt[d].type = DIR_TYPE, dir_read(d, array),
         read_index <= Len(Directory)
  PROVE  /\ fdt'[d].type = fdt[d].type /\ fdt'[d].inode = fdt[d].inode
         /\ \/ /\ read_index' \in 1 .. Len(Directory) /\ read_index = read_index' - 1
               /\ got' = Directory[read_index'] /\ got' # << >>
            \/ read_index' = Len(Directory) /\ read_index = Len(Directory) /\ got' = << >>
<1>1. read_index \in Nat /\ Len(Directory) \in Nat /\ TablePart
  BY ImageType DEF CallsPart, TablePart
<1>2. fdt' = advanced(d, Len(got'))
  BY DEF dir_read
<1>3. fdt'[d].type = fdt[d].type /\ fdt'[d].inode = fdt[d].inode
  BY <1>1, <1>2, AdvancedIs
<1>4. CASE read_index < Len(Directory)
  <2>1. got' = Directory[read_index + 1] /\ read_index' = read_index + 1
    BY <1>4 DEF dir_read
  <2>2. read_index' \in 1 .. Len(Directory) /\ read_index = read_index' - 1
    BY <1>1, <1>4, <2>1
  <2>3. Directory[read_index'] \in Seq(Letters) /\ Len(Directory[read_index']) \in 1 .. MAX_STR_LENGTH
    BY <2>2, ImageType
  <2>4. got' # << >>
    BY <2>1, <2>3, EmptySeq
  <2> QED  BY <1>3, <2>1, <2>2, <2>4
<1>5. CASE ~ (read_index < Len(Directory))
  <2>1. got' = << >> /\ read_index' = read_index
    BY <1>5 DEF dir_read
  <2> QED  BY <1>1, <1>3, <1>5, <2>1
<1> QED  BY <1>4, <1>5

\* cat reads the next part.
LEMMA CatReadPrint ==
  ASSUME ProgramsStrong, PrintPart, cat_read PROVE PrintPart'
<1>1. /\ at = "cat_read" /\ sys_read(fd, "cat_buf", CatBuf) /\ UNCHANGED <<session, out>>
      /\ at' = "cat_write"
  BY DEF cat_read, ReadThen, GoTo
<1>2. SUFFICES CatShows'
  BY <1>1 DEF PrintPart, LsShows, CounterShows, EndShows
<1>3. PICK e \in DOMAIN Directory : CatOpen(e) /\ Seen(e, out)
  BY <1>1 DEF PrintPart, CatShows
<1>4. fd \in Fds /\ fd' = fd /\ pc = "idle" /\ CallsPart
  BY <1>1 DEF sys_read, ProgramsStrong, PlacePart, CatPart, IsOpen
<1>5. /\ cmd_args' = cmd_args /\ Text(EntryInodes[e])' = Text(EntryInodes[e])
      /\ Shown(e)' = Shown(e)
  BY <1>1, RanSame, ShownSame
<1>6. RTC_TYPE # DIR_TYPE /\ RTC_TYPE # FILE_TYPE /\ DIR_TYPE # FILE_TYPE
  BY DEF RTC_TYPE, DIR_TYPE, FILE_TYPE
<1>7. CASE fdt[fd].type = RTC_TYPE /\ rtc_read
  <2>1. got' = << >> /\ UNCHANGED <<fdt, pc>>
    BY <1>7 DEF rtc_read, fsvars
  <2>2. Types[e] = RTC_TYPE /\ out = << >> /\ Shown(e) = << >>
    BY <1>3, <1>6, <1>7 DEF CatOpen, Seen, Shown
  <2>3. out' \o got' = << >>
    BY <1>1, <2>1, <2>2, ConcatEmptySeq, EmptySeq
  <2>4. Seen(e, out \o got)' /\ out' \o got' = Shown(e)'
    BY <1>5, <1>6, <2>2, <2>3 DEF Seen
  <2>5. CatOpen(e)'
    BY <1>3, <1>4, <1>5, <2>1 DEF CatOpen
  <2> QED  BY <1>1, <1>4, <2>1, <2>4, <2>5 DEF CatShows
<1>8. CASE fdt[fd].type = DIR_TYPE /\ dir_read(fd, "cat_buf")
  <2>1. Types[e] = DIR_TYPE /\ read_index <= Len(Directory) /\ out = Flat(Directory, read_index)
    BY <1>3, <1>8 DEF CatOpen, Seen
  <2>2. /\ fdt'[fd].type = fdt[fd].type /\ fdt'[fd].inode = fdt[fd].inode
        /\ \/ /\ read_index' \in 1 .. Len(Directory) /\ read_index = read_index' - 1
              /\ got' = Directory[read_index'] /\ got' # << >>
           \/ read_index' = Len(Directory) /\ read_index = Len(Directory) /\ got' = << >>
    BY <1>4, <1>8, <2>1, NextName
  <2>3. pc' = "idle"
    BY <1>4, <1>8 DEF dir_read, fsvars
  <2>4. CatOpen(e)'
    BY <1>3, <1>4, <1>5, <2>2 DEF CatOpen
  <2>5. Directory \in Seq(Seq(Letters)) /\ Len(Directory) \in Nat
    BY NamesAre, ImageType
  <2>6. /\ read_index' <= Len(Directory) /\ out' \o got' = Flat(Directory, read_index')
        /\ got' = << >> => out' \o got' = Flat(Directory, Len(Directory))
    <3>1. CASE /\ read_index' \in 1 .. Len(Directory) /\ read_index = read_index' - 1
               /\ got' = Directory[read_index'] /\ got' # << >>
      <4>1. Flat(Directory, read_index') = Flat(Directory, read_index' - 1) \o Directory[read_index']
        BY <2>5, <3>1, FlatIs
      <4>2. out' = Flat(Directory, read_index' - 1)
        BY <1>1, <2>1, <3>1
      <4>3. read_index' <= Len(Directory)
        BY <2>5, <3>1
      <4> QED  BY <3>1, <4>1, <4>2, <4>3
    <3>2. CASE read_index' = Len(Directory) /\ read_index = Len(Directory) /\ got' = << >>
      <4>1. Len(Directory) \in 0 .. Len(Directory)
        BY <2>5
      <4>2. Flat(Directory, Len(Directory)) \in Seq(Letters)
        BY <2>5, <4>1, FlatType
      <4>3. Flat(Directory, Len(Directory)) \o << >> = Flat(Directory, Len(Directory))
        BY <4>2, ConcatEmptySeq
      <4> QED  BY <1>1, <2>1, <2>5, <3>2, <4>3
    <3> QED  BY <2>2, <3>1, <3>2
  <2>7. Shown(e) = Flat(Directory, Len(Directory))
    <3>1. Shown(e) = Seqs!FlattenSeq(Directory)
      BY <1>6, <2>1 DEF Shown
    <3> QED  BY <2>5, <3>1, FlatIs
  <2>8. Seen(e, out \o got)' /\ (got' = << >> => out' \o got' = Shown(e)')
    BY <1>5, <1>6, <2>1, <2>6, <2>7 DEF Seen
  <2> QED  BY <1>1, <2>3, <2>4, <2>8 DEF CatShows
<1>9. CASE fdt[fd].type = FILE_TYPE /\ file_read(fd, CatBuf)
  <2>1. /\ read_data(fdt[fd].inode, fdt[fd].file_pos, CatBuf) /\ reading' = fd
        /\ UNCHANGED <<fdt, read_index, got>>
    BY <1>9 DEF file_read
  <2>2. /\ fdt[fd].inode \in 0 .. NumInodes - 1 /\ fdt[fd].file_pos \in Nat
        /\ fdt[fd].file_pos <= inode(fdt[fd].inode).length
    BY <1>4, <1>9 DEF CallsPart, TablePart, Sound, FILE_TYPE
  <2>3. ~ refused(fdt[fd].inode, fdt[fd].file_pos)
    <3>1. NumInodes \in Nat /\ inode(fdt[fd].inode).length \in Nat
      BY <2>2, ImageType
    <3> QED  BY <2>2, <3>1 DEF refused
  <2>4. pc' = "copy"
    BY <2>1, <2>3 DEF read_data
  <2>5. CatOpen(e)' /\ Seen(e, out)'
    BY <1>1, <1>3, <1>4, <1>5, <2>1 DEF CatOpen, Seen
  <2> QED  BY <1>1, <1>4, <2>1, <2>4, <2>5 DEF CatShows
<1> QED  BY <1>1, <1>7, <1>8, <1>9 DEF sys_read

\* cat writes what it has read, or ends.
LEMMA CatWritePrint ==
  ASSUME ProgramsStrong, WhoPart, PrintPart, cat_write PROVE PrintPart'
<1>1. /\ at = "cat_write" /\ pc = "idle" /\ UNCHANGED <<session, files>> /\ out' = out \o got
      /\ IF got = << >> THEN at' = "halt" /\ rval' = 0 ELSE at' = "cat_read"
  BY DEF cat_write, Idle, return, GoTo
<1>2. PICK e \in DOMAIN Directory :
        CatOpen(e) /\ Seen(e, out \o got) /\ (got = << >> => out \o got = Shown(e))
  BY <1>1 DEF PrintPart, CatShows
<1>3. /\ Ran' = Ran /\ cmd_args' = cmd_args /\ Ran = CAT
      /\ Text(EntryInodes[e])' = Text(EntryInodes[e]) /\ Shown(e)' = Shown(e)
  BY <1>1, RanSame, ShownSame DEF WhoPart, CatPlaces
<1>4. CASE got = << >>
  <2>1. Directory[e] = cmd_args
    BY <1>2 DEF CatOpen
  <2>2. CatDid'
    BY <1>1, <1>2, <1>3, <1>4, <2>1 DEF CatDid
  <2> QED  BY <1>1, <1>3, <1>4, <2>2, CatEnds
<1>5. CASE got # << >>
  <2>1. UNCHANGED <<fdt, fd, read_index>>
    BY <1>1 DEF files
  <2>2. CatOpen(e)' /\ Seen(e, out)'
    BY <1>1, <1>2, <1>3, <2>1 DEF CatOpen, Seen
  <2> QED  BY <1>1, <1>5, <2>2 DEF PrintPart, CatShows, LsShows, CounterShows, EndShows
<1> QED  BY <1>4, <1>5

\* ls starts with the first entry.
LEMMA LsOpenPrint ==
  ASSUME ProgramsStrong, TidyPart, ls_open PROVE PrintPart'
<1>1. /\ at = LS /\ sys_open(DirName) /\ UNCHANGED <<session, out>>
      /\ IF fd' = -1 THEN at' = "halt" ELSE at' = "ls_read"
  BY DEF ls_open, OpenOr, return, GoTo
<1>2. fdt = NewTable /\ out = << >> /\ read_index = 0
  BY <1>1, NewTableIs DEF TidyPart, IndexPart, Early, Codes
<1>3. DirName \in Seq(Typed) /\ CallsPart /\ \E e \in DOMAIN Directory : Directory[e] = DirName
  BY CommandsAssumption, NameTyped DEF ProgramsStrong
<1>4. read_index' = read_index /\ fd' # -1
  BY <1>1, <1>2, <1>3, OpenFinds
<1>5. Flat(NameLines, 0) = << >> /\ 0 <= Len(Directory)
  BY ImageType DEF Flat
<1>6. NameLines' = NameLines
  BY DEF NameLines
<1> QED  BY <1>1, <1>2, <1>4, <1>5, <1>6 DEF PrintPart, CatShows, LsShows, CounterShows, EndShows

\* ls reads the next name.
LEMMA LsReadPrint ==
  ASSUME ProgramsStrong, PrintPart, ls_read PROVE PrintPart'
<1>1. /\ at = "ls_read" /\ sys_read(fd, "name_buf", SBUFSIZE - 1) /\ out' = out
      /\ at' = "ls_write"
  BY DEF ls_read, ReadThen, GoTo
<1>2. fd \in Fds /\ fdt[fd].type = DIR_TYPE /\ CallsPart
  BY <1>1 DEF ProgramsStrong, PlacePart, LsPart, HasType
<1>3. dir_read(fd, "name_buf")
  BY <1>1, <1>2 DEF sys_read, RTC_TYPE, DIR_TYPE, FILE_TYPE
<1>4. read_index <= Len(Directory) /\ out = Flat(NameLines, read_index)
  BY <1>1 DEF PrintPart, LsShows
<1>5. \/ /\ read_index' \in 1 .. Len(Directory) /\ read_index = read_index' - 1
         /\ got' = Directory[read_index'] /\ got' # << >>
      \/ read_index' = Len(Directory) /\ read_index = Len(Directory) /\ got' = << >>
  BY <1>2, <1>3, <1>4, NextName
<1>6. /\ NameLines \in Seq(Seq(Letters \cup {NEWLINE})) /\ Len(NameLines) = Len(Directory)
      /\ Len(Directory) \in Nat
  BY NamesAre, ImageType
<1>7. NameLines' = NameLines
  BY DEF NameLines
<1>8. LsShows'
  <2>1. CASE /\ read_index' \in 1 .. Len(Directory) /\ read_index = read_index' - 1
             /\ got' = Directory[read_index'] /\ got' # << >>
    <3>1. Flat(NameLines, read_index') = Flat(NameLines, read_index' - 1) \o NameLines[read_index']
      BY <1>6, <2>1, FlatIs
    <3>2. NameLines[read_index'] = ls_line(got')
      BY <2>1, NamesAre
    <3>3. read_index' <= Len(Directory) /\ out' \o ls_line(got') = Flat(NameLines, read_index')
      BY <1>1, <1>4, <1>6, <2>1, <3>1, <3>2
    <3>4. ls_line(got)' = ls_line(got')
      BY DEF ls_line
    <3> QED  BY <1>1, <1>7, <2>1, <3>3, <3>4 DEF LsShows
  <2>2. CASE read_index' = Len(Directory) /\ read_index = Len(Directory) /\ got' = << >>
    BY <1>1, <1>4, <1>7, <2>2 DEF LsShows
  <2> QED  BY <1>5, <2>1, <2>2
<1> QED  BY <1>1, <1>8 DEF PrintPart, CatShows, CounterShows, EndShows

\* ls writes it as a line, or ends.
LEMMA LsWritePrint ==
  ASSUME ProgramsStrong, WhoPart, PrintPart, ls_write PROVE PrintPart'
<1>1. /\ at = "ls_write" /\ UNCHANGED <<session, files>>
      /\ IF got = << >> THEN at' = "halt" /\ rval' = 0 /\ out' = out
         ELSE at' = "ls_read" /\ out' = out \o ls_line(got)
  BY DEF ls_write, Idle, return, GoTo
<1>2. Ran' = LS /\ read_index' = read_index
  BY <1>1, RanSame DEF WhoPart, LsPlaces, files
<1>3. NameLines' = NameLines
  BY DEF NameLines
<1>4. CASE got = << >>
  <2>1. LsDid'
    BY <1>1, <1>3, <1>4 DEF PrintPart, LsShows, LsDid
  <2>2. LS # CAT /\ LS # COUNTER
    BY DEF CAT, LS, COUNTER
  <2> QED  BY <1>1, <1>2, <1>4, <2>1, <2>2 DEF PrintPart, CatShows, LsShows, CounterShows, EndShows
<1>5. CASE got # << >>
  BY <1>1, <1>2, <1>3, <1>5 DEF PrintPart, CatShows, LsShows, CounterShows, EndShows
<1> QED  BY <1>4, <1>5

\* counter has ended, or starts to count.
LEMMA CounterChoicePrint ==
  ASSUME TidyPart, WhoPart, counter_choice PROVE PrintPart'
<1>1. /\ at = COUNTER /\ UNCHANGED <<session, out>>
      /\ \/ at' = "counter_loop" /\ frame'.max \in Choices
         \/ at' = "halt"
  BY DEF counter_choice, Idle, GoTo, return, Choices
<1>2. Ran' = COUNTER
  BY <1>1, RanSame DEF WhoPart, CounterPlaces
<1>3. out' = << >>
  BY <1>1 DEF TidyPart, Early, Codes
<1>4. Counted' /\ Len(out') = 0
  <2>1. << >> \in Seq(Numerals') /\ Len(<< >>) = 0
    BY EmptySeq
  <2> QED  BY <1>3, <2>1 DEF Counted
<1>5. CASE at' = "counter_loop" /\ frame'.max \in Choices
  <2>1. frame'.max \in Nat /\ Choices' = Choices
    BY <1>5, ProgramsAssumption DEF Choices
  <2>2. CounterShows'
    BY <1>4, <1>5, <2>1 DEF CounterShows
  <2> QED  BY <1>5, <2>2 DEF PrintPart, CatShows, LsShows, EndShows
<1>6. CASE at' = "halt"
  <2>1. CounterDid'
    BY <1>4 DEF CounterDid, Choices
  <2>2. COUNTER # CAT /\ COUNTER # LS
    BY DEF CAT, LS, COUNTER
  <2> QED  BY <1>2, <1>6, <2>1, <2>2 DEF PrintPart, CatShows, LsShows, CounterShows, EndShows
<1> QED  BY <1>1, <1>5, <1>6

\* counter prints the next number, or ends.
LEMMA CounterLoopPrint ==
  ASSUME WhoPart, PrintPart, counter_loop PROVE PrintPart'
<1>1. /\ at = "counter_loop" /\ UNCHANGED <<session, frame>>
      /\ IF Len(out) < frame.max
           THEN out' = Append(out, itoa(Len(out) + 1)) /\ at' = "counter_loop"
           ELSE at' = "halt" /\ out' = out
  BY DEF counter_loop, Idle, GoTo, return
<1>2. /\ frame.max \in Choices /\ Len(out) <= frame.max /\ out \in Seq(Numerals)
      /\ \A k \in 1 .. Len(out) : out[k] = itoa(k)
  BY <1>1 DEF PrintPart, CounterShows, Counted
<1>3. frame.max \in Nat /\ Len(out) \in Nat /\ Choices' = Choices /\ Numerals' = Numerals
  BY <1>2, ProgramsAssumption DEF Choices, Numerals
<1>4. Ran' = COUNTER
  BY <1>1, RanSame DEF WhoPart, CounterPlaces
<1>5. \A k : itoa(k)' = itoa(k)
  BY DEF itoa
<1>6. CASE Len(out) < frame.max
  <2>1. PICK n \in Nat : n = Len(out) + 1
    BY <1>3
  <2>2. itoa(n) \in Numerals
    BY DEF Numerals
  <2>3. /\ out' \in Seq(Numerals) /\ Len(out') = Len(out) + 1
        /\ \A k \in 1 .. Len(out) : out'[k] = out[k]
        /\ out'[Len(out) + 1] = itoa(n)
    BY <1>1, <1>2, <1>6, <2>1, <2>2, AppendProperties
  <2>4. \A k \in 1 .. Len(out') : out'[k] = itoa(k)
    <3>1. \A k \in 1 .. Len(out') : k \in 1 .. Len(out) \/ k = n
      BY <1>3, <2>1, <2>3
    <3> QED  BY <1>2, <2>1, <2>3, <3>1
  <2>5. Counted'
    BY <1>3, <1>5, <2>3, <2>4 DEF Counted
  <2>6. Len(out') <= frame'.max /\ frame'.max \in Choices'
    BY <1>1, <1>2, <1>3, <1>6, <2>3
  <2> QED  BY <1>1, <1>6, <2>5, <2>6 DEF PrintPart, CatShows, LsShows, CounterShows, EndShows
<1>7. CASE ~ (Len(out) < frame.max)
  <2>1. Len(out) = frame.max
    BY <1>2, <1>3, <1>7
  <2>2. Counted'
    BY <1>1, <1>2, <1>3, <1>5, <1>7 DEF Counted
  <2>3. CounterDid'
    BY <1>1, <1>2, <1>3, <1>7, <2>1, <2>2 DEF CounterDid
  <2>4. COUNTER # CAT /\ COUNTER # LS
    BY DEF CAT, LS, COUNTER
  <2> QED  BY <1>1, <1>4, <1>7, <2>3, <2>4
           DEF PrintPart, CatShows, LsShows, CounterShows, EndShows
<1> QED  BY <1>6, <1>7

\* Every step keeps it.
LEMMA PrintStep ==
  ProgramsStrong /\ TidyPart /\ WhoPart /\ PrintPart /\ [FishNext]_fishvars => PrintPart'
<1> SUFFICES ASSUME ProgramsStrong, TidyPart, WhoPart, PrintPart, [FishNext]_fishvars
             PROVE  PrintPart'
  OBVIOUS
<1>1. CASE UNCHANGED fishvars
  <2>1. UNCHANGED <<session, files, at, rval, out, frame, pc>>
    BY <1>1 DEF fishvars, vars, cvars, fsvars
  <2> QED  BY <2>1, PrintSame
<1>2. CASE cat
  BY <1>2, CatArgsPrint, CatOpenPrint, CatReadPrint, CatWritePrint DEF cat
<1>3. CASE ls
  BY <1>3, LsOpenPrint, LsReadPrint, LsWritePrint DEF ls
<1>4. CASE grep \/ sigtest_args \/ sigtest_fault \/ own \/ fish
  <2>1. /\ UNCHANGED session
        /\ at \in OtherPlaces /\ at' \in (OtherPlaces \ Codes) \cup {"halt"}
    BY <1>4, GrepIndex, FishIndex, SmallIndex DEF TidyPart
  <2> QED  BY <2>1, OtherPrint
<1> QED  BY <1>1, <1>2, <1>3, <1>4, KernelPrint, CounterChoicePrint, CounterLoopPrint
         DEF FishNext, FishRunning, TypesLine, Progress

\* The invariants hold at the start.
LEMMA PrintStart == FishInit => TidyPart /\ WhoPart /\ PrintPart
<1> SUFFICES ASSUME FishInit PROVE TidyPart /\ WhoPart /\ PrintPart
  OBVIOUS
<1>1. at = "prompt" /\ fdt = NewTable /\ read_index = 0 /\ out = << >>
  BY DEF FishInit, ProgramsInit, CommandsInit
<1>2. TidyPart
  BY <1>1 DEF TidyPart, IndexPart
<1>3. at \notin CatPlaces \cup LsPlaces \cup CounterPlaces \cup OtherPlaces
  BY <1>1, PlacesApart
<1>4. WhoPart
  BY <1>1, <1>3 DEF WhoPart, Found, CAT
<1>5. PrintPart
  BY <1>1 DEF PrintPart, CatShows, LsShows, CounterShows, EndShows
<1> QED  BY <1>2, <1>4, <1>5

\* The numerals 1, 2, 3 and so on stand for these numbers.
LEMMA CountedIs ==
  ASSUME Counted
  PROVE  \A k \in DOMAIN out : Number(out[k]) = k /\ out[k][1] # 0
<1>1. out \in Seq(Numerals) /\ \A k \in 1 .. Len(out) : out[k] = itoa(k)
  BY DEF Counted
<1>2. DOMAIN out = 1 .. Len(out) /\ Len(out) \in Nat
  BY <1>1, LenProperties
<1>3. ASSUME NEW k \in DOMAIN out PROVE Number(out[k]) = k /\ out[k][1] # 0
  <2>1. k \in Nat \ {0} /\ out[k] = itoa(k)
    BY <1>1, <1>2
  <2>2. Number(itoa(k)) = k /\ itoa(k)[1] # 0
    BY <2>1, ItoaIs
  <2> QED  BY <2>1, <2>2
<1> QED  BY <1>3

\* What the invariant says when a program has ended.
LEMMA PrintPartIs == PrintPart => PrintsRight
<1> SUFFICES ASSUME PrintPart PROVE PrintsRight
  OBVIOUS
<1>1. CatPrints
  BY DEF PrintPart, EndShows, CatDid, CatPrints, Ended, Ran
<1>2. ListsNames
  <2>1. /\ NameLines \in Seq(Seq(Letters \cup {NEWLINE})) /\ Len(NameLines) = Len(Directory)
    BY NamesAre
  <2>2. Seqs!FlattenSeq(NameLines) = Flat(NameLines, Len(Directory))
    BY <2>1, FlatIs
  <2>3. Ended(LS) => rval = 0 /\ out = Seqs!FlattenSeq(NameLines)
    BY <2>2 DEF PrintPart, EndShows, LsDid, Ended, Ran
  <2> QED  BY <2>3 DEF ListsNames, NameLines
<1>3. CountsUp
  <2>1. Ended(COUNTER) => Counted /\ Len(out) \in Choices
    BY DEF PrintPart, EndShows, CounterDid, Ended, Ran
  <2> QED  BY <2>1, CountedIs DEF CountsUp, Choices
<1> QED  BY <1>1, <1>2, <1>3 DEF PrintsRight

(***************************************************************************)
(* For every image, every sequence of commands and every size of buffers   *)
(* and blocks: cat ends with the whole of the file or directory printed,   *)
(* ls with every name on its line, and counter with the numerals of 1, 2,  *)
(* 3 up to the number chosen, whatever programs ran before.                *)
(***************************************************************************)
THEOREM PrintsCorrect == FishSpec => []PrintsRight
<1>1. FishSpec => []TidyPart
  BY PrintStart, TidyStep, ProgramsAlways, PTL DEF FishSpec
<1>2. FishSpec => []WhoPart
  BY <1>1, PrintStart, WhoStep, ProgramsAlways, PTL DEF FishSpec
<1>3. FishSpec => []PrintPart
  BY <1>1, <1>2, PrintStart, PrintStep, ProgramsAlways, PTL DEF FishSpec
<1> QED  BY <1>3, PrintPartIs, PTL
=============================================================================
