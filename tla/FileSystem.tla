----------------------------- MODULE FileSystem -----------------------------
(***************************************************************************)
(* The two algorithms on the file system image: finding a directory entry  *)
(* by name, and read_data, which walks the data blocks of an inode while   *)
(* it copies.  The image never changes, so a call depends on its arguments *)
(* only; a call is started with any arguments, and any number follow each  *)
(* other.                                                                  *)
(*                                                                         *)
(* A byte of the image is named by its block and its offset in the block.  *)
(***************************************************************************)
EXTENDS Integers, Sequences

CONSTANTS
  MAX_STR_LENGTH,  \* characters of file_name in a directory entry
  BLOCK_SIZE,      \* bytes of a data block
  Letters,         \* characters of names
  Directory,       \* the names in boot_block->dir_entries
  Inodes,          \* for each inode its length and data_blocks
  MaxOffset,       \* bound on the offset of a call
  MaxLength        \* bound on its length

NUL == "nul"

(***************************************************************************)
(* data_blocks has room for more blocks than a file uses; what is in the   *)
(* rest is not specified, and at least one entry follows the used ones.    *)
(***************************************************************************)
ASSUME FileSystemAssumption ==
  /\ MAX_STR_LENGTH \in Nat \ {0} /\ BLOCK_SIZE \in Nat \ {0}
  /\ NUL \notin Letters
  /\ Directory \in Seq(Seq(Letters))
  /\ \A k \in DOMAIN Directory : Len(Directory[k]) \in 1 .. MAX_STR_LENGTH
  /\ Inodes \in Seq({Inodes[n] : n \in DOMAIN Inodes})
  /\ \A n \in DOMAIN Inodes :
       /\ Inodes[n].length \in Nat
       /\ DOMAIN Inodes[n].data_blocks
            = 0 .. Inodes[n].length \div BLOCK_SIZE
  /\ MaxOffset \in Nat /\ MaxLength \in Nat

NumInodes == Len(Inodes)
inode(n)  == Inodes[n + 1]

VARIABLES
  pc,          \* "idle", or "copy" in the loop of read_data
  args,        \* the arguments of the call
  i,           \* its loop counter
  cur_dblock,  \* the block it copies from
  buf,         \* the bytes copied
  result       \* what the last call returned

fsvars == <<pc, args, i, cur_dblock, buf, result>>

Names   == UNION {[1 .. n -> Letters] : n \in 0 .. MAX_STR_LENGTH + 1}
NoArgs  == [call |-> "none"]
NoValue == -2
NoBlock == -1

FileSystemInit ==
  /\ pc = "idle" /\ args = NoArgs
  /\ i = 0 /\ cur_dblock = NoBlock /\ buf = << >>
  /\ result = NoValue

-----------------------------------------------------------------------------
\* Character n (from 0) of a string, NUL from its end on.
Char(s, n) == IF n < Len(s) THEN s[n + 1] ELSE NUL

\* strncmp gives 0: no difference up to the first NUL or the n-th character.
strncmp_equal(s1, s2, n) ==
  \A k \in 0 .. n - 1 :
    (\A j \in 0 .. k - 1 : Char(s1, j) # NUL) => Char(s1, k) = Char(s2, k)

\* Mutant of compared: the shorter of the two lengths.
compared_shorter(fname, name) ==
  IF Len(fname) < Len(name) THEN Len(fname) ELSE Len(name)

\* The longer of the two lengths; a name that fills its field has no NUL,
\* and its strlen, which runs on, is cut to the size of the field.
compared(fname, name) ==
  IF Len(fname) < Len(name) THEN Len(name) ELSE Len(fname)

Matches(fname, name) == strncmp_equal(fname, name, compared(fname, name))

\* Index of the first entry that matches, or -1.
lookup(fname) ==
  IF Len(fname) > MAX_STR_LENGTH \/ Len(fname) = 0 THEN -1
  ELSE LET found == {k \in DOMAIN Directory : Matches(fname, Directory[k])} IN
       IF found = {} THEN -1
       ELSE (CHOOSE k \in found : \A j \in found : k <= j) - 1

read_dentry_by_name(fname) ==
  /\ pc = "idle"
  /\ args' = [call |-> "name", fname |-> fname]
  /\ result' = lookup(fname)
  /\ buf' = << >> /\ i' = 0 /\ cur_dblock' = NoBlock
  /\ UNCHANGED pc

-----------------------------------------------------------------------------
block_of(n, pos) == inode(n).data_blocks[pos \div BLOCK_SIZE]

refused(n, offset) ==
  \/ n >= NumInodes
  \/ offset > inode(n).length

\* The checks of read_data, and the block that holds the offset.
read_data(n, offset, length) ==
  /\ pc = "idle"
  /\ args' = [call |-> "data", inode |-> n, offset |-> offset, length |-> length]
  /\ buf' = << >> /\ i' = 0
  /\ IF refused(n, offset)
       THEN /\ result' = -1
            /\ cur_dblock' = NoBlock
            /\ UNCHANGED pc
       ELSE /\ pc' = "copy"
            /\ cur_dblock' = block_of(n, offset)
            /\ result' = NoValue

InLoop ==
  /\ i < args.length
  /\ i + args.offset < inode(args.inode).length

\* Mutant of NextBlock: the block changes with the loop counter.
NextBlockByCount(n, offset, k) ==
  IF k > 0 /\ k % BLOCK_SIZE = 0 THEN block_of(n, k + offset) ELSE cur_dblock

\* The block is looked up again at every block boundary.
NextBlock(n, offset, k) ==
  IF (k + offset) % BLOCK_SIZE = 0 THEN block_of(n, k + offset) ELSE cur_dblock

copy_byte ==
  /\ pc = "copy" /\ InLoop
  /\ cur_dblock' = NextBlock(args.inode, args.offset, i)
  /\ buf' = Append(buf, <<cur_dblock', (i + args.offset) % BLOCK_SIZE>>)
  /\ i' = i + 1
  /\ UNCHANGED <<pc, args, result>>

read_data_done ==
  /\ pc = "copy" /\ ~ InLoop
  /\ pc' = "idle"
  /\ result' = i
  /\ UNCHANGED <<args, i, cur_dblock, buf>>

FileSystemNext ==
  \/ \E fname \in Names : read_dentry_by_name(fname)
  \/ \E n \in 0 .. NumInodes, offset \in 0 .. MaxOffset, length \in 0 .. MaxLength :
       read_data(n, offset, length)
  \/ copy_byte
  \/ read_data_done

FileSystemSpec == FileSystemInit /\ [][FileSystemNext]_fsvars

-----------------------------------------------------------------------------
(***************************************************************************)
(* A name is found if and only if an entry has exactly that name, also one *)
(* of the full 32 characters, which is stored without a NUL; a prefix or   *)
(* an extension of a name is not.                                          *)
(***************************************************************************)
LookupExact ==
  args.call = "name" =>
    IF \E k \in DOMAIN Directory : Directory[k] = args.fname
      THEN result >= 0 /\ Directory[result + 1] = args.fname
      ELSE result = -1

\* The bytes of a file, in order.
Contents(n) ==
  [k \in 1 .. inode(n).length |->
     <<inode(n).data_blocks[(k - 1) \div BLOCK_SIZE], (k - 1) % BLOCK_SIZE>>]

(***************************************************************************)
(* read_data delivers the bytes of the file from the offset on, as many as *)
(* were asked for or as there are, across block boundaries and for blocks  *)
(* in any order; at the end of the file it delivers none and succeeds.     *)
(***************************************************************************)
ReadsTheFile ==
  pc = "idle" /\ args.call = "data" =>
    IF args.inode < NumInodes /\ args.offset <= inode(args.inode).length
      THEN LET rest == inode(args.inode).length - args.offset IN
           /\ result = IF args.length < rest THEN args.length ELSE rest
           /\ buf = SubSeq(Contents(args.inode), args.offset + 1,
                           args.offset + result)
      ELSE result = -1
=============================================================================
