---------------------------- MODULE MCPrograms ----------------------------
(***************************************************************************)
(* Model of Programs for TLC.  Names are up to two letters long, prefixes  *)
(* of each other, and fill their field.  The blocks of files are out of    *)
(* order; the text has every content over a letter and newline.            *)
(***************************************************************************)
EXTENDS Fish

MCDirectory ==
  << <<".">>, <<"a">>, <<"b">>, <<"a", "a">>, <<".", ".">>, <<".", "a">>,
     <<"a", "b">>, <<"b", "a">>, <<"b", "b">>, <<".", "b">> >>
MCTypes       == <<1, 2, 2, 2, 2, 2, 2, 2, 0, 2>>
MCEntryInodes == <<0, 1, 2, 3, 4, 5, 6, 7, 0, 8>>

Blocks(s) == [k \in 0 .. Len(s) - 1 |-> s[k + 1]]
File(length, blocks) == [length |-> length, data_blocks |-> Blocks(blocks)]

MCInodes ==
  << File(0, <<99>>), File(3, <<11, 10>>), File(3, <<20, 21>>), File(4, <<31, 30, 99>>),
     File(3, <<40, 41>>), File(3, <<50, 51>>), File(7, <<63, 61, 60, 62>>),
     File(5, <<72, 70, 71>>), File(3, <<80, 81>>) >>

MCELF == <<"7f", "E">>
Image(n) ==
  MCELF \o CASE n = 1 -> <<CAT>> [] n = 2 -> <<GREP>> [] n = 3 -> <<LS, NUL>>
             [] n = 4 -> <<COUNTER>> [] n = 5 -> <<SIGTEST>>
             [] n = 6 -> <<OWN, NEWLINE, SPACE, NUL, "a">> [] n = 8 -> <<FISH>>

\* The image with a given text as the content of the last file.
Disk(text) ==
  [byte \in UNION {{Contents(n)[k] : k \in 1 .. inode(n).length} : n \in 1 .. 8} |->
     LET n == byte[1] \div 10
         k == CHOOSE k \in 1 .. inode(n).length : Contents(n)[k] = byte
     IN IF n = 7 THEN text[k] ELSE Image(n)[k]]

MCDisks == {Disk(text) : text \in [1 .. 5 -> {"a", NEWLINE}]}
MCEXIT  == <<"b", ".">>
MCMaxima == <<2, 10>>

\* The frames of fish: the text, and an image with several lines.
MCRtcName == <<"b", "b">>
MCFrames  == << <<"b", "a">>, <<"a", "b">> >>

\* The script of fish; one that removes the first, a middle and the last of
\* the list; and one that uses an element again, in a place that is taken.
add(c)    == [op |-> "add", location |-> c, on |-> 3, off |-> 1]
sync(c)   == [op |-> "sync", location |-> c]
remove(c) == [op |-> "remove", location |-> c]

MCScripts ==
  { <<add(9), sync(9), remove(9)>>, <<remove(5), remove(4), remove(3)>>,
    <<remove(4), add(5), sync(5), remove(5)>> }

\* Calls of the user's own program do not depend on the content.
OneDiskForOwn == at = OWN => disk = Disk([k \in 1 .. 5 |-> "a"])
===========================================================================
