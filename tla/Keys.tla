-------------------------------- MODULE Keys --------------------------------
(***************************************************************************)
(* From scan codes to editing commands.  Every press and every release is  *)
(* an interrupt; get_key keeps one flag per modifier and special key and   *)
(* gives a character or 0, and keyboard_handler decides from the flags and *)
(* the character what to do.  The keys really held down are kept beside    *)
(* the flags, to be compared with them.                                    *)
(*                                                                         *)
(* Keys the code treats alike are one key here: a letter, the letter l, a  *)
(* digit, and a punctuation key.                                           *)
(***************************************************************************)
EXTENDS Integers, FiniteSets

CONSTANT MaxHeld    \* bound: keys held down at the same time

ASSUME KeysAssumption == MaxHeld \in Nat \ {0}

FunctionKeys == {"f1", "f2", "f3"}
CharKeys     == {"letter", "l", "digit", "punct", "enter"}
FlagKeys     == {"backspace", "tab", "l_shift", "r_shift", "ctrl", "alt"}
Keys         == CharKeys \cup FlagKeys \cup FunctionKeys \cup {"caps"}

F(key) == CASE key = "f1" -> 1 [] key = "f2" -> 2 [] key = "f3" -> 3

VARIABLES
  held,      \* the keys that are down
  flag,      \* backspace, tab, l_shift, r_shift, ctrl and alt
  caps,      \* caps lock
  function,  \* the function key pressed last and not released, or 0
  event,     \* the key and direction of the interrupt just handled
  command    \* what the handler did

keyvars == <<held, flag, caps, function, event, command>>

NoChar    == [key |-> "none", shifted |-> FALSE]
Chars     == [key : CharKeys, shifted : BOOLEAN] \cup {NoChar}
Command(kind, ch) == [kind |-> kind, ch |-> ch]

KeysTypeOK ==
  /\ held \subseteq Keys
  /\ flag \in [FlagKeys -> {0, 1}]
  /\ caps \in {0, 1}
  /\ function \in 0 .. 3
  /\ event \in [key : Keys \cup {"none"}, down : BOOLEAN]
  /\ command \in [kind : {"none", "type", "erase", "tab", "clear", "switch"},
                  ch : Chars]

KeysInit ==
  /\ held = {}
  /\ flag = [k \in FlagKeys |-> 0]
  /\ caps = 0
  /\ function = 0
  /\ event = [key |-> "none", down |-> FALSE]
  /\ command = Command("none", NoChar)

-----------------------------------------------------------------------------
shift == flag["l_shift"] = 1 \/ flag["r_shift"] = 1

(***************************************************************************)
(* The four tables of get_key, by caps and shift: letters and punctuation  *)
(* come shifted from the second and the third, digits from the second and  *)
(* the fourth, and Enter is the same in all of them.                       *)
(***************************************************************************)
Shifted(key) ==
  CASE key \in {"letter", "l", "punct"} -> shift # (caps = 1)
    [] key = "digit" -> shift
    [] OTHER -> FALSE

\* The character of a scan code: releases and special keys give 0.
ascii(key, down) ==
  IF down /\ key \in CharKeys THEN [key |-> key, shifted |-> Shifted(key)]
                              ELSE NoChar

\* Mutants of flag_after: a release is missing; a release is not told from
\* a press.
flag_no_release(key, down) ==
  IF key \in FlagKeys /\ (down \/ key # "backspace")
    THEN [flag EXCEPT ![key] = IF down THEN 1 ELSE 0] ELSE flag
flag_toggled(key, down) ==
  IF key \in FlagKeys THEN [flag EXCEPT ![key] = 1 - @] ELSE flag

\* What get_key does to the flags, in every table.
flag_after(key, down) ==
  IF key \in FlagKeys THEN [flag EXCEPT ![key] = IF down THEN 1 ELSE 0]
                      ELSE flag

function_after(key, down) ==
  IF key \in FunctionKeys THEN (IF down THEN F(key) ELSE 0) ELSE function

caps_after(key, down) == IF key = "caps" /\ down THEN 1 - caps ELSE caps

\* Ctrl and a character: clear for l, plain typing for all others.
ctrl_helper(ch) ==
  CASE ch.key = "l" -> Command("clear", NoChar)
    [] ch = NoChar  -> Command("none", NoChar)
    [] OTHER        -> Command("type", ch)

\* Alt and a function key switch terminals.
alt_helper(fn) ==
  IF fn \in 1 .. 3 THEN Command("switch", NoChar) ELSE Command("none", NoChar)

\* The decision of keyboard_handler, on the flags get_key has left.
decide(ch, fl, fn) ==
  IF fl["ctrl"] = 1 THEN ctrl_helper(ch)
  ELSE IF ch # NoChar THEN Command("type", ch)
  ELSE IF fl["backspace"] = 1 THEN Command("erase", NoChar)
  ELSE IF fl["tab"] = 1 THEN Command("tab", NoChar)
  ELSE IF fl["alt"] = 1 THEN alt_helper(fn)
  ELSE Command("none", NoChar)

keyboard_handler(key, down) ==
  /\ flag' = flag_after(key, down)
  /\ function' = function_after(key, down)
  /\ caps' = caps_after(key, down)
  /\ event' = [key |-> key, down |-> down]
  /\ command' = decide(ascii(key, down), flag', function')

\* A key goes down, or repeats while it is held.
press(key) ==
  /\ Cardinality(held \cup {key}) <= MaxHeld
  /\ held' = held \cup {key}
  /\ keyboard_handler(key, TRUE)

release(key) ==
  /\ key \in held
  /\ held' = held \ {key}
  /\ keyboard_handler(key, FALSE)

KeysNext == \E key \in Keys : press(key) \/ release(key)

KeysSpec == KeysInit /\ [][KeysNext]_keyvars

-----------------------------------------------------------------------------
(***************************************************************************)
(* No command sticks: whatever keys go up and down together and in which   *)
(* order, the handler types only what is being pressed, and erases, tabs,  *)
(* clears and switches terminals only while the keys for it are held.      *)
(***************************************************************************)
OnlyWhileHeld ==
  /\ command.kind = "type" => event.down /\ event.key = command.ch.key
  /\ command.kind = "erase" => "backspace" \in held
  /\ command.kind = "tab" => "tab" \in held
  /\ command.kind = "clear" => {"ctrl", "l"} \subseteq held
  /\ command.kind = "switch" => "alt" \in held /\ held \cap FunctionKeys # {}

(***************************************************************************)
(* The two together: flags stay flags under any order of presses, repeats  *)
(* and releases, and none of them outlives the key it stands for.          *)
(***************************************************************************)
KeysInv == KeysTypeOK /\ OnlyWhileHeld

(***************************************************************************)
(* A digit is shifted exactly while a shift key is held, a letter when     *)
(* that and caps lock disagree, also after the shift keys were pressed and *)
(* released one across the other.                                          *)
(***************************************************************************)
CaseFollowsKeys ==
  command.kind = "type" =>
    LET down == held \cap {"l_shift", "r_shift"} # {} IN
    /\ command.ch.key = "digit" => command.ch.shifted = down
    /\ command.ch.key \in {"letter", "l"} =>
         command.ch.shifted = (down # (caps = 1))
=============================================================================
