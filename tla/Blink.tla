-------------------------------- MODULE Blink --------------------------------
(***************************************************************************)
(* The blinking characters of fish: a list, threaded through the elements  *)
(* of blink_array, of characters that alternate with another one at their  *)
(* place on the screen.  An element with location 0 is taken to be free.   *)
(*                                                                         *)
(* All of it is the memory of one program, which calls mp1_rtc_tasklet     *)
(* itself after each RTC interrupt it waited for.                          *)
(***************************************************************************)
EXTENDS Integers

CONSTANTS
  NumCells,  \* 80 * 25 places on the screen
  NumSlots   \* elements of blink_array

ASSUME BlinkAssumption == NumCells \in Nat \ {0} /\ NumSlots \in Nat \ {0}

NULL  == 0
Slots == 1 .. NumSlots

\* The times a 16-bit field holds that jg, a signed compare, takes for positive.
\* With a longer one the character would change at every tick.
Times == 1 .. 32767

Cells == 0 .. NumCells - 1

VARIABLES
  blink_array,    \* the elements, without their next
  next,           \* the element after this one in the list, NULL after NULL
  mp1_list_head,  \* the first one, or NULL
  vmem,           \* the characters at vmem_base_addr
  ticks,          \* history: calls of mp1_rtc_tasklet
  in_step,        \* history: pairs of elements that were synchronised
  disturbed       \* history: elements drawn over since they last changed

bvars == <<blink_array, next, mp1_list_head, vmem, ticks, in_step, disturbed>>

\* born is history: the tick at which the character was added.
Blinking(location, on_char, off_char, on_length, off_length) ==
  [location |-> location, on_char |-> on_char, off_char |-> off_char,
   on_length |-> on_length, off_length |-> off_length,
   countdown |-> on_length, status |-> 1, born |-> ticks]

Zeroed ==
  [location |-> 0, on_char |-> "nul", off_char |-> "nul", on_length |-> 0,
   off_length |-> 0, countdown |-> 0, status |-> 0, born |-> 0]

BlinkInit ==
  /\ blink_array = [s \in Slots |-> Zeroed]
  /\ next = [s \in Slots \cup {NULL} |-> NULL]
  /\ mp1_list_head = NULL
  /\ vmem = [c \in Cells |-> " "]
  /\ ticks = 0 /\ in_step = {} /\ disturbed = {}

\* The element reached from the head in n steps, and all of the list.
nth[n \in 0 .. NumSlots] == IF n = 0 THEN mp1_list_head ELSE next[nth[n - 1]]

Listed == IF mp1_list_head = NULL THEN {} ELSE {nth[n] : n \in 0 .. NumSlots} \ {NULL}

At(c) == {s \in Listed : blink_array[s].location = c}

\* Nothing else blinks in the same place.
Alone(s) == \A t \in Listed \ {s} : blink_array[t].location # blink_array[s].location

\* The first element of the list with a location, or NULL.
mp1_find_helper(location) ==
  LET at_place == {n \in 0 .. NumSlots :
                     nth[n] # NULL /\ blink_array[nth[n]].location = location}
  IN IF at_place = {} THEN NULL
     ELSE nth[CHOOSE n \in at_place : \A m \in at_place : n <= m]

mp1_malloc ==
  LET free == {s \in Slots : blink_array[s].location = 0} IN
  IF free = {} THEN NULL ELSE CHOOSE s \in free : \A t \in free : s <= t

\* A place off the screen, or no free element: nothing happens.
mp1_ioctl_add(b) ==
  LET slot == mp1_malloc IN
  IF b.location >= NumCells \/ slot = NULL THEN UNCHANGED bvars
  ELSE /\ blink_array' = [blink_array EXCEPT ![slot] = b]
       /\ next' = [next EXCEPT ![slot] = mp1_list_head]
       /\ mp1_list_head' = slot
       /\ vmem' = [vmem EXCEPT ![b.location] = b.on_char]
       /\ disturbed' = disturbed \cup
            IF At(b.location) = {} THEN {} ELSE At(b.location) \cup {slot}
       /\ UNCHANGED <<ticks, in_step>>

\* Mutant of unlinked: the list is cut off at the element.
unlinked_rest(slot) == [s \in DOMAIN next |-> IF next[s] = slot THEN NULL ELSE next[s]]

\* The element before slot takes over its successor; mp1_free zeroes slot.
unlinked(slot) ==
  [s \in DOMAIN next |-> CASE s = slot                       -> NULL
                           [] s \in Listed /\ next[s] = slot -> next[slot]
                           [] OTHER                           -> next[s]]

mp1_ioctl_remove(location) ==
  LET slot == mp1_find_helper(location) IN
  IF slot = NULL THEN UNCHANGED bvars
  ELSE /\ blink_array' = [blink_array EXCEPT ![slot] = Zeroed]
       /\ mp1_list_head' = IF mp1_list_head = slot THEN next[slot] ELSE mp1_list_head
       /\ next' = unlinked(slot)
       /\ in_step' = {p \in in_step : slot \notin p}
       /\ disturbed' = disturbed \ {slot}
       /\ UNCHANGED <<vmem, ticks>>

synced(to, from) ==
  [to EXCEPT !.on_length = from.on_length, !.off_length = from.off_length,
             !.countdown = from.countdown, !.status = from.status,
             !.born = from.born]

\* The conditional move that should choose on_char tests for less, which never
\* follows from the test before it: off_char is drawn in either phase.
mp1_ioctl_sync(from, to) ==
  LET first == mp1_find_helper(from) second == mp1_find_helper(to) IN
  IF first = NULL \/ second = NULL THEN UNCHANGED bvars
  ELSE /\ blink_array' = [blink_array EXCEPT ![second] = synced(@, blink_array[first])]
       /\ vmem' = [vmem EXCEPT ![to] = blink_array[second].off_char]
       /\ in_step' = {p \in in_step : second \notin p} \cup {{first, second}}
       /\ disturbed' = disturbed \cup At(to)
       /\ UNCHANGED <<next, mp1_list_head, ticks>>

\* Mutant of Due: the character changes one tick late.
Due_late(b) == b.countdown < 1

Due(b) == b.countdown - 1 <= 0

toggled(b) ==
  [b EXCEPT !.countdown = IF b.status = 1 THEN b.off_length ELSE b.on_length,
            !.status = 1 - b.status]

Precedes(s, t) == \E n, m \in 0 .. NumSlots : n < m /\ nth[n] = s /\ nth[m] = t

\* Of the elements due in a place, the last one of the list.
LastAt(c, due) ==
  CHOOSE s \in due :
    /\ blink_array[s].location = c
    /\ \A t \in due \ {s} : blink_array[t].location = c => Precedes(t, s)

counted(b) == [b EXCEPT !.countdown = @ - 1]
drawn(b)   == IF b.status = 1 THEN b.off_char ELSE b.on_char

\* One pass over the list.
mp1_rtc_tasklet ==
  \E listed \in {Listed} : \E due \in {{s \in listed : Due(blink_array[s])}} :
    /\ blink_array' =
         [s \in Slots |-> CASE s \in due          -> toggled(blink_array[s])
                            [] s \in listed \ due -> counted(blink_array[s])
                            [] OTHER              -> blink_array[s]]
    /\ vmem' =
         [c \in Cells |-> IF \E s \in due : blink_array[s].location = c
                            THEN drawn(blink_array[LastAt(c, due)]) ELSE vmem[c]]
    /\ disturbed' = {s \in disturbed : s \in due => ~ Alone(s)}
    /\ ticks' = ticks + 1
    /\ UNCHANGED <<next, mp1_list_head, in_step>>

-----------------------------------------------------------------------------
(***************************************************************************)
(* The list has an end, goes through every element of blink_array that is  *)
(* in use, and through no free one: nothing blinks that was removed, and   *)
(* nothing that blinks can be allocated again.                             *)
(***************************************************************************)
ListSound ==
  /\ nth[NumSlots] = NULL
  /\ Listed = {s \in Slots : blink_array[s].location # 0}

(***************************************************************************)
(* A character shows for on_length ticks and the other one for off_length, *)
(* in turn, from the tick it was added on, or the one it is synchronised   *)
(* with, whatever else is added and removed; unless mp1_ioctl_sync or      *)
(* another character has drawn over it and it has not changed since.       *)
(***************************************************************************)
BlinksOnTime ==
  \A s \in Listed \ disturbed :
    LET b == blink_array[s] IN
    vmem[b.location] =
      IF (ticks - b.born) % (b.on_length + b.off_length) < b.on_length
        THEN b.on_char ELSE b.off_char

(***************************************************************************)
(* Two characters that were synchronised change at the same ticks from     *)
(* then on.                                                                *)
(***************************************************************************)
InStep ==
  \A p \in in_step : \A s, t \in p :
    /\ blink_array[s].status = blink_array[t].status
    /\ blink_array[s].countdown = blink_array[t].countdown

(***************************************************************************)
(* Everything blinks in its own time, and what was synchronised in step    *)
(* with its partner.                                                       *)
(***************************************************************************)
BlinksInTime == BlinksOnTime /\ InStep
=============================================================================
