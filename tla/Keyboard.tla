------------------------------ MODULE Keyboard ------------------------------
(***************************************************************************)
(* The keyboard driver (keyboard.c) and the keyboard that feeds it: keys   *)
(* are pressed, repeat and are released, each time putting scan codes into *)
(* a queue that keyboard_handler reads later.                              *)
(***************************************************************************)
EXTENDS Integers, Sequences, FiniteSets, SequencesExt, TLC

CONSTANTS
    Keys,          \* keys of the keyboard, by scan code; 256 + c is a key with codes E0 c
    Repeating,     \* keys that repeat while they are held
    MaxCodes,      \* bound: scan codes waiting
    MaxTyped       \* bound: characters typed

ASSUME KeysAssumption ==
    /\ Keys \subseteq 1 .. 88 \cup 256 .. 344
    /\ Repeating \subseteq Keys
ASSUME BoundAssumption == {MaxCodes, MaxTyped} \subseteq Nat

NORMAL == 0
SHIFT  == 1

\* Consecutive scan codes, from first on.
Row(first, chars) == [c \in first .. first + Len(chars) - 1 |-> chars[c - first + 1]]

(***************************************************************************)
(* The two maps; a scan code that is not in the domain has a zero.         *)
(***************************************************************************)
keymap == [m \in {NORMAL, SHIFT} |->
    IF m = NORMAL
    THEN Row(16, << "q", "w", "e", "r", "t", "y", "u", "i", "o", "p" >>) @@
         Row(30, << "a", "s", "d", "f", "g", "h", "j", "k", "l", ";" >>) @@
         Row(44, << "z", "x", "c", "v", "b", "n", "m" >>) @@
         28 :> "newline" @@ 52 :> "." @@ 57 :> " "
    ELSE Row(16, << "Q", "W", "E", "R", "T", "Y" >>) @@ 78 :> "U" @@
         Row(23, << "I", "O", "P" >>) @@
         Row(30, << "A", "S", "D", "F", "G", "H", "J", "K", "L", ":" >>) @@
         Row(44, << "Z", "X", "C", "V", "B", "N", "M" >>) @@
         28 :> "newline" @@ 52 :> ">" @@ 57 :> " "]

Shifts == {42, 54}

VARIABLES
    held, last,     \* keys that are held, and the one pressed last, which repeats
    codes,          \* scan codes not read yet
    shift,
    typed,          \* characters printed
    intended,       \* history: what the keys stood for when they were hit
    bad             \* why the driver hung: "none", "unmapped" or "released"

keyboard == <<held, last, intended>>
driver   == <<shift, typed, bad>>
kvars    == <<keyboard, codes, driver>>

\* No key is held when the kernel starts.
KInit ==
    /\ held = {} /\ last = 0
    /\ codes = << >>
    /\ shift = 0
    /\ typed = << >> /\ intended = << >>
    /\ bad = "none"

-----------------------------------------------------------------------------
\* The keyboard.  Extended keys send the prefix E0, and a release is the code
\* with its high bit set.
Code(k)    == k % 256
Prefix(k)  == IF k >= 256 THEN << 224 >> ELSE << >>
Make(k)    == Append(Prefix(k), Code(k))
Break(k)   == Append(Prefix(k), Code(k) + 128)
Sends(seq) == Len(codes) + Len(seq) <= MaxCodes /\ codes' = codes \o seq

\* What a key stands for while the keys h are held, for keys of the first map.
Legend(k, h) ==
    LET m == IF h \cap Shifts # {} THEN SHIFT ELSE NORMAL IN
    IF k \in Shifts \/ Code(k) \notin DOMAIN keymap[m] THEN << >> ELSE << keymap[m][Code(k)] >>

Hit(k) ==
    /\ Len(intended) < MaxTyped
    /\ Sends(Make(k))
    /\ intended' = intended \o Legend(k, held)
    /\ UNCHANGED driver

Press(k) ==
    /\ k \notin held /\ Hit(k)
    /\ held' = held \cup {k} /\ last' = k

Repeat(k) ==
    /\ k = last /\ k \in Repeating /\ Hit(k)
    /\ UNCHANGED <<held, last>>

Release(k) ==
    /\ k \in held /\ Sends(Break(k))
    /\ held' = held \ {k}
    /\ last' = IF last = k THEN 0 ELSE last
    /\ UNCHANGED <<intended, driver>>

-----------------------------------------------------------------------------
modifier_above_one == IF shift > 1 THEN SHIFT ELSE NORMAL
modifier == IF shift > 0 THEN SHIFT ELSE NORMAL

process_key_press(scan_code) ==
    \/ /\ scan_code \in Shifts
       /\ shift' = shift + 1
       /\ UNCHANGED <<typed, bad>>
    \/ /\ scan_code \notin Shifts
       /\ IF scan_code \in DOMAIN keymap[modifier]
          THEN typed' = Append(typed, keymap[modifier][scan_code]) /\ UNCHANGED bad
          ELSE bad' = "unmapped" /\ UNCHANGED typed
       /\ UNCHANGED shift

process_key_release_both(scan_code) ==
    /\ shift' = IF scan_code - 128 \in Shifts THEN 0 ELSE shift
    /\ UNCHANGED <<typed, bad>>

process_key_release(scan_code) ==
    /\ shift' = IF scan_code - 128 \in Shifts THEN shift - 1 ELSE shift
    /\ bad' = IF shift' < 0 THEN "released" ELSE bad
    /\ UNCHANGED typed

\* keyboard_handler: the bit 0x80 of the code tells a release from a press.
ReadCode ==
    /\ bad = "none" /\ codes # << >>
    /\ codes' = Tail(codes)
    /\ IF Head(codes) >= 128
       THEN process_key_release(Head(codes))
       ELSE process_key_press(Head(codes))
    /\ UNCHANGED keyboard

\* Nobody touches the keys, or the kernel hangs.
Rest == (codes = << >> \/ bad # "none") /\ UNCHANGED kvars

Typist == \E k \in Keys : Press(k) \/ Repeat(k) \/ Release(k)

KNext == Typist \/ ReadCode \/ Rest

KSpec == KInit /\ [][KNext]_kvars

-----------------------------------------------------------------------------
\* The characters of the two maps.
Characters == UNION {{keymap[m][c] : c \in DOMAIN keymap[m]} : m \in {NORMAL, SHIFT}}

\* The type of every variable; the driver prints nothing but characters of its maps.
KTypeOK ==
    /\ held \subseteq Keys /\ last \in held \cup {0}
    /\ codes \in Seq(0 .. 255) /\ Len(codes) <= MaxCodes
    /\ shift \in Int /\ shift >= -1 /\ (shift = -1 => bad = "released")
    /\ {typed, intended} \subseteq Seq(Characters)
    /\ bad \in {"none", "unmapped", "released"}

\* The screen gets what was typed, in order and with the case of the moment each
\* key was hit, although scan codes are read later, when other keys are held
\* (process_key_press, and the order of the queue).
TypedAsHeld ==
    /\ IsPrefix(typed, intended)
    /\ codes = << >> /\ bad = "none" => typed = intended

\* Once the codes are read the driver uses the SHIFT map if and only if a SHIFT key is
\* held, with any overlap of the two ("based on if the SHIFT keys are being pressed"),
\* and no more of them are released than pressed (the panic of process_key_release).
ShiftFollowsKeys ==
    /\ bad # "released"
    /\ codes = << >> /\ bad = "none" => (shift > 0 <=> held \cap Shifts # {})
=============================================================================
