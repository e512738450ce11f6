--------------------------- MODULE KeyboardProofs ---------------------------
(***************************************************************************)
(* Proofs about the keyboard driver, for every set of keys and any number  *)
(* of waiting codes and typed characters: what is printed is what was      *)
(* typed, if no SHIFT key repeats and no extended key has the code of one. *)
(***************************************************************************)
EXTENDS Keyboard, TLAPS

PlainShifts ==
    /\ Repeating \cap Shifts = {}
    /\ \A k \in Keys : Code(k) \in Shifts => k \in Shifts

\* What the code c prints while the SHIFT keys h are held.
Printed(c, h) ==
    LET m == IF h # {} THEN SHIFT ELSE NORMAL IN
    IF c < 128 /\ c \notin Shifts /\ c \in DOMAIN keymap[m] THEN << keymap[m][c] >> ELSE << >>

\* The code c changes the SHIFT keys that are held from h to g.
Shifted(c, h, g) ==
    \/ c \in Shifts /\ c \notin h /\ g = h \cup {c}
    \/ c - 128 \in Shifts /\ c - 128 \in h /\ g = h \ {c - 128}
    \/ c \notin Shifts /\ c - 128 \notin Shifts /\ g = h

Starts(s, t) == Len(s) <= Len(t) /\ \A i \in 1 .. Len(s) : s[i] = t[i]

Count(h) == (IF 42 \in h THEN 1 ELSE 0) + (IF 54 \in h THEN 1 ELSE 0)

\* The codes cs are what is between the state of the driver and that of the keys:
\* the SHIFT keys held at each of them lead from the ones the driver counts to H, and
\* the characters before each of them from the ones it has printed to T.
Between(n, s, cs, H, T) ==
    \E h \in [1 .. Len(cs) + 1 -> SUBSET Shifts], t \in [1 .. Len(cs) + 1 -> Seq(Characters)] :
        /\ n = Count(h[1]) /\ s = t[1]
        /\ H = h[Len(cs) + 1] /\ T = t[Len(cs) + 1]
        /\ \A i \in 1 .. Len(cs) :
              Shifted(cs[i], h[i], h[i + 1]) /\ t[i + 1] = t[i] \o Printed(cs[i], h[i])
        /\ \A i, j \in 1 .. Len(cs) + 1 : i <= j => Starts(t[i], t[j])

KInv ==
    /\ codes \in Seq(Int)
    /\ bad # "released"
    /\ Between(shift, typed, codes, held \cap Shifts, intended)

-----------------------------------------------------------------------------
\* A character that is printed is one of the maps'.
LEMMA PrintedType ==
  ASSUME NEW c, NEW h PROVE Printed(c, h) \in Seq(Characters)
<1>. DEFINE m == IF h # {} THEN SHIFT ELSE NORMAL
<1>1. m \in {NORMAL, SHIFT}
  OBVIOUS
<1>2. ASSUME c \in DOMAIN keymap[m] PROVE << keymap[m][c] >> \in Seq(Characters)
  <2>1. keymap[m][c] \in Characters
    BY <1>1, <1>2, Zenon DEF Characters
  <2>2. QED
    BY <2>1
<1>3. QED
  BY <1>2 DEF Printed

LEMMA StartsConcat ==
  ASSUME NEW r \in Seq(Characters), NEW s \in Seq(Characters), NEW t \in Seq(Characters),
         Starts(r, s)
  PROVE  Starts(r, s \o t)
  BY DEF Starts

\* One more code behind those that wait.
LEMMA OneMore ==
  ASSUME NEW n, NEW s, NEW cs \in Seq(Int), NEW H, NEW T, Between(n, s, cs, H, T),
         NEW c \in Int, NEW G \in SUBSET Shifts, Shifted(c, H, G)
  PROVE  Between(n, s, Append(cs, c), G, T \o Printed(c, H))
<1>. DEFINE ds == Append(cs, c)
            m  == Len(cs) + 1
<1>1. PICK h \in [1 .. m -> SUBSET Shifts], t \in [1 .. m -> Seq(Characters)] :
        /\ n = Count(h[1]) /\ s = t[1]
        /\ H = h[m] /\ T = t[m]
        /\ \A i \in 1 .. Len(cs) :
              Shifted(cs[i], h[i], h[i + 1]) /\ t[i + 1] = t[i] \o Printed(cs[i], h[i])
        /\ \A i, j \in 1 .. m : i <= j => Starts(t[i], t[j])
  BY DEF Between
<1>2. m \in Nat \ {0} /\ Len(ds) = m /\ ds[m] = c /\ (\A i \in 1 .. Len(cs) : ds[i] = cs[i])
  OBVIOUS
<1>. DEFINE U == T \o Printed(c, H)
            g == [i \in 1 .. m + 1 |-> IF i = m + 1 THEN G ELSE h[i]]
            u == [i \in 1 .. m + 1 |-> IF i = m + 1 THEN U ELSE t[i]]
<1>3. Printed(c, H) \in Seq(Characters) /\ T \in Seq(Characters)
  BY <1>1, <1>2, PrintedType
<1>4. U \in Seq(Characters)
  BY <1>3
<1>5. g \in [1 .. m + 1 -> SUBSET Shifts] /\ u \in [1 .. m + 1 -> Seq(Characters)]
  BY <1>2, <1>4
<1>6. /\ g[1] = h[1] /\ u[1] = t[1]
      /\ g[m + 1] = G /\ u[m + 1] = U
      /\ \A i \in 1 .. m : g[i] = h[i] /\ u[i] = t[i]
  BY <1>2
<1>7. ASSUME NEW i \in 1 .. m
      PROVE  Shifted(ds[i], g[i], g[i + 1]) /\ u[i + 1] = u[i] \o Printed(ds[i], g[i])
  <2>1. CASE i = m
    BY <1>1, <1>2, <1>6, <2>1
  <2>2. CASE i # m
    <3>1. i \in 1 .. Len(cs) /\ i + 1 \in 1 .. m
      BY <1>2, <2>2
    <3>2. QED
      BY <1>1, <1>2, <1>6, <3>1
  <2>3. QED
    BY <2>1, <2>2
<1>8. ASSUME NEW i \in 1 .. m + 1, NEW j \in 1 .. m + 1, i <= j
      PROVE  Starts(u[i], u[j])
  <2>1. CASE j # m + 1
    <3>1. i \in 1 .. m /\ j \in 1 .. m
      BY <1>2, <1>8, <2>1
    <3>2. QED
      BY <1>1, <1>6, <1>8, <3>1
  <2>2. CASE j = m + 1 /\ i # m + 1
    <3>1. i \in 1 .. m /\ m \in 1 .. m /\ i <= m
      BY <1>2, <2>2
    <3>2. Starts(t[i], T) /\ t[i] \in Seq(Characters)
      BY <1>1, <3>1
    <3>3. QED
      BY <1>3, <1>6, <2>2, <3>1, <3>2, StartsConcat
  <2>3. CASE j = m + 1 /\ i = m + 1
    BY <1>4, <1>6, <2>3 DEF Starts
  <2>4. QED
    BY <2>1, <2>2, <2>3
<1>9. n = Count(g[1]) /\ s = u[1]
  BY <1>1, <1>6
<1>. HIDE DEF g, u, ds, U
<1>10. Between(n, s, ds, G, U)
  <2>1. /\ g \in [1 .. Len(ds) + 1 -> SUBSET Shifts]
        /\ u \in [1 .. Len(ds) + 1 -> Seq(Characters)]
        /\ G = g[Len(ds) + 1] /\ U = u[Len(ds) + 1]
    BY <1>2, <1>5, <1>6
  <2>2. \A i \in 1 .. Len(ds) :
            Shifted(ds[i], g[i], g[i + 1]) /\ u[i + 1] = u[i] \o Printed(ds[i], g[i])
    BY <1>2, <1>7
  <2>3. \A i, j \in 1 .. Len(ds) + 1 : i <= j => Starts(u[i], u[j])
    BY <1>2, <1>8
  <2>4. QED
    BY <1>9, <2>1, <2>2, <2>3, Zenon DEF Between
<1>11. QED
  BY <1>10 DEF ds, U

\* The prefix E0 is the release of no key.
LEMMA OnePrefix ==
  ASSUME NEW n, NEW s, NEW cs \in Seq(Int), NEW H \in SUBSET Shifts, NEW T \in Seq(Characters), Between(n, s, cs, H, T)
  PROVE  Between(n, s, Append(cs, 224), H, T)
<1>1. Shifted(224, H, H) /\ Printed(224, H) = << >>
  BY DEF Shifted, Printed, Shifts
<1>2. T \o << >> = T
  OBVIOUS
<1>3. Between(n, s, Append(cs, 224), H, T \o Printed(224, H))
  BY <1>1, OneMore
<1>4. QED
  BY <1>1, <1>2, <1>3

\* What a key puts behind the codes that wait, without and with a prefix.
LEMMA KeySent ==
  ASSUME NEW n, NEW s, NEW cs \in Seq(Int), NEW k \in Keys,
         NEW H \in SUBSET Shifts, NEW T \in Seq(Characters), Between(n, s, cs, H, T),
         NEW c \in Int, NEW G \in SUBSET Shifts, Shifted(c, H, G)
  PROVE  /\ cs \o Append(Prefix(k), c) \in Seq(Int)
         /\ Between(n, s, cs \o Append(Prefix(k), c), G, T \o Printed(c, H))
<1>1. CASE k >= 256
  <2>1. cs \o Append(Prefix(k), c) = Append(Append(cs, 224), c)
    BY <1>1 DEF Prefix
  <2>2. Append(cs, 224) \in Seq(Int) /\ Between(n, s, Append(cs, 224), H, T)
    BY OnePrefix
  <2>3. Between(n, s, Append(Append(cs, 224), c), G, T \o Printed(c, H))
    BY <2>2, OneMore
  <2>4. Append(Append(cs, 224), c) \in Seq(Int)
    OBVIOUS
  <2>5. QED
    BY <2>1, <2>3, <2>4
<1>2. CASE ~(k >= 256)
  <2>1. cs \o Append(Prefix(k), c) = Append(cs, c)
    BY <1>2 DEF Prefix
  <2>2. QED
    BY <2>1, OneMore
<1>3. QED
  BY <1>1, <1>2

-----------------------------------------------------------------------------
(***************************************************************************)
(* The steps of the keyboard and of the driver.                            *)
(***************************************************************************)

\* The codes of a key are below 128, those of its release are from 128 on.
LEMMA CodeType ==
  ASSUME NEW k \in Keys
  PROVE  /\ k \in Int /\ Code(k) \in 0 .. 88
         /\ k \in Shifts => Code(k) = k
<1>1. k \in 1 .. 88 \cup 256 .. 344
  BY KeysAssumption
<1>2. CASE k \in 1 .. 88
  BY <1>2 DEF Code
<1>3. CASE k \in 256 .. 344
  BY <1>3 DEF Code, Shifts
<1>4. QED
  BY <1>1, <1>2, <1>3

\* What a key stands for is what its code prints.
LEMMA LegendPrinted ==
  ASSUME PlainShifts, NEW k \in Keys, NEW h
  PROVE  Legend(k, h) = Printed(Code(k), h \cap Shifts)
<1>1. Code(k) < 128
  BY CodeType
<1>2. k \in Shifts <=> Code(k) \in Shifts
  BY CodeType DEF PlainShifts
<1>3. QED
  BY <1>1, <1>2 DEF Legend, Printed

LEMMA BetweenTypes ==
  ASSUME KInv
  PROVE  typed \in Seq(Characters) /\ intended \in Seq(Characters) /\ Len(codes) \in Nat
<1>1. Len(codes) \in Nat
  BY DEF KInv
<1>2. 1 \in 1 .. Len(codes) + 1 /\ Len(codes) + 1 \in 1 .. Len(codes) + 1
  BY <1>1
<1>3. QED
  BY <1>1, <1>2 DEF KInv, Between

LEMMA PressStep ==
  ASSUME PlainShifts, KInv, NEW k \in Keys, Press(k) \/ Repeat(k)
  PROVE  KInv'
<1>. DEFINE H == held \cap Shifts
            G == held' \cap Shifts
            c == Code(k)
<1>1. /\ codes' = codes \o Append(Prefix(k), c)
      /\ intended' = intended \o Legend(k, held)
      /\ UNCHANGED <<shift, typed, bad>>
  BY DEF Press, Repeat, Hit, Sends, Make, driver
<1>2. Legend(k, held) = Printed(c, H)
  BY LegendPrinted
<1>3. c \in Int /\ c - 128 \notin Shifts
  BY CodeType DEF Shifts
<1>4. Shifted(c, H, G)
  <2>1. CASE k \in Shifts
    <3>1. Press(k) /\ c = k
      BY <2>1, CodeType DEF Repeat, PlainShifts
    <3>2. k \notin held /\ held' = held \cup {k}
      BY <3>1 DEF Press
    <3>3. QED
      BY <2>1, <3>1, <3>2 DEF Shifted
  <2>2. CASE k \notin Shifts
    <3>1. c \notin Shifts
      BY <2>2 DEF PlainShifts
    <3>2. held' = held \/ held' = held \cup {k}
      BY DEF Press, Repeat
    <3>3. QED
      BY <1>3, <2>2, <3>1, <3>2 DEF Shifted
  <2>3. QED
    BY <2>1, <2>2
<1>. HIDE DEF c, H, G
<1>5. H \in SUBSET Shifts /\ G \in SUBSET Shifts
  BY DEF H, G
<1>6. Between(shift, typed, codes, H, intended) /\ codes \in Seq(Int)
  BY DEF KInv, H
<1>7. codes' \in Seq(Int) /\ Between(shift, typed, codes', G, intended \o Printed(c, H))
  BY <1>1, <1>3, <1>4, <1>5, <1>6, BetweenTypes, KeySent
<1>8. codes' \in Seq(Int) /\ Between(shift', typed', codes', held' \cap Shifts, intended')
  BY <1>1, <1>2, <1>7 DEF G
<1>9. bad' # "released"
  BY <1>1 DEF KInv
<1>10. QED
  BY <1>8, <1>9 DEF KInv

LEMMA ReleaseStep ==
  ASSUME PlainShifts, KInv, NEW k \in Keys, Release(k)
  PROVE  KInv'
<1>. DEFINE H == held \cap Shifts
            G == held' \cap Shifts
            c == Code(k) + 128
<1>1. /\ codes' = codes \o Append(Prefix(k), c)
      /\ k \in held /\ held' = held \ {k}
      /\ UNCHANGED <<intended, shift, typed, bad>>
  BY DEF Release, Sends, Break, driver
<1>2. c \in Int /\ c >= 128 /\ c - 128 = Code(k) /\ c \notin Shifts
  BY CodeType DEF Shifts
<1>3. Printed(c, H) = << >>
  BY <1>2 DEF Printed
<1>4. Shifted(c, H, G)
  <2>1. CASE k \in Shifts
    BY <1>1, <1>2, <2>1, CodeType DEF Shifted
  <2>2. CASE k \notin Shifts
    <3>1. Code(k) \notin Shifts
      BY <2>2 DEF PlainShifts
    <3>2. QED
      BY <1>1, <1>2, <2>2, <3>1 DEF Shifted
  <2>3. QED
    BY <2>1, <2>2
<1>. HIDE DEF c, H, G
<1>5. H \in SUBSET Shifts /\ G \in SUBSET Shifts
  BY DEF H, G
<1>6. Between(shift, typed, codes, H, intended) /\ codes \in Seq(Int)
  BY DEF KInv, H
<1>7. codes' \in Seq(Int) /\ Between(shift, typed, codes', G, intended \o Printed(c, H))
  BY <1>1, <1>2, <1>4, <1>5, <1>6, BetweenTypes, KeySent
<1>8. intended \o Printed(c, H) = intended
  BY <1>3, BetweenTypes
<1>9. codes' \in Seq(Int) /\ Between(shift', typed', codes', held' \cap Shifts, intended')
  BY <1>1, <1>7, <1>8 DEF G
<1>10. bad' # "released"
  BY <1>1 DEF KInv
<1>11. QED
  BY <1>9, <1>10 DEF KInv

\* Sets of SHIFT keys and their numbers.
LEMMA CountFacts ==
  ASSUME NEW h \in SUBSET Shifts
  PROVE  /\ Count(h) \in 0 .. 2
         /\ Count(h) > 0 <=> h # {}
         /\ \A k \in Shifts : k \notin h => Count(h \cup {k}) = Count(h) + 1
         /\ \A k \in Shifts : k \in h => Count(h \ {k}) = Count(h) - 1 /\ Count(h) >= 1
<1>1. Shifts = {42, 54}
  BY DEF Shifts
<1>2. Count(h) \in 0 .. 2 /\ (Count(h) > 0 <=> h # {})
  <2>1. h # {} <=> 42 \in h \/ 54 \in h
    BY <1>1
  <2>2. Count(h) \in 0 .. 2 /\ (Count(h) > 0 <=> 42 \in h \/ 54 \in h)
    BY DEF Count
  <2>3. QED
    BY <2>1, <2>2
<1>3. ASSUME NEW k \in Shifts, k \notin h PROVE Count(h \cup {k}) = Count(h) + 1
  <2>1. CASE k = 42
    BY <1>3, <2>1 DEF Count
  <2>2. CASE k = 54
    BY <1>3, <2>2 DEF Count
  <2>3. QED
    BY <1>1, <2>1, <2>2
<1>4. ASSUME NEW k \in Shifts, k \in h
      PROVE  Count(h \ {k}) = Count(h) - 1 /\ Count(h) >= 1
  <2>1. CASE k = 42
    BY <1>4, <2>1 DEF Count
  <2>2. CASE k = 54
    BY <1>4, <2>2 DEF Count
  <2>3. QED
    BY <1>1, <2>1, <2>2
<1>5. QED
  BY <1>2, <1>3, <1>4

\* The driver does with a code what the keyboard meant by it.
LEMMA ReadStep == ASSUME KInv, ReadCode PROVE KInv'
<1>. DEFINE c == Head(codes)
            L == Len(codes)
<1>1. /\ codes # << >> /\ codes' = Tail(codes)
      /\ IF c >= 128 THEN process_key_release(c) ELSE process_key_press(c)
      /\ UNCHANGED <<held, intended>> /\ bad = "none"
  BY DEF ReadCode, keyboard
<1>2. /\ codes \in Seq(Int) /\ L \in Nat \ {0} /\ c \in Int /\ c = codes[1]
      /\ codes' \in Seq(Int) /\ Len(codes') = L - 1
      /\ \A i \in 1 .. L - 1 : codes'[i] = codes[i + 1]
  BY <1>1 DEF KInv
<1>3. PICK h \in [1 .. L + 1 -> SUBSET Shifts], t \in [1 .. L + 1 -> Seq(Characters)] :
        /\ shift = Count(h[1]) /\ typed = t[1]
        /\ held \cap Shifts = h[L + 1] /\ intended = t[L + 1]
        /\ \A i \in 1 .. L :
              Shifted(codes[i], h[i], h[i + 1]) /\ t[i + 1] = t[i] \o Printed(codes[i], h[i])
        /\ \A i, j \in 1 .. L + 1 : i <= j => Starts(t[i], t[j])
  BY DEF KInv, Between
<1>. HIDE DEF c, L
<1>4. /\ Shifted(c, h[1], h[2]) /\ t[2] = typed \o Printed(c, h[1])
      /\ h[1] \in SUBSET Shifts /\ typed \in Seq(Characters) /\ shift = Count(h[1])
  <2>1. 1 \in 1 .. L /\ 1 \in 1 .. L + 1 /\ 1 + 1 = 2
    BY <1>2
  <2>2. Shifted(codes[1], h[1], h[1 + 1]) /\ t[1 + 1] = t[1] \o Printed(codes[1], h[1])
    BY <1>3, <2>1
  <2>3. h[1] \in SUBSET Shifts /\ t[1] \in Seq(Characters)
    BY <1>3, <2>1
  <2>4. QED
    BY <1>2, <1>3, <2>1, <2>2, <2>3
<1>5. shift' = Count(h[2]) /\ typed' = t[2] /\ bad' # "released"
  <2>1. CASE c >= 128
    <3>1. process_key_release(c) /\ c \notin Shifts /\ Printed(c, h[1]) = << >>
      BY <1>1, <1>2, <2>1 DEF Shifts, Printed
    <3>2. typed' = t[2]
      BY <1>4, <3>1 DEF process_key_release
    <3>3. CASE c - 128 \in Shifts
      <4>1. c - 128 \in h[1] /\ h[2] = h[1] \ {c - 128}
        BY <1>4, <3>1, <3>3 DEF Shifted
      <4>2. Count(h[2]) = Count(h[1]) - 1 /\ Count(h[1]) >= 1
        BY <1>4, <3>3, <4>1, CountFacts
      <4>3. shift' = Count(h[2]) /\ shift' >= 0
        BY <1>4, <3>1, <3>3, <4>2, CountFacts DEF process_key_release
      <4>4. QED
        BY <1>1, <3>1, <3>2, <4>3 DEF process_key_release
    <3>4. CASE c - 128 \notin Shifts
      <4>1. h[2] = h[1]
        BY <1>4, <3>1, <3>4 DEF Shifted
      <4>2. shift' = Count(h[2]) /\ shift' >= 0
        BY <1>4, <3>1, <3>4, <4>1, CountFacts DEF process_key_release
      <4>3. QED
        BY <1>1, <3>1, <3>2, <4>2 DEF process_key_release
    <3>5. QED
      BY <3>3, <3>4
  <2>2. CASE ~(c >= 128)
    <3>1. process_key_press(c) /\ c < 128 /\ c - 128 \notin Shifts
      BY <1>1, <1>2, <2>2 DEF Shifts
    <3>2. CASE c \in Shifts
      <4>1. c \notin h[1] /\ h[2] = h[1] \cup {c} /\ Printed(c, h[1]) = << >>
        BY <1>4, <3>1, <3>2 DEF Shifted, Printed
      <4>2. Count(h[2]) = Count(h[1]) + 1
        BY <1>4, <3>2, <4>1, CountFacts
      <4>3. QED
        BY <1>1, <1>4, <3>1, <3>2, <4>1, <4>2 DEF process_key_press
    <3>3. CASE c \notin Shifts
      <4>1. h[2] = h[1]
        BY <1>4, <3>1, <3>3 DEF Shifted
      <4>2. modifier = IF h[1] # {} THEN SHIFT ELSE NORMAL
        BY <1>4, CountFacts DEF modifier
      <4>3. CASE c \in DOMAIN keymap[modifier]
        <5>1. /\ shift' = shift /\ bad' = bad
              /\ typed' = Append(typed, keymap[modifier][c])
          BY <3>1, <3>3, <4>3 DEF process_key_press
        <5>2. Printed(c, h[1]) = << keymap[modifier][c] >>
          BY <3>1, <3>3, <4>2, <4>3 DEF Printed
        <5>3. QED
          BY <1>1, <1>4, <4>1, <5>1, <5>2
      <4>4. CASE c \notin DOMAIN keymap[modifier]
        <5>1. shift' = shift /\ bad' = "unmapped" /\ typed' = typed
          BY <3>1, <3>3, <4>4 DEF process_key_press
        <5>2. Printed(c, h[1]) = << >>
          BY <3>1, <3>3, <4>2, <4>4 DEF Printed
        <5>3. QED
          BY <1>4, <4>1, <5>1, <5>2
      <4>5. QED
        BY <4>3, <4>4
    <3>4. QED
      BY <3>2, <3>3
  <2>3. QED
    BY <2>1, <2>2
<1>. DEFINE g == [i \in 1 .. L |-> h[i + 1]]
            u == [i \in 1 .. L |-> t[i + 1]]
<1>6. /\ g \in [1 .. L -> SUBSET Shifts] /\ u \in [1 .. L -> Seq(Characters)]
      /\ g[1] = h[2] /\ u[1] = t[2] /\ g[L] = h[L + 1] /\ u[L] = t[L + 1]
      /\ \A i \in 1 .. L : g[i] = h[i + 1] /\ u[i] = t[i + 1]
  BY <1>2
<1>7. ASSUME NEW i \in 1 .. L - 1
      PROVE  Shifted(codes'[i], g[i], g[i + 1]) /\ u[i + 1] = u[i] \o Printed(codes'[i], g[i])
  <2>1. i \in 1 .. L /\ i + 1 \in 1 .. L /\ codes'[i] = codes[i + 1]
    BY <1>2
  <2>2. QED
    BY <1>3, <1>6, <2>1
<1>8. ASSUME NEW i \in 1 .. L, NEW j \in 1 .. L, i <= j PROVE Starts(u[i], u[j])
  <2>1. i + 1 \in 1 .. L + 1 /\ j + 1 \in 1 .. L + 1 /\ i + 1 <= j + 1
    BY <1>2, <1>8
  <2>2. QED
    BY <1>3, <1>6, <2>1
<1>. HIDE DEF g, u
<1>9. Between(shift', typed', codes', held' \cap Shifts, intended')
  <2>1. L = Len(codes') + 1
    BY <1>2
  <2>2. /\ g \in [1 .. Len(codes') + 1 -> SUBSET Shifts]
        /\ u \in [1 .. Len(codes') + 1 -> Seq(Characters)]
        /\ held' \cap Shifts = g[Len(codes') + 1] /\ intended' = u[Len(codes') + 1]
        /\ shift' = Count(g[1]) /\ typed' = u[1]
    BY <1>1, <1>3, <1>5, <1>6, <2>1
  <2>3. \A i \in 1 .. Len(codes') :
            Shifted(codes'[i], g[i], g[i + 1]) /\ u[i + 1] = u[i] \o Printed(codes'[i], g[i])
    BY <1>2, <1>7
  <2>4. \A i, j \in 1 .. Len(codes') + 1 : i <= j => Starts(u[i], u[j])
    BY <1>8, <2>1
  <2>5. QED
    BY <2>2, <2>3, <2>4, Zenon DEF Between
<1>10. QED
  BY <1>2, <1>5, <1>9 DEF KInv

LEMMA InitKInv == KInit => KInv
<1>. SUFFICES ASSUME KInit PROVE KInv
  OBVIOUS
<1>1. shift = 0 /\ typed = << >> /\ codes = << >> /\ intended = << >> /\ held = {} /\ bad = "none"
  BY DEF KInit
<1>. DEFINE h == [i \in 1 .. 1 |-> {}]
            t == [i \in 1 .. 1 |-> << >>]
<1>2. /\ h \in [1 .. Len(codes) + 1 -> SUBSET Shifts]
      /\ t \in [1 .. Len(codes) + 1 -> Seq(Characters)]
      /\ Len(codes) = 0 /\ h[1] = {} /\ t[1] = << >>
  BY <1>1
<1>3. Count(h[1]) = 0 /\ Starts(t[1], t[1])
  BY <1>2 DEF Count, Starts
<1>. HIDE DEF h, t
<1>4. Between(shift, typed, codes, held \cap Shifts, intended)
  <2>1. /\ shift = Count(h[1]) /\ typed = t[1]
        /\ held \cap Shifts = h[Len(codes) + 1] /\ intended = t[Len(codes) + 1]
    BY <1>1, <1>2, <1>3
  <2>2. \A i \in 1 .. Len(codes) :
            Shifted(codes[i], h[i], h[i + 1]) /\ t[i + 1] = t[i] \o Printed(codes[i], h[i])
    BY <1>2
  <2>3. \A i, j \in 1 .. Len(codes) + 1 : i <= j => Starts(t[i], t[j])
    BY <1>2, <1>3
  <2>4. QED
    BY <1>2, <2>1, <2>2, <2>3, Zenon DEF Between
<1>5. QED
  BY <1>1, <1>4 DEF KInv

LEMMA KStep == ASSUME PlainShifts, KInv, [KNext]_kvars PROVE KInv'
<1>1. CASE Typist
  BY <1>1, PressStep, ReleaseStep DEF Typist
<1>2. CASE ReadCode
  BY <1>2, ReadStep
<1>3. CASE Rest \/ UNCHANGED kvars
  BY <1>3 DEF Rest, kvars, keyboard, driver, KInv
<1>4. QED
  BY <1>1, <1>2, <1>3 DEF KNext

LEMMA KInvTyped == KInv => TypedAsHeld
<1>. SUFFICES ASSUME KInv PROVE TypedAsHeld
  OBVIOUS
<1>1. typed \in Seq(Characters) /\ intended \in Seq(Characters) /\ Len(codes) \in Nat
  BY BetweenTypes
<1>2. Starts(typed, intended)
  <2>1. 1 \in 1 .. Len(codes) + 1 /\ Len(codes) + 1 \in 1 .. Len(codes) + 1 /\ 1 <= Len(codes) + 1
    BY <1>1
  <2>2. QED
    BY <2>1 DEF KInv, Between
<1>3. IsPrefix(typed, intended)
  BY <1>1, <1>2 DEF Starts, IsPrefix
<1>4. ASSUME codes = << >> PROVE typed = intended
  BY <1>4 DEF KInv, Between
<1>5. QED
  BY <1>3, <1>4 DEF TypedAsHeld

LEMMA KInvShift == KInv => ShiftFollowsKeys
<1>. SUFFICES ASSUME KInv PROVE ShiftFollowsKeys
  OBVIOUS
<1>1. ASSUME codes = << >> PROVE shift > 0 <=> held \cap Shifts # {}
  <2>1. shift = Count(held \cap Shifts)
    <3>1. Len(codes) + 1 = 1
      BY <1>1
    <3>2. PICK h \in [1 .. Len(codes) + 1 -> SUBSET Shifts] :
             shift = Count(h[1]) /\ held \cap Shifts = h[Len(codes) + 1]
      BY Zenon DEF KInv, Between
    <3>3. QED
      BY <3>1, <3>2
  <2>2. QED
    BY <2>1, CountFacts
<1>2. QED
  BY <1>1 DEF KInv, ShiftFollowsKeys

\* The driver alone prints what was typed, and knows which SHIFT keys are held.
THEOREM DriverFollowsKeys ==
  ASSUME PlainShifts PROVE KSpec => [](TypedAsHeld /\ ShiftFollowsKeys)
<1>1. KInit => KInv
  BY InitKInv
<1>2. KInv /\ [KNext]_kvars => KInv'
  BY KStep
<1>3. KInv => TypedAsHeld /\ ShiftFollowsKeys
  BY KInvTyped, KInvShift
<1>4. QED
  BY <1>1, <1>2, <1>3, PTL DEF KSpec

-----------------------------------------------------------------------------
(***************************************************************************)
(* Types, which KInv does not need: all the codes are bytes, the queue     *)
(* stays within its bound and the counter is never below -1.               *)
(***************************************************************************)

\* Sequences of bytes or characters: those of one or none, and what Tail leaves.
LEMMA Elements ==
  ASSUME NEW S PROVE << >> \in Seq(S) /\ \A e \in S : << e >> \in Seq(S)
  OBVIOUS

LEMMA Rests ==
  ASSUME NEW S, NEW s \in Seq(S), s # << >>
  PROVE  /\ Head(s) \in S /\ Tail(s) \in Seq(S)
         /\ {Len(s), Len(Tail(s))} \subseteq Nat /\ Len(Tail(s)) <= Len(s)
  OBVIOUS

\* What the codes a key sends are.
LEMMA SentType ==
  ASSUME NEW k \in Keys
  PROVE  Make(k) \in Seq(0 .. 255) /\ Break(k) \in Seq(0 .. 255)
<1>1. Code(k) \in 0 .. 255 /\ Code(k) + 128 \in 0 .. 255
  BY CodeType
<1>2. Prefix(k) \in Seq(0 .. 255)
  <2>1. 224 \in 0 .. 255
    OBVIOUS
  <2>2. QED
    BY <2>1, Elements, Zenon DEF Prefix
<1>3. QED
  BY <1>1, <1>2 DEF Make, Break

\* They are sent only while there is room.
LEMMA SendsType ==
  ASSUME codes \in Seq(0 .. 255), NEW seq \in Seq(0 .. 255), Sends(seq)
  PROVE  codes' \in Seq(0 .. 255) /\ Len(codes') <= MaxCodes
  BY BoundAssumption DEF Sends

\* What a key stands for is a character of the maps.
LEMMA LegendType == ASSUME NEW k, NEW h PROVE Legend(k, h) \in Seq(Characters)
<1>. DEFINE m == IF h \cap Shifts # {} THEN SHIFT ELSE NORMAL
<1>1. ASSUME Code(k) \in DOMAIN keymap[m] PROVE keymap[m][Code(k)] \in Characters
  BY <1>1, Zenon DEF Characters
<1>2. QED
  BY <1>1, Elements, Zenon DEF Legend

\* Keys, pressed, repeated and released, and keyboard_handler keep the types.
LEMMA TypistTypes ==
  ASSUME KTypeOK, Typist PROVE KTypeOK'
<1>1. PICK k \in Keys : Press(k) \/ Repeat(k) \/ Release(k)
  BY DEF Typist
<1>2. ASSUME Hit(k)
      PROVE  /\ codes' \in Seq(0 .. 255) /\ Len(codes') <= MaxCodes
             /\ intended' \in Seq(Characters) /\ UNCHANGED driver
  <2>1. codes' \in Seq(0 .. 255) /\ Len(codes') <= MaxCodes
    BY <1>2, SentType, SendsType DEF Hit, KTypeOK
  <2>2. Legend(k, held) \in Seq(Characters)
    BY LegendType
  <2>3. intended' \in Seq(Characters)
    BY <1>2, <2>2 DEF Hit, KTypeOK
  <2>4. QED
    BY <1>2, <2>1, <2>3 DEF Hit
<1>3. CASE Press(k)
  BY <1>2, <1>3 DEF Press, KTypeOK, driver
<1>4. CASE Repeat(k)
  BY <1>2, <1>4 DEF Repeat, KTypeOK, driver
<1>5. CASE Release(k)
  <2>1. codes' \in Seq(0 .. 255) /\ Len(codes') <= MaxCodes
    BY <1>5, SentType, SendsType DEF Release, KTypeOK
  <2>2. QED
    BY <1>5, <2>1 DEF Release, KTypeOK, driver
<1>6. QED
  BY <1>1, <1>3, <1>4, <1>5

LEMMA ReadTypes ==
  ASSUME KTypeOK, ReadCode PROVE KTypeOK'
<1>. DEFINE c == Head(codes)
<1>0. /\ c \in 0 .. 255 /\ Tail(codes) \in Seq(0 .. 255)
      /\ {Len(codes), Len(Tail(codes))} \subseteq Nat /\ Len(Tail(codes)) <= Len(codes)
  BY Rests DEF KTypeOK, ReadCode
<1>1. shift \in Int /\ shift >= 0 /\ c \in 0 .. 255
  BY <1>0 DEF KTypeOK, ReadCode
<1>2. codes' \in Seq(0 .. 255) /\ Len(codes') <= MaxCodes
  BY <1>0, BoundAssumption DEF KTypeOK, ReadCode
<1>3. held' = held /\ last' = last /\ intended' = intended
  BY DEF ReadCode, keyboard
<1>4. CASE c >= 128
  BY <1>1, <1>2, <1>3, <1>4 DEF KTypeOK, ReadCode, process_key_release
<1>5. CASE ~(c >= 128)
  <2>1. process_key_press(c) /\ bad = "none"
    BY <1>5 DEF ReadCode
  <2>2. ASSUME c \in DOMAIN keymap[modifier] PROVE keymap[modifier][c] \in Characters
    BY <2>2, Zenon DEF Characters, modifier
  <2>3. typed' \in Seq(Characters)
    <3>1. typed \in Seq(Characters)
      BY DEF KTypeOK
    <3>2. QED
      BY <2>1, <2>2, <3>1 DEF process_key_press
  <2>4. shift' \in Int /\ shift' >= 0 /\ bad' \in {"none", "unmapped"}
    BY <1>1, <2>1 DEF process_key_press
  <2>5. QED
    BY <1>2, <1>3, <2>3, <2>4 DEF KTypeOK
<1>6. QED
  BY <1>4, <1>5

LEMMA KTypesInit == KInit => KTypeOK
  BY BoundAssumption DEF KInit, KTypeOK

LEMMA KTypesStep == ASSUME KTypeOK, [KNext]_kvars PROVE KTypeOK'
<1>1. CASE UNCHANGED kvars
  BY <1>1 DEF kvars, keyboard, driver, KTypeOK
<1>2. QED
  BY <1>1, TypistTypes, ReadTypes DEF KNext, Rest

\* Whatever keys there are, a hung driver included, the counter is below zero only
\* in the panic of process_key_release, and only characters of keymap are printed.
THEOREM KeyboardTypes == KSpec => []KTypeOK
  BY KTypesInit, KTypesStep, PTL DEF KSpec
=============================================================================
