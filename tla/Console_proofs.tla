--------------------------- MODULE Console_proofs ---------------------------
(***************************************************************************)
(* For every format and every number: printk prints what its format says,  *)
(* and the array its digits are collected in holds every int.  For every   *)
(* format string and all arguments: writef stays inside the string and its *)
(* buffer, numbers read back as what they were, and a line written in the  *)
(* grammar is printed piece by piece, each argument in the format asked    *)
(* for.                                                                    *)
(***************************************************************************)
EXTENDS Console, FiniteSetTheorems, WellFoundedInduction, TLAPS

-----------------------------------------------------------------------------
(***************************************************************************)
(* Recursive functions, by the least argument one would not have.          *)
(***************************************************************************)
LEMMA LeastElement ==
  ASSUME NEW T \in SUBSET Nat, T # {}
  PROVE  \E x \in T : \A y \in T : x <= y
<1>1. PICK x \in T : \A y \in T : ~ (<<y, x>> \in OpToRel(<, Nat))
  BY WFMin, NatLessThanWellFounded
<1>2. \A y \in T : ~ (y < x)
  BY <1>1 DEF OpToRel
<1> QED
  BY <1>2

Begun(f, m, b) == b = [k \in 1 .. m |-> f[k] = "%" /\ (k = 1 \/ ~b[k - 1])]

LEMMA BegunExists ==
  ASSUME NEW f, NEW n \in Nat
  PROVE  \E b : Begun(f, n, b)
<1> DEFINE T == {m \in Nat : ~\E b : Begun(f, m, b)}
<1> SUFFICES ASSUME T # {} PROVE FALSE
  OBVIOUS
<1>1. PICK m \in T : \A y \in T : m <= y
  BY LeastElement
<1>2. m # 0
  <2>1. Begun(f, 0, [k \in 1 .. 0 |-> TRUE])
    BY DEF Begun
  <2> QED
    BY <1>1, <2>1
<1>3. PICK b : Begun(f, m - 1, b)
  BY <1>1, <1>2
<1> DEFINE last == f[m] = "%" /\ (m = 1 \/ ~b[m - 1])
           c == [k \in 1 .. m |-> IF k = m THEN last ELSE b[k]]
<1>4. Begun(f, m, c)
  <2>1. \A k \in 1 .. m - 1 : b[k] = (f[k] = "%" /\ (k = 1 \/ ~b[k - 1]))
    BY <1>3 DEF Begun
  <2>2. \A k \in 1 .. m - 1 : c[k] = b[k] /\ k \in 1 .. m
    BY <1>1, <1>2
  <2>3. c[m] = last
    BY <1>1, <1>2
  <2>4. ASSUME NEW k \in 1 .. m
        PROVE  (IF k = m THEN last ELSE b[k]) = (f[k] = "%" /\ (k = 1 \/ ~c[k - 1]))
    <3>1. k = 1 \/ c[k - 1] = b[k - 1]
      BY <1>1, <2>2
    <3>2. CASE k = m
      BY <3>1, <3>2
    <3>3. CASE k # m
      BY <1>1, <2>1, <3>1, <3>3
    <3> QED
      BY <3>2, <3>3
  <2> HIDE DEF last
  <2> QED
    BY <2>4 DEF Begun
<1> QED
  BY <1>1, <1>4

\* A directive begins at a '%' that does not end one.
LEMMA BeginsStep ==
  ASSUME NEW S, NEW f \in Seq(S)
  PROVE  /\ P!Begins(f) \subseteq DOMAIN f
         /\ \A k \in DOMAIN f :
              k \in P!Begins(f) <=> f[k] = "%" /\ (k = 1 \/ k - 1 \notin P!Begins(f))
<1> DEFINE b == CHOOSE g : Begun(f, Len(f), g)
<1>1. DOMAIN f = 1 .. Len(f) /\ Len(f) \in Nat
  OBVIOUS
<1>2. P!Begins(f) = {k \in DOMAIN f : b[k]}
  BY <1>1 DEF P!Begins, Begun
<1>3. Begun(f, Len(f), b)
  BY <1>1, BegunExists
<1> HIDE DEF b
<1>4. \A k \in 1 .. Len(f) : b[k] = (f[k] = "%" /\ (k = 1 \/ ~b[k - 1]))
  BY <1>3 DEF Begun
<1>5. \A k \in 1 .. Len(f) : b[k] \in BOOLEAN /\ (k \in P!Begins(f) <=> b[k])
  BY <1>1, <1>2, <1>4
<1>6. ASSUME NEW k \in 1 .. Len(f)
      PROVE  k \in P!Begins(f) <=> f[k] = "%" /\ (k = 1 \/ k - 1 \notin P!Begins(f))
  <2>1. CASE k = 1
    BY <1>4, <1>5, <2>1
  <2>2. CASE k # 1
    <3>1. k - 1 \in 1 .. Len(f)
      BY <1>1, <2>2
    <3> QED
      BY <1>4, <1>5, <2>2, <3>1
  <2> QED
    BY <2>1, <2>2
<1>7. P!Begins(f) \subseteq DOMAIN f
  BY <1>2
<1> QED
  BY <1>1, <1>6, <1>7

Flattened(s, m, f) == f = [j \in 1 .. m |-> IF j = 1 THEN s[j] ELSE f[j - 1] \o s[j]]

LEMMA FlattenedExists ==
  ASSUME NEW s, NEW n \in Nat
  PROVE  \E f : Flattened(s, n, f)
<1> DEFINE T == {m \in Nat : ~\E f : Flattened(s, m, f)}
<1> SUFFICES ASSUME T # {} PROVE FALSE
  OBVIOUS
<1>1. PICK m \in T : \A y \in T : m <= y
  BY LeastElement
<1>2. m # 0
  <2>1. Flattened(s, 0, [j \in 1 .. 0 |-> <<>>])
    BY DEF Flattened
  <2> QED
    BY <1>1, <2>1
<1>3. PICK f : Flattened(s, m - 1, f)
  BY <1>1, <1>2
<1> DEFINE last == IF m = 1 THEN s[m] ELSE f[m - 1] \o s[m]
           g == [j \in 1 .. m |-> IF j = m THEN last ELSE f[j]]
<1>4. Flattened(s, m, g)
  <2>1. \A j \in 1 .. m - 1 : f[j] = IF j = 1 THEN s[j] ELSE f[j - 1] \o s[j]
    BY <1>3 DEF Flattened
  <2>2. \A j \in 1 .. m - 1 : g[j] = f[j] /\ j \in 1 .. m
    BY <1>1, <1>2
  <2>3. ASSUME NEW j \in 1 .. m
        PROVE  (IF j = m THEN last ELSE f[j]) = IF j = 1 THEN s[j] ELSE g[j - 1] \o s[j]
    <3>1. j = 1 \/ g[j - 1] = f[j - 1]
      BY <1>1, <2>2
    <3>2. CASE j = m
      BY <3>1, <3>2
    <3>3. CASE j # m
      BY <1>1, <2>1, <3>1, <3>3
    <3> QED
      BY <3>2, <3>3
  <2> HIDE DEF last
  <2> QED
    BY <2>3 DEF Flattened
<1> QED
  BY <1>1, <1>4

\* What the first m of some sequences are together.
Flat(s, m) == IF m = 0 THEN <<>> ELSE (CHOOSE f : Flattened(s, Len(s), f))[m]

LEMMA FlatStep ==
  ASSUME NEW S, NEW s \in Seq(Seq(S))
  PROVE  /\ Flat(s, 0) = <<>>
         /\ \A m \in 1 .. Len(s) : Flat(s, m) = Flat(s, m - 1) \o s[m]
         /\ P!FlattenSeq(s) = Flat(s, Len(s))
<1> DEFINE f == CHOOSE g : Flattened(s, Len(s), g)
<1>1. DOMAIN s = 1 .. Len(s) /\ Len(s) \in Nat /\ \A m \in 1 .. Len(s) : s[m] \in Seq(S)
  OBVIOUS
<1>2. Flattened(s, Len(s), f)
  BY <1>1, FlattenedExists
<1>3. Len(s) # 0 => P!FlattenSeq(s) = f[Len(s)]
  BY DEF P!FlattenSeq, Flattened
<1>4. Len(s) = 0 => P!FlattenSeq(s) = <<>>
  BY DEF P!FlattenSeq
<1>5. \A m \in Nat \ {0} : Flat(s, m) = f[m]
  BY DEF Flat
<1>6. Flat(s, 0) = <<>>
  BY DEF Flat
<1> HIDE DEF f
<1>7. \A m \in 1 .. Len(s) : f[m] = IF m = 1 THEN s[m] ELSE f[m - 1] \o s[m]
  BY <1>2 DEF Flattened
<1>8. ASSUME NEW m \in 1 .. Len(s) PROVE Flat(s, m) = Flat(s, m - 1) \o s[m]
  <2>1. CASE m = 1
    BY <1>1, <1>5, <1>6, <1>7, <2>1
  <2>2. CASE m # 1
    <3>1. m \in Nat \ {0} /\ m - 1 \in Nat \ {0}
      BY <1>1, <2>2
    <3>2. Flat(s, m) = f[m] /\ Flat(s, m - 1) = f[m - 1]
      BY <1>5, <3>1
    <3> QED
      BY <1>7, <2>2, <3>2
  <2> QED
    BY <2>1, <2>2
<1> QED
  BY <1>1, <1>3, <1>4, <1>5, <1>6, <1>8

-----------------------------------------------------------------------------
(***************************************************************************)
(* What has been printed when, and what the array holds.                   *)
(***************************************************************************)
\* What is printed, whatever the strings of the formats consist of.
Characters == STRING \cup {"0", "-", "%", "NUL", "string", "character", "pointer"}

Piece(k) ==
  IF k \in P!Begins(format) THEN <<>>
  ELSE IF k - 1 \notin P!Begins(format) THEN <<format[k]>>
  ELSE IF format[k] \in P!Numbers THEN P!Numeral(va_args[format[k]])
  ELSE P!Conversion(format[k])

Pieces == [k \in DOMAIN format |-> Piece(k)]

Inputs == format \in Formats /\ va_args \in [d : Ints, u : Unsigneds]

Plain(n) == IF n.decimal = <<>> THEN <<"0">> ELSE n.decimal

\* The number whose directive is at str, and its digits.
Given == va_args[P!At(str + 1)]
Figures == Plain(Given)

InNumber == stage \in {"digits", "reverse", "print"}

\* What is before the place of the walk is printed.  A place is never inside a
\* directive.
Walked ==
  stage = "walk" \/ InNumber =>
    /\ uart \in Seq(Characters)
    /\ str \in 1 .. Len(format) + 1
    /\ str - 1 \notin P!Begins(format)
    /\ uart = Flat(Pieces, str - 1)

AtNumber ==
  InNumber =>
    /\ str \in P!Begins(format) /\ P!At(str + 1) \in P!Numbers
    /\ d.neg = Given.neg

\* The digits that are collected are the last ones, backwards, and those left
\* are the others.
Collected ==
  stage = "digits" =>
    /\ d \in [neg : BOOLEAN, decimal : Seq(Characters)] /\ buffer \in Seq(Characters)
    /\ Len(buffer) <= Len(Figures)
    /\ \A j \in 1 .. Len(buffer) : buffer[j] = Figures[Len(Figures) + 1 - j]
    /\ Given.decimal = <<>> => d.decimal = <<>>
    /\ Given.decimal # <<>> =>
         /\ Len(d.decimal) = Len(Figures) - Len(buffer)
         /\ \A j \in 1 .. Len(d.decimal) : d.decimal[j] = Figures[j]

\* Those that have changed places are in order, from both ends.
Reversed ==
  stage = "reverse" =>
    /\ buffer \in Seq(Characters) /\ Len(buffer) = Len(Figures)
    /\ swapped \in 0 .. P!Turns
    /\ \A j \in 1 .. Len(buffer) :
         buffer[j] = IF j <= swapped \/ j > Len(buffer) - swapped
                     THEN Figures[j] ELSE Figures[Len(Figures) + 1 - j]

PrintInv ==
  /\ Inputs
  /\ Walked /\ AtNumber /\ Collected /\ Reversed
  /\ stage = "print" => buffer = Append(Figures, "NUL")
  /\ P!BufferHolds
  /\ stage = "returned" => uart = Flat(Pieces, Len(format))

LEMMA Literals ==
  /\ "0" \in Characters /\ "-" \in Characters /\ "%" \in Characters /\ "NUL" \in Characters
  /\ "string" \in Characters /\ "character" \in Characters /\ "pointer" \in Characters
BY DEF Characters

LEMMA WiderSeq ==
  ASSUME NEW S, NEW T, S \subseteq T, NEW s \in Seq(S)
  PROVE  s \in Seq(T)
<1>1. \A k \in 1 .. Len(s) : s[k] \in T
  OBVIOUS
<1> QED
  BY <1>1

LEMMA AnyString == \A s \in Seq(STRING) : s \in Seq(Characters)
<1>1. STRING \subseteq Characters
  BY DEF Characters
<1> QED
  BY <1>1, WiderSeq

LEMMA Strings ==
  ASSUME P!ArgumentsFit, Inputs
  PROVE  /\ format \in Seq(Characters) /\ \A k \in DOMAIN format : format[k] # "NUL"
         /\ Len(format) \notin P!Begins(format)
         /\ Len(format) \in Nat /\ DOMAIN format = 1 .. Len(format)
BY AnyString DEF P!ArgumentsFit, Inputs

LEMMA OneOrTwo ==
  ASSUME NEW S, NEW a \in S, NEW b \in S
  PROVE  /\ <<a>> \in Seq(S) /\ Len(<<a>>) = 1 /\ <<a>>[1] = a
         /\ <<a, b>> \in Seq(S)
OBVIOUS

LEMMA PlainOk ==
  ASSUME P!ArgumentsFit, Inputs, NEW c \in P!Numbers
  PROVE  /\ va_args[c] \in [neg : BOOLEAN, decimal : Seq(Characters)]
         /\ va_args[c].decimal \in Seq(Characters)
         /\ Plain(va_args[c]) \in Seq(Characters) /\ Len(Plain(va_args[c])) \in Nat \ {0}
         /\ c = "d" => Len(va_args[c].decimal) <= 10
         /\ P!Numeral(va_args[c])
              = (IF va_args[c].neg THEN <<"-">> ELSE <<>>) \o Plain(va_args[c])
         /\ P!Numeral(va_args[c]) \in Seq(Characters)
<1>1. va_args[c] \in Ints \cup Unsigneds /\ (c = "d" => va_args[c] \in Ints)
  BY DEF Inputs, P!Numbers
<1>2. /\ va_args[c] \in [neg : BOOLEAN, decimal : Seq(Characters)]
      /\ va_args[c].decimal \in Seq(Characters)
      /\ (c = "d" => Len(va_args[c].decimal) <= 10)
  BY <1>1, AnyString DEF P!ArgumentsFit
<1>3. <<"0">> \in Seq(Characters) /\ Len(<<"0">>) = 1
  BY Literals, OneOrTwo
<1>4. Plain(va_args[c]) \in Seq(Characters) /\ Len(Plain(va_args[c])) \in Nat \ {0}
  <2>1. CASE va_args[c].decimal = <<>>
    BY <1>3, <2>1 DEF Plain
  <2>2. CASE va_args[c].decimal # <<>>
    <3>1. Len(va_args[c].decimal) \in Nat \ {0}
      BY <1>2, <2>2
    <3> QED
      BY <1>2, <2>2, <3>1 DEF Plain
  <2> QED
    BY <2>1, <2>2
<1>5. P!Numeral(va_args[c]) = (IF va_args[c].neg THEN <<"-">> ELSE <<>>) \o Plain(va_args[c])
  BY DEF P!Numeral, Plain
<1>6. (IF va_args[c].neg THEN <<"-">> ELSE <<>>) \in Seq(Characters)
  <2>1. <<"-">> \in Seq(Characters) /\ <<>> \in Seq(Characters)
    BY Literals, OneOrTwo
  <2> QED
    BY <2>1
<1> QED
  BY <1>2, <1>4, <1>5, <1>6

LEMMA PiecesOk ==
  ASSUME P!ArgumentsFit, Inputs
  PROVE  /\ Pieces \in Seq(Seq(Characters)) /\ Len(Pieces) = Len(format)
         /\ \A k \in 1 .. Len(format) : Pieces[k] = Piece(k)
<1>1. \A c \in Characters : P!Conversion(c) \in Seq(Characters)
  <2> TAKE c \in Characters
  <2>1. /\ <<"string">> \in Seq(Characters) /\ <<"character">> \in Seq(Characters)
        /\ <<"pointer">> \in Seq(Characters) /\ <<"%">> \in Seq(Characters)
        /\ <<"%", c>> \in Seq(Characters)
    BY Literals, OneOrTwo
  <2> QED
    BY <2>1 DEF P!Conversion
<1>2. ASSUME NEW k \in DOMAIN format PROVE Piece(k) \in Seq(Characters)
  <2>1. format[k] \in Characters
    BY Strings
  <2>2. <<>> \in Seq(Characters) /\ <<format[k]>> \in Seq(Characters)
    BY <2>1, OneOrTwo
  <2>3. format[k] \in P!Numbers => P!Numeral(va_args[format[k]]) \in Seq(Characters)
    BY PlainOk
  <2> QED
    BY <1>1, <2>1, <2>2, <2>3 DEF Piece
<1> QED
  BY <1>2, Strings DEF Pieces

\* What is printed grows by one piece.
LEMMA PrintedStep ==
  ASSUME P!ArgumentsFit, Inputs
  PROVE  /\ Flat(Pieces, 0) = <<>>
         /\ \A k \in 1 .. Len(format) : Flat(Pieces, k) = Flat(Pieces, k - 1) \o Piece(k)
         /\ P!FlattenSeq(Pieces) = Flat(Pieces, Len(format))
BY PiecesOk, FlatStep

LEMMA AtPlace ==
  ASSUME P!ArgumentsFit, Inputs, NEW k \in 1 .. Len(format) + 2
  PROVE  /\ k <= Len(format) => P!At(k) = format[k] /\ P!At(k) # "NUL" /\ P!At(k) \in Characters
         /\ k > Len(format) => P!At(k) = "NUL"
BY Strings DEF P!At

\* A character outside directives is a piece of its own.
LEMMA PlainPiece ==
  ASSUME P!ArgumentsFit, Inputs, NEW k \in 1 .. Len(format),
         k - 1 \notin P!Begins(format), format[k] # "%"
  PROVE  k \notin P!Begins(format) /\ Piece(k) = <<format[k]>>
<1>1. k \notin P!Begins(format)
  BY Strings, BeginsStep
<1> QED
  BY <1>1 DEF Piece

\* A directive and its letter are both in the format, and print one piece.
LEMMA DirectivePiece ==
  ASSUME P!ArgumentsFit, Inputs, NEW k \in 1 .. Len(format) + 1,
         k - 1 \notin P!Begins(format), P!At(k) = "%"
  PROVE  /\ k \in P!Begins(format) /\ k < Len(format) /\ k + 1 \notin P!Begins(format)
         /\ P!At(k + 1) \in Characters
         /\ Flat(Pieces, k - 1) \in Seq(Characters) =>
              Flat(Pieces, k + 1) = Flat(Pieces, k - 1)
                 \o (IF P!At(k + 1) \in P!Numbers THEN P!Numeral(va_args[P!At(k + 1)])
                     ELSE P!Conversion(P!At(k + 1)))
<1>1. k <= Len(format) /\ format[k] = "%" /\ Len(format) \in Nat
  BY AtPlace, Strings
<1>2. k \in P!Begins(format)
  BY <1>1, Strings, BeginsStep
<1>3. k < Len(format)
  BY <1>1, <1>2, Strings
<1>4. k + 1 \notin P!Begins(format)
  <2>1. k + 1 \in DOMAIN format /\ k + 1 # 1 /\ (k + 1) - 1 = k
    BY <1>3, Strings
  <2> QED
    BY <1>2, <2>1, Strings, BeginsStep
<1>5. P!At(k + 1) = format[k + 1] /\ P!At(k + 1) \in Characters
  BY <1>3, AtPlace, Strings
<1>6. ASSUME Flat(Pieces, k - 1) \in Seq(Characters)
      PROVE  Flat(Pieces, k + 1) = Flat(Pieces, k - 1) \o Piece(k + 1)
  <2>1. Flat(Pieces, k) = Flat(Pieces, k - 1) \o <<>>
    <3>1. Piece(k) = <<>>
      BY <1>2 DEF Piece
    <3>2. k \in 1 .. Len(format)
      BY <1>1
    <3>3. Flat(Pieces, k) = Flat(Pieces, k - 1) \o Piece(k)
      BY <3>2, PrintedStep
    <3> QED
      BY <3>1, <3>3
  <2>2. Flat(Pieces, k) = Flat(Pieces, k - 1)
    BY <1>6, <2>1
  <2>3. k + 1 \in 1 .. Len(format) /\ (k + 1) - 1 = k
    BY <1>1, <1>3
  <2> QED
    BY <2>2, <2>3, PrintedStep
<1>7. Piece(k + 1) = IF P!At(k + 1) \in P!Numbers THEN P!Numeral(va_args[P!At(k + 1)])
                     ELSE P!Conversion(P!At(k + 1))
  <2>1. (k + 1) - 1 = k
    OBVIOUS
  <2> QED
    BY <1>2, <1>4, <1>5, <2>1 DEF Piece
<1> QED
  BY <1>2, <1>3, <1>4, <1>5, <1>6, <1>7

LEMMA ConversionOk == \A c \in Characters : P!Conversion(c) \in Seq(Characters)
<1> TAKE c \in Characters
<1>1. /\ <<"string">> \in Seq(Characters) /\ <<"character">> \in Seq(Characters)
      /\ <<"pointer">> \in Seq(Characters) /\ <<"%">> \in Seq(Characters)
      /\ <<"%", c>> \in Seq(Characters)
  BY Literals, OneOrTwo
<1> QED
  BY <1>1 DEF P!Conversion

LEMMA ConcatOk ==
  ASSUME NEW S, NEW a \in Seq(S), NEW b \in Seq(S), NEW c \in Seq(S)
  PROVE  a \o b \in Seq(S) /\ (a \o b) \o c = a \o (b \o c)
OBVIOUS

LEMMA SameInput ==
  ASSUME UNCHANGED P!input
  PROVE  /\ format' = format /\ va_args' = va_args
         /\ Inputs <=> Inputs'
         /\ Pieces' = Pieces
         /\ \A k : P!At(k)' = P!At(k)
BY DEF P!input, Inputs, Pieces, Piece, P!At

LEMMA SameNumber ==
  ASSUME UNCHANGED <<P!input, str>>
  PROVE  Given' = Given /\ Figures' = Figures /\ P!At(str + 1)' = P!At(str + 1)
BY DEF P!input, Given, Figures, P!At

-----------------------------------------------------------------------------
LEMMA InitInv ==
  ASSUME P!ArgumentsFit, P!Init
  PROVE  PrintInv
<1>1. Inputs
  BY DEF P!Init, Inputs
<1>2. Walked
  <2>1. 0 \notin P!Begins(format)
    BY <1>1, Strings, BeginsStep
  <2>2. uart = <<>> /\ str = 1 /\ <<>> \in Seq(Characters)
    BY DEF P!Init
  <2> QED
    BY <1>1, <2>1, <2>2, Strings, PrintedStep DEF Walked
<1>3. stage = "walk"
  BY DEF P!Init
<1> QED
  BY <1>1, <1>2, <1>3
  DEF PrintInv, AtNumber, InNumber, Collected, Reversed, P!BufferHolds

LEMMA PrintCharInv ==
  ASSUME P!ArgumentsFit, PrintInv, P!PrintChar
  PROVE  PrintInv'
<1> USE DEF PrintInv
<1>1. /\ UNCHANGED P!input /\ stage = "walk" /\ stage' = "walk"
      /\ str \in 1 .. Len(format) + 1 /\ str - 1 \notin P!Begins(format)
      /\ uart = Flat(Pieces, str - 1) /\ uart \in Seq(Characters)
      /\ str' = str + 1 /\ uart' = Append(uart, P!At(str))
  BY DEF P!PrintChar, Walked
<1>2. str <= Len(format) /\ format[str] # "%" /\ P!At(str) = format[str] /\ P!At(str) \in Characters
  BY <1>1, Strings, AtPlace DEF P!PrintChar
<1>3. str \notin P!Begins(format) /\ Piece(str) = <<P!At(str)>>
  BY <1>1, <1>2, Strings, PlainPiece
<1>4. uart' = Flat(Pieces, str) /\ uart' \in Seq(Characters)
  <2>1. Flat(Pieces, str) = uart \o <<P!At(str)>>
    <3>1. str \in 1 .. Len(format)
      BY <1>1, <1>2, Strings
    <3>2. Flat(Pieces, str) = Flat(Pieces, str - 1) \o Piece(str)
      BY <3>1, PrintedStep
    <3> QED
      BY <1>1, <1>3, <3>2
  <2> QED
    BY <1>1, <1>2, <2>1
<1>5. Walked'
  <2>1. str' \in 1 .. Len(format) + 1 /\ str' - 1 = str
    BY <1>1, <1>2, Strings
  <2> QED
    BY <1>1, <1>3, <1>4, <2>1, SameInput DEF Walked
<1> QED
  BY <1>1, <1>5, SameInput
  DEF AtNumber, InNumber, Collected, Reversed, P!BufferHolds

LEMMA PrintOtherInv ==
  ASSUME P!ArgumentsFit, PrintInv, P!PrintOther
  PROVE  PrintInv'
<1> USE DEF PrintInv
<1>1. /\ UNCHANGED P!input /\ stage = "walk" /\ stage' = "walk"
      /\ str \in 1 .. Len(format) + 1 /\ str - 1 \notin P!Begins(format)
      /\ uart = Flat(Pieces, str - 1) /\ uart \in Seq(Characters)
      /\ str' = str + 2 /\ uart' = uart \o P!Conversion(P!At(str + 1))
      /\ P!At(str) = "%" /\ P!At(str + 1) \notin P!Numbers
  BY DEF P!PrintOther, Walked, P!AfterDirective
<1>2. /\ str < Len(format) /\ str + 1 \notin P!Begins(format)
      /\ uart' = Flat(Pieces, str + 1) /\ uart' \in Seq(Characters)
  BY <1>1, DirectivePiece, ConversionOk, ConcatOk
<1>3. Walked'
  <2>1. str' \in 1 .. Len(format) + 1 /\ str' - 1 = str + 1
    BY <1>1, <1>2, Strings
  <2> QED
    BY <1>1, <1>2, <2>1, SameInput DEF Walked
<1> QED
  BY <1>1, <1>3, SameInput
  DEF AtNumber, InNumber, Collected, Reversed, P!BufferHolds

\* What every step inside a number keeps.
LEMMA KeepPlace ==
  ASSUME Walked, AtNumber, InNumber, UNCHANGED <<P!input, str, uart>>, d'.neg = d.neg
  PROVE  Walked' /\ AtNumber'
BY SameInput, SameNumber DEF Walked, AtNumber, InNumber

LEMMA StartNumberInv ==
  ASSUME P!ArgumentsFit, PrintInv, P!StartNumber
  PROVE  PrintInv'
<1> USE DEF PrintInv
<1>1. /\ UNCHANGED P!input /\ UNCHANGED str /\ UNCHANGED uart
      /\ stage = "walk" /\ stage' = "digits"
      /\ str \in 1 .. Len(format) + 1 /\ str - 1 \notin P!Begins(format)
      /\ P!At(str) = "%" /\ P!At(str + 1) \in P!Numbers
      /\ d' = Given /\ buffer' = <<>>
  BY DEF P!StartNumber, Walked, Given
<1>2. str \in P!Begins(format)
  BY <1>1, DirectivePiece
<1>3. Walked' /\ AtNumber'
  BY <1>1, <1>2, SameInput, SameNumber DEF Walked, AtNumber, InNumber
<1>4. Collected'
  <2>1. /\ Given \in [neg : BOOLEAN, decimal : Seq(Characters)] /\ Given.decimal \in Seq(Characters)
        /\ Len(Figures) \in Nat \ {0}
    BY <1>1, PlainOk DEF Given, Figures
  <2>2. Given.decimal # <<>> => Given.decimal = Figures
    BY DEF Figures, Plain
  <2>3. buffer' \in Seq(Characters) /\ Len(buffer') = 0
    BY <1>1
  <2>4. Given' = Given /\ Figures' = Figures
    BY <1>1, SameNumber
  <2> QED
    BY <1>1, <2>1, <2>2, <2>3, <2>4 DEF Collected
<1> QED
  BY <1>1, <1>3, <1>4, SameInput DEF Reversed, P!BufferHolds

LEMMA FrontOk ==
  ASSUME NEW S, NEW s \in Seq(S), s # <<>>
  PROVE  /\ Len(s) \in Nat \ {0} /\ P!Last(s) = s[Len(s)] /\ P!Last(s) \in S
         /\ P!Front(s) \in Seq(S) /\ Len(P!Front(s)) = Len(s) - 1
         /\ \A j \in 1 .. Len(s) - 1 : P!Front(s)[j] = s[j]
<1>1. Len(s) \in Nat \ {0} /\ 1 .. Len(s) - 1 \subseteq 1 .. Len(s)
  OBVIOUS
<1>2. P!Last(s) = s[Len(s)] /\ P!Last(s) \in S
  BY <1>1 DEF P!Last
<1>3. P!Front(s) = [j \in 1 .. Len(s) - 1 |-> s[j]]
  BY <1>1 DEF P!Front
<1> DEFINE n == Len(s) - 1
<1>4. n \in Nat /\ P!Front(s) = [j \in 1 .. n |-> s[j]] /\ \A j \in 1 .. n : s[j] \in S
  BY <1>1, <1>3
<1> HIDE DEF n
<1>5. P!Front(s) \in Seq(S) /\ Len(P!Front(s)) = n /\ \A j \in 1 .. n : P!Front(s)[j] = s[j]
  BY <1>4
<1> QED
  BY <1>1, <1>2, <1>5 DEF n

LEMMA AppendOk ==
  ASSUME NEW S, NEW s \in Seq(S), NEW e \in S
  PROVE  /\ Append(s, e) \in Seq(S) /\ Len(Append(s, e)) = Len(s) + 1 /\ Len(s) \in Nat
         /\ Append(s, e)[Len(s) + 1] = e
         /\ \A j \in 1 .. Len(s) : Append(s, e)[j] = s[j]
         /\ P!Front(Append(s, e)) = s
BY DEF P!Front

\* What a number shows.
LEMMA ShownOk ==
  ASSUME P!ArgumentsFit, PrintInv, InNumber
  PROVE  /\ Given \in [neg : BOOLEAN, decimal : Seq(Characters)] /\ Given.decimal \in Seq(Characters)
         /\ Figures \in Seq(Characters) /\ Len(Figures) \in Nat \ {0}
         /\ Given.decimal # <<>> => Given.decimal = Figures
         /\ Given.decimal = <<>> => Figures = <<"0">> /\ Len(Figures) = 1 /\ Figures[1] = "0"
         /\ Len(Figures) > 11 => P!At(str + 1) = "u" /\ Len(va_args.u.decimal) > 11
         /\ P!Numeral(Given) = (IF Given.neg THEN <<"-">> ELSE <<>>) \o Figures
<1>1. P!At(str + 1) \in P!Numbers
  BY DEF PrintInv, AtNumber
<1>2. /\ Given \in [neg : BOOLEAN, decimal : Seq(Characters)] /\ Given.decimal \in Seq(Characters)
      /\ Figures \in Seq(Characters) /\ Len(Figures) \in Nat \ {0}
      /\ P!Numeral(Given) = (IF Given.neg THEN <<"-">> ELSE <<>>) \o Figures
      /\ P!At(str + 1) = "d" => Len(Given.decimal) <= 10
  BY <1>1, PlainOk DEF Given, Figures, PrintInv
<1>3. /\ Given.decimal # <<>> => Given.decimal = Figures
      /\ Given.decimal = <<>> => Figures = <<"0">> /\ Len(Figures) = 1 /\ Figures[1] = "0"
  BY DEF Figures, Plain
<1>4. ASSUME Len(Figures) > 11 PROVE P!At(str + 1) = "u" /\ Len(va_args.u.decimal) > 11
  <2>1. Given.decimal = Figures
    <3>1. CASE Given.decimal = <<>>
      <4>1. Len(Figures) = 1
        BY <1>3, <3>1
      <4> QED
        BY <1>4, <4>1
    <3>2. CASE Given.decimal # <<>>
      BY <1>3, <3>2
    <3> QED
      BY <3>1, <3>2
  <2>2. P!At(str + 1) = "u"
    BY <1>1, <1>2, <1>4, <2>1 DEF P!Numbers
  <2> QED
    BY <1>4, <2>1, <2>2 DEF Given
<1> QED
  BY <1>2, <1>3, <1>4

LEMMA PutDigitInv ==
  ASSUME P!ArgumentsFit, PrintInv, P!PutDigit
  PROVE  PrintInv'
<1> DEFINE rest == P!Front(d.decimal)
<1>1. /\ UNCHANGED P!input /\ UNCHANGED str /\ UNCHANGED uart /\ UNCHANGED <<P!input, str, uart>>
      /\ stage = "digits" /\ d.decimal # <<>>
      /\ buffer' = Append(buffer, P!Last(d.decimal))
      /\ stage' = IF Len(buffer) < 12 THEN "digits" ELSE "corrupted"
      /\ d' = [d EXCEPT !.decimal = rest]
  BY DEF P!PutDigit, P!Store, P!Rest, P!BufferSize, P!input
<1>2. InNumber /\ Inputs /\ Walked /\ AtNumber
  BY <1>1 DEF InNumber, PrintInv
<1>3. /\ d \in [neg : BOOLEAN, decimal : Seq(Characters)] /\ d.decimal \in Seq(Characters)
      /\ buffer \in Seq(Characters) /\ Given.decimal # <<>>
      /\ Len(d.decimal) = Len(Figures) - Len(buffer)
      /\ \A j \in 1 .. Len(buffer) : buffer[j] = Figures[Len(Figures) + 1 - j]
      /\ \A j \in 1 .. Len(d.decimal) : d.decimal[j] = Figures[j]
  BY <1>1 DEF PrintInv, Collected
<1>4. /\ Len(d.decimal) \in Nat \ {0} /\ P!Last(d.decimal) \in Characters
      /\ P!Last(d.decimal) = d.decimal[Len(d.decimal)]
      /\ rest \in Seq(Characters) /\ Len(rest) = Len(d.decimal) - 1
      /\ \A j \in 1 .. Len(d.decimal) - 1 : rest[j] = d.decimal[j]
  BY <1>1, <1>3, FrontOk
<1>5. /\ buffer' \in Seq(Characters) /\ Len(buffer') = Len(buffer) + 1 /\ Len(buffer) \in Nat
      /\ buffer'[Len(buffer) + 1] = P!Last(d.decimal)
      /\ \A j \in 1 .. Len(buffer) : buffer'[j] = buffer[j]
  BY <1>1, <1>3, <1>4, AppendOk
<1>6. /\ Len(Figures) \in Nat
      /\ Len(Figures) > 11 => P!At(str + 1) = "u" /\ Len(va_args.u.decimal) > 11
  BY <1>2, ShownOk
<1> HIDE DEF rest
<1>7. d' \in [neg : BOOLEAN, decimal : Seq(Characters)] /\ d'.neg = d.neg /\ d'.decimal = rest
  BY <1>1, <1>3, <1>4
<1>8. Given' = Given /\ Figures' = Figures /\ P!At(str + 1)' = P!At(str + 1) /\ va_args' = va_args
  BY <1>1, SameInput, SameNumber
<1>9. Collected'
  <2>1. Len(buffer') <= Len(Figures) /\ Len(rest) = Len(Figures) - Len(buffer')
    BY <1>3, <1>4, <1>5, <1>6
  <2>2. ASSUME NEW j \in 1 .. Len(rest) PROVE rest[j] = Figures[j]
    <3>1. j \in 1 .. Len(d.decimal) - 1 /\ j \in 1 .. Len(d.decimal)
      BY <1>4
    <3> QED
      BY <1>3, <1>4, <3>1
  <2>3. ASSUME NEW j \in 1 .. Len(buffer') PROVE buffer'[j] = Figures[Len(Figures) + 1 - j]
    <3>1. CASE j = Len(buffer) + 1
      BY <1>3, <1>4, <1>5, <1>6, <3>1
    <3>2. CASE j # Len(buffer) + 1
      <4>1. j \in 1 .. Len(buffer)
        BY <1>5, <3>2
      <4> QED
        BY <1>3, <1>5, <4>1
    <3> QED
      BY <3>1, <3>2
  <2> QED
    BY <1>3, <1>5, <1>7, <1>8, <2>1, <2>2, <2>3 DEF Collected
<1>10. Walked' /\ AtNumber'
  BY <1>1, <1>2, <1>7, KeepPlace
<1>11. P!BufferHolds'
  <2>1. stage' = "corrupted" => Len(Figures) > 11
    BY <1>1, <1>3, <1>4, <1>5, <1>6
  <2> QED
    BY <1>6, <1>8, <2>1 DEF P!BufferHolds
<1> QED
  BY <1>1, <1>2, <1>9, <1>10, <1>11, SameInput DEF PrintInv, Reversed

LEMMA PutZeroInv ==
  ASSUME P!ArgumentsFit, PrintInv, P!PutZero
  PROVE  PrintInv'
<1>1. /\ UNCHANGED P!input /\ UNCHANGED <<P!input, str, uart>> /\ d' = d /\ UNCHANGED <<P!input, str>>
      /\ stage = "digits" /\ d.decimal = <<>> /\ buffer = <<>>
      /\ buffer' = <<"0">> /\ stage' = "digits"
  BY DEF P!PutZero, P!Store, P!BufferSize, P!input
<1>2. InNumber /\ Inputs /\ Walked /\ AtNumber
  BY <1>1 DEF InNumber, PrintInv
<1>3. /\ d \in [neg : BOOLEAN, decimal : Seq(Characters)]
      /\ Given.decimal # <<>> => Len(d.decimal) = Len(Figures) - Len(buffer)
  BY <1>1 DEF PrintInv, Collected
<1>4. Given.decimal = <<>>
  BY <1>1, <1>2, <1>3, ShownOk
<1>5. Len(Figures) = 1 /\ Figures[1] = "0"
  BY <1>2, <1>4, ShownOk
<1>6. buffer' \in Seq(Characters) /\ Len(buffer') = 1 /\ buffer'[1] = "0"
  BY <1>1, Literals, OneOrTwo
<1>7. Collected'
  <2>1. Given' = Given /\ Figures' = Figures
    BY <1>1, SameNumber
  <2>2. ASSUME NEW j \in 1 .. Len(buffer') PROVE buffer'[j] = Figures[Len(Figures) + 1 - j]
    <3>1. j = 1
      BY <1>6
    <3> QED
      BY <1>5, <1>6, <3>1
  <2>3. /\ d' \in [neg : BOOLEAN, decimal : Seq(Characters)] /\ d'.decimal = <<>>
        /\ Given'.decimal = <<>> /\ Len(buffer') <= Len(Figures) /\ buffer' \in Seq(Characters)
    BY <1>1, <1>3, <1>4, <1>5, <1>6, <2>1
  <2> QED
    BY <2>1, <2>2, <2>3 DEF Collected
<1>8. Walked' /\ AtNumber'
  BY <1>1, <1>2, KeepPlace
<1> QED
  BY <1>1, <1>2, <1>7, <1>8, SameInput DEF PrintInv, Reversed, P!BufferHolds

LEMMA StartReverseInv ==
  ASSUME P!ArgumentsFit, PrintInv, P!StartReverse
  PROVE  PrintInv'
<1>1. /\ UNCHANGED P!input /\ UNCHANGED <<P!input, str, uart>> /\ d' = d /\ UNCHANGED <<P!input, str>>
      /\ stage = "digits" /\ d.decimal = <<>> /\ buffer # <<>>
      /\ buffer' = buffer /\ stage' = "reverse" /\ swapped' = 0
  BY DEF P!StartReverse, P!input
<1>2. InNumber /\ Inputs /\ Walked /\ AtNumber
  BY <1>1 DEF InNumber, PrintInv
<1>3. /\ buffer \in Seq(Characters) /\ Len(buffer) <= Len(Figures)
      /\ \A j \in 1 .. Len(buffer) : buffer[j] = Figures[Len(Figures) + 1 - j]
      /\ Given.decimal # <<>> => Len(d.decimal) = Len(Figures) - Len(buffer)
  BY <1>1 DEF PrintInv, Collected
<1>4. Len(buffer) = Len(Figures) /\ Len(buffer) \in Nat
  <2>1. Len(buffer) \in Nat \ {0} /\ Len(d.decimal) = 0
    BY <1>1, <1>3
  <2> QED
    BY <1>2, <1>3, <2>1, ShownOk
<1>5. Reversed'
  <2>1. Figures' = Figures
    BY <1>1, SameNumber
  <2>2. 0 \in 0 .. P!Turns'
    BY <1>1, <1>4 DEF P!Turns
  <2> QED
    BY <1>1, <1>3, <1>4, <2>1, <2>2 DEF Reversed
<1>6. Walked' /\ AtNumber'
  BY <1>1, <1>2, KeepPlace
<1> QED
  BY <1>1, <1>2, <1>5, <1>6, SameInput DEF PrintInv, Collected, P!BufferHolds

LEMMA SwapInv ==
  ASSUME P!ArgumentsFit, PrintInv, P!Swap
  PROVE  PrintInv'
<1> DEFINE L == Len(buffer)
           i0 == swapped + 1
           j0 == L - swapped
<1>1. /\ UNCHANGED P!input /\ UNCHANGED <<P!input, str, uart>> /\ d' = d /\ UNCHANGED <<P!input, str>>
      /\ stage = "reverse" /\ stage' = "reverse"
      /\ swapped < P!Turns /\ swapped' = swapped + 1
      /\ buffer' = [buffer EXCEPT ![i0] = buffer[j0], ![j0] = buffer[i0]]
  BY DEF P!Swap, P!input
<1>2. InNumber /\ Inputs /\ Walked /\ AtNumber
  BY <1>1 DEF InNumber, PrintInv
<1>3. /\ buffer \in Seq(Characters) /\ L = Len(Figures) /\ swapped \in 0 .. P!Turns
      /\ \A j \in 1 .. L :
           buffer[j] = IF j <= swapped \/ j > L - swapped
                       THEN Figures[j] ELSE Figures[L + 1 - j]
  BY <1>1 DEF PrintInv, Reversed
<1>4. /\ L \in Nat /\ swapped \in Nat /\ i0 \in 1 .. L /\ j0 \in 1 .. L /\ i0 < j0
      /\ swapped + 1 \in 0 .. P!Turns
  BY <1>1, <1>3 DEF P!Turns
<1>5. /\ buffer' \in Seq(Characters) /\ Len(buffer') = L
      /\ \A j \in 1 .. L : buffer'[j] = IF j = i0 THEN buffer[j0]
                                        ELSE IF j = j0 THEN buffer[i0] ELSE buffer[j]
  <2> HIDE DEF i0, j0
  <2> QED
    BY <1>1, <1>3, <1>4
<1>6. Reversed'
  <2>1. Figures' = Figures
    BY <1>1, SameNumber
  <2>2. swapped' \in 0 .. P!Turns'
    BY <1>1, <1>4, <1>5 DEF P!Turns
  <2>3. ASSUME NEW j \in 1 .. L
        PROVE  buffer'[j] = IF j <= swapped + 1 \/ j > L - (swapped + 1)
                            THEN Figures[j] ELSE Figures[L + 1 - j]
    <3>1. CASE j = i0
      <4>1. buffer'[j] = buffer[j0] /\ buffer[j0] = Figures[L + 1 - j0] /\ L + 1 - j0 = j
        BY <1>3, <1>4, <1>5, <3>1
      <4> QED
        BY <1>4, <3>1, <4>1
    <3>2. CASE j = j0
      <4>1. buffer'[j] = buffer[i0] /\ buffer[i0] = Figures[L + 1 - i0] /\ L + 1 - i0 = j
        BY <1>3, <1>4, <1>5, <3>2
      <4> QED
        BY <1>4, <3>2, <4>1
    <3>3. CASE j # i0 /\ j # j0
      <4>1. buffer'[j] = buffer[j]
        BY <1>5, <3>3
      <4>2. (j <= swapped \/ j > L - swapped) <=> (j <= swapped + 1 \/ j > L - (swapped + 1))
        BY <1>4, <3>3
      <4> QED
        BY <1>3, <4>1, <4>2
    <3> QED
      BY <3>1, <3>2, <3>3
  <2> QED
    BY <1>1, <1>3, <1>5, <2>1, <2>2, <2>3 DEF Reversed
<1>7. Walked' /\ AtNumber'
  BY <1>1, <1>2, KeepPlace
<1> QED
  BY <1>1, <1>2, <1>6, <1>7, SameInput DEF PrintInv, Collected, P!BufferHolds

LEMMA TerminateInv ==
  ASSUME P!ArgumentsFit, PrintInv, P!Terminate
  PROVE  PrintInv'
<1>1. /\ UNCHANGED P!input /\ UNCHANGED <<P!input, str, uart>> /\ d' = d /\ UNCHANGED <<P!input, str>>
      /\ stage = "reverse" /\ swapped = P!Turns
      /\ buffer' = Append(buffer, "NUL")
      /\ stage' = IF Len(buffer) < 12 THEN "print" ELSE "corrupted"
  BY DEF P!Terminate, P!Store, P!BufferSize, P!input
<1>2. InNumber /\ Inputs /\ Walked /\ AtNumber
  BY <1>1 DEF InNumber, PrintInv
<1>3. /\ buffer \in Seq(Characters) /\ Len(buffer) = Len(Figures)
      /\ \A j \in 1 .. Len(buffer) :
           buffer[j] = IF j <= swapped \/ j > Len(buffer) - swapped
                       THEN Figures[j] ELSE Figures[Len(Figures) + 1 - j]
  BY <1>1 DEF PrintInv, Reversed
<1>4. Figures \in Seq(Characters) /\ Len(Figures) \in Nat
      /\ (Len(Figures) > 11 => P!At(str + 1) = "u" /\ Len(va_args.u.decimal) > 11)
  BY <1>2, ShownOk
<1>5. buffer = Figures
  <2>1. ASSUME NEW j \in 1 .. Len(Figures) PROVE buffer[j] = Figures[j]
    <3>1. j <= swapped \/ j > Len(buffer) - swapped \/ Len(Figures) + 1 - j = j
      <4> DEFINE n == Len(buffer)
      <4>1. n \in Nat /\ Len(Figures) = n /\ swapped = n \div 2 /\ j \in 1 .. n
        BY <1>1, <1>3, <1>4 DEF P!Turns
      <4> HIDE DEF n
      <4>2. j <= n \div 2 \/ j > n - (n \div 2) \/ n + 1 - j = j
        BY <4>1
      <4> QED
        BY <4>1, <4>2 DEF n
    <3> QED
      BY <1>3, <3>1
  <2> QED
    BY <1>3, <1>4, <2>1
<1>6. Given' = Given /\ Figures' = Figures /\ P!At(str + 1)' = P!At(str + 1) /\ va_args' = va_args
  BY <1>1, SameInput, SameNumber
<1>7. P!BufferHolds'
  <2>1. stage' = "corrupted" => Len(Figures) > 11
    BY <1>1, <1>3, <1>4
  <2> QED
    BY <1>4, <1>6, <2>1 DEF P!BufferHolds
<1>8. Walked' /\ AtNumber'
  BY <1>1, <1>2, KeepPlace
<1> QED
  BY <1>1, <1>2, <1>5, <1>6, <1>7, <1>8, SameInput DEF PrintInv, Collected, Reversed

LEMMA PrintNumberInv ==
  ASSUME P!ArgumentsFit, PrintInv, P!PrintNumber
  PROVE  PrintInv'
<1>1. /\ UNCHANGED P!input /\ stage = "print" /\ stage' = "walk" /\ str' = str + 2
      /\ uart' = uart \o (IF d.neg THEN <<"-">> ELSE <<>>) \o P!Front(buffer)
  BY DEF P!PrintNumber, P!AfterDirective, P!input
<1>2. InNumber /\ Inputs /\ Walked /\ AtNumber /\ buffer = Append(Figures, "NUL")
  BY <1>1 DEF InNumber, PrintInv
<1>3. /\ str \in 1 .. Len(format) + 1 /\ str - 1 \notin P!Begins(format)
      /\ uart = Flat(Pieces, str - 1) /\ uart \in Seq(Characters)
      /\ str \in P!Begins(format) /\ P!At(str + 1) \in P!Numbers /\ d.neg = Given.neg
  BY <1>2 DEF Walked, AtNumber
<1> DEFINE sign == IF Given.neg THEN <<"-">> ELSE <<>>
<1>4. Figures \in Seq(Characters) /\ P!Numeral(Given) = sign \o Figures /\ sign \in Seq(Characters)
  <2>1. <<"-">> \in Seq(Characters) /\ <<>> \in Seq(Characters)
    BY Literals, OneOrTwo
  <2> QED
    BY <1>2, <2>1, ShownOk
<1>5. P!Front(buffer) = Figures
  BY <1>2, <1>4, Literals, AppendOk
<1> HIDE DEF sign
<1>6. uart' = uart \o P!Numeral(Given) /\ uart' \in Seq(Characters)
  <2>1. uart' = (uart \o sign) \o Figures
    BY <1>1, <1>3, <1>5 DEF sign
  <2>2. (uart \o sign) \o Figures = uart \o (sign \o Figures)
    <3>1. uart \in Seq(Characters) /\ sign \in Seq(Characters) /\ Figures \in Seq(Characters)
      BY <1>3, <1>4
    <3> HIDE DEF Figures
    <3> QED
      BY <3>1, ConcatOk
  <2>3. sign \o Figures \in Seq(Characters)
    BY <1>4, ConcatOk
  <2>4. uart \o (sign \o Figures) \in Seq(Characters)
    BY <1>3, <2>3, ConcatOk
  <2> QED
    BY <1>4, <2>1, <2>2, <2>4
<1>7. P!At(str) = "%"
  BY <1>2, <1>3, Strings, BeginsStep, AtPlace
<1>8. /\ str < Len(format) /\ str + 1 \notin P!Begins(format)
      /\ uart' = Flat(Pieces, str + 1)
  BY <1>2, <1>3, <1>6, <1>7, DirectivePiece DEF Given
<1>9. Walked'
  <2>1. str' \in 1 .. Len(format) + 1 /\ str' - 1 = str + 1
    BY <1>1, <1>2, <1>3, <1>8, Strings
  <2> QED
    BY <1>1, <1>6, <1>8, <2>1, SameInput DEF Walked
<1> QED
  BY <1>1, <1>2, <1>9, SameInput
  DEF PrintInv, AtNumber, InNumber, Collected, Reversed, P!BufferHolds

LEMMA ReturnInv ==
  ASSUME P!ArgumentsFit, PrintInv, P!Return
  PROVE  PrintInv'
<1>1. /\ UNCHANGED P!input /\ stage = "walk" /\ stage' = "returned" /\ uart' = uart
      /\ P!At(str) = "NUL"
  BY DEF P!Return, P!input
<1>2. Inputs /\ str \in 1 .. Len(format) + 1 /\ uart = Flat(Pieces, str - 1)
  BY <1>1 DEF PrintInv, Walked
<1>3. str = Len(format) + 1
  BY <1>1, <1>2, Strings, AtPlace
<1>4. uart' = Flat(Pieces, Len(format))
  BY <1>1, <1>2, <1>3, Strings
<1> QED
  BY <1>1, <1>2, <1>4, SameInput
  DEF PrintInv, Walked, AtNumber, InNumber, Collected, Reversed, P!BufferHolds

LEMMA StutterInv ==
  ASSUME PrintInv, UNCHANGED P!vars
  PROVE  PrintInv'
<1>1. /\ UNCHANGED P!input /\ UNCHANGED <<P!input, str>> /\ stage' = stage /\ d' = d
      /\ buffer' = buffer /\ swapped' = swapped /\ str' = str /\ uart' = uart
  BY DEF P!vars, P!input
<1> QED
  BY <1>1, SameInput, SameNumber
  DEF PrintInv, Walked, AtNumber, InNumber, Collected, Reversed, P!BufferHolds, P!Turns

LEMMA PrintInvStays ==
  ASSUME P!ArgumentsFit
  PROVE  /\ P!Init => PrintInv
         /\ PrintInv /\ [P!Next]_P!vars => PrintInv'
BY InitInv, PrintCharInv, PrintOtherInv, StartNumberInv, PutDigitInv, PutZeroInv,
   StartReverseInv, SwapInv, TerminateInv, PrintNumberInv, ReturnInv, StutterInv
DEF P!Next

LEMMA PrintInvTells ==
  ASSUME P!ArgumentsFit, PrintInv
  PROVE  BufferHolds /\ PrintsTheFormat
<1>1. BufferHolds
  BY DEF PrintInv, BufferHolds
<1>2. Inputs /\ (stage = "returned" => uart = Flat(Pieces, Len(format)))
  BY DEF PrintInv
<1>3. P!FlattenSeq(Pieces) = Flat(Pieces, Len(format))
  BY <1>2, PrintedStep
<1>4. PrintsTheFormat
  BY <1>2, <1>3 DEF PrintsTheFormat, P!PrintsTheFormat, Pieces, Piece
<1> QED
  BY <1>1, <1>4

-----------------------------------------------------------------------------
(***************************************************************************)
(* writef: the walk and the backward_buffer.                               *)
(***************************************************************************)
\* The walk is in the string or at its end, the buffer's text in the buffer.
WriteInv ==
  /\ Len(text) \in Nat /\ iter \in 1 .. Len(text) + 1
  /\ \E S : tmp \in Seq(S)
  /\ Len(tmp) <= Capacity

LEMMA FlatType ==
  ASSUME NEW S, NEW s \in Seq(Seq(S))
  PROVE  FlattenSeq(s) \in Seq(S)
<1>0. FlattenSeq(s) = P!FlattenSeq(s)
  BY DEF FlattenSeq, P!FlattenSeq
<1> DEFINE T == {m \in 0 .. Len(s) : Flat(s, m) \notin Seq(S)}
<1>1. T = {}
  <2> SUFFICES ASSUME T # {} PROVE FALSE
    OBVIOUS
  <2>1. PICK m \in T : \A y \in T : m <= y
    <3>1. T \in SUBSET Nat
      OBVIOUS
    <3> HIDE DEF T
    <3> QED
      BY <3>1, LeastElement
  <2>2. CASE m = 0
    <3>1. Flat(s, 0) = <<>> /\ <<>> \in Seq(S)
      BY DEF Flat
    <3> QED
      BY <2>1, <2>2, <3>1
  <2>3. CASE m # 0
    <3>1. m \in 1 .. Len(s) /\ m - 1 \in 0 .. Len(s) /\ m - 1 \notin T
      BY <2>1, <2>3
    <3>2. Flat(s, m - 1) \in Seq(S) /\ s[m] \in Seq(S)
      BY <3>1
    <3>3. Flat(s, m) = Flat(s, m - 1) \o s[m]
      BY <3>1, FlatStep
    <3>4. Flat(s, m) \in Seq(S)
      BY <3>2, <3>3
    <3> QED
      BY <2>1, <3>4
  <2> QED
    BY <2>2, <2>3
<1>2. Len(s) \in 0 .. Len(s)
  OBVIOUS
<1> QED
  BY <1>0, <1>1, <1>2, FlatStep

LEMMA WriteInitInv ==
  ASSUME LinesAreStrings, Capacity \in Nat \ {0}, Init
  PROVE  WriteInv
<1>1. PICK call \in Calls : line = call.line
  BY DEF Init
<1>2. text \in Seq(STRING)
  <2>1. text = FlattenSeq([k \in DOMAIN call.line |-> Chars(call.line[k])])
    <3>1. text = Text(line)
      BY DEF Init
    <3> QED
      BY <1>1, <3>1 DEF Text
  <2>2. [k \in DOMAIN call.line |-> Chars(call.line[k])] \in Seq(Seq(STRING))
    BY DEF LinesAreStrings
  <2> QED
    BY <2>1, <2>2, FlatType
<1>3. Len(text) \in Nat /\ iter = 1 /\ tmp = <<>>
  BY <1>2 DEF Init
<1> QED
  BY <1>3 DEF WriteInv

\* What does not fit is dropped.
LEMMA PutcFits ==
  ASSUME Capacity \in Nat \ {0}, NEW t, \E S : t \in Seq(S), Len(t) <= Capacity, NEW c
  PROVE  (\E S : putc(t, c) \in Seq(S)) /\ Len(putc(t, c)) <= Capacity
<1>1. PICK S : t \in Seq(S)
  OBVIOUS
<1> DEFINE R == S \cup {c}
<1>2. t \in Seq(R) /\ <<c>> \in Seq(R) /\ Len(<<c>>) = 1 /\ Len(t) \in Nat
  BY <1>1, WiderSeq
<1> HIDE DEF R
<1>3. <<c>> \o t \in Seq(R) /\ Len(<<c>> \o t) = 1 + Len(t)
  BY <1>2
<1>4. CASE Len(t) < Capacity
  <2>1. putc(t, c) = <<c>> \o t
    BY <1>4 DEF putc
  <2> QED
    BY <1>2, <1>3, <1>4, <2>1
<1>5. CASE ~(Len(t) < Capacity)
  <2>1. putc(t, c) = t
    BY <1>5 DEF putc
  <2> QED
    BY <1>2, <2>1
<1> QED
  BY <1>4, <1>5

\* A placeholder that is closed ends inside the string.
LEMMA FmtEndInside ==
  ASSUME WriteInv, Closing # {}
  PROVE  fmt_end \in 1 .. Len(text) + 1
<1>1. Closing \in SUBSET Nat /\ Closing \subseteq (iter + 1) .. Len(text)
  BY DEF Closing, WriteInv
<1>2. Min(Closing) \in Closing
  BY <1>1, LeastElement DEF Min
<1>3. /\ Min(Closing) \in (iter + 1) .. Len(text)
      /\ Len(text) \in Nat /\ iter \in 1 .. Len(text) + 1
  BY <1>1, <1>2 DEF WriteInv
<1> QED
  BY <1>3 DEF fmt_end

LEMMA WalkInside ==
  ASSUME WriteInv, UNCHANGED <<text, tmp>>,
         \/ PrintString \/ PrintUnknown \/ StopAtOpen
         \/ Escape \/ PrintChar \/ Finish
  PROVE  WriteInv'
<1>1. \A k \in Nat : At(k) # NUL => k <= Len(text)
  BY DEF At
<1>2. iter' \in 1 .. Len(text) + 1
  <2>1. CASE PrintString
    BY <2>1, FmtEndInside DEF PrintString, ParseArg
  <2>2. CASE PrintUnknown
    BY <2>2, FmtEndInside DEF PrintUnknown
  <2>3. CASE StopAtOpen \/ Finish
    BY <2>3 DEF StopAtOpen, Finish, WriteInv
  <2>4. CASE Escape
    <3>1. At(iter + 1) # NUL /\ iter' = iter + 2
      BY <2>4 DEF Escape, AtEscape, Open, NUL
    <3> QED
      BY <1>1, <3>1 DEF WriteInv
  <2>5. CASE PrintChar
    <3>1. At(iter) # NUL /\ iter' = iter + 1
      BY <2>5 DEF PrintChar
    <3> QED
      BY <1>1, <3>1 DEF WriteInv
  <2> QED
    BY <2>1, <2>2, <2>3, <2>4, <2>5
<1> QED
  BY <1>2 DEF WriteInv

LEMMA WriteInside ==
  ASSUME Capacity \in Nat \ {0}, WriteInv, Write
  PROVE  WriteInv'
<1>1. text' = text /\ iter' = iter /\ (\E S : tmp \in Seq(S)) /\ Len(tmp) <= Capacity
  BY DEF Write, walk, WriteInv
<1>2. (\E S : tmp' \in Seq(S)) /\ Len(tmp') <= Capacity
  <2>1. CASE PutDigit
    BY <1>1, <2>1, PutcFits DEF PutDigit
  <2>2. CASE PutZero
    BY <1>1, <2>2, PutcFits DEF PutZero
  <2>3. CASE PutPrefix
    <3> DEFINE t == putc(tmp, Prefix(fmt.base))
    <3>1. (\E S : t \in Seq(S)) /\ Len(t) <= Capacity
      BY <1>1, PutcFits
    <3>2. tmp' = putc(t, "0")
      BY <2>3 DEF PutPrefix
    <3> HIDE DEF t
    <3> QED
      BY <3>1, <3>2, PutcFits
  <2>4. CASE PutSign
    <3> DEFINE t == IF fmt.zero_pad /\ Short(tmp) THEN putc(tmp, "0") ELSE tmp
    <3>1. (\E S : t \in Seq(S)) /\ Len(t) <= Capacity
      BY <1>1, PutcFits
    <3>2. tmp' = Signed(t)
      BY <2>4 DEF PutSign
    <3> HIDE DEF t
    <3>3. tmp' \in {t, putc(t, "-"), putc(t, "+"), putc(t, "0")}
      BY <3>2 DEF Signed
    <3> QED
      BY <3>1, <3>3, PutcFits
  <2>5. CASE PutSpaceRight
    BY <1>1, <2>5, PutcFits DEF PutSpaceRight
  <2>6. CASE EndDigits \/ Align \/ PutSpaceLeft \/ Flush
    BY <1>1, <2>6 DEF EndDigits, Align, PutSpaceLeft, Flush
  <2> QED
    BY <2>1, <2>2, <2>3, <2>4, <2>5, <2>6 DEF Write, WriteNumber
<1> QED
  BY <1>1, <1>2 DEF WriteInv

LEMMA WriteInvStays ==
  ASSUME Capacity \in Nat \ {0}, WriteInv, [Next]_vars
  PROVE  WriteInv'
<1>1. CASE PrintNumber
  <2>1. iter' \in 1 .. Len(text) + 1 /\ text' = text /\ tmp' = <<>>
    BY <1>1, FmtEndInside DEF PrintNumber, ParseArg, Enter
  <2> QED
    BY <2>1 DEF WriteInv
<1>2. CASE \/ PrintString \/ PrintUnknown \/ StopAtOpen
           \/ Escape \/ PrintChar \/ Finish
  <2>1. UNCHANGED <<text, tmp>>
    BY <1>2 DEF PrintString, ParseArg, PrintUnknown, StopAtOpen, Escape,
                PrintChar, Finish, Pass, number
  <2> QED
    BY <1>2, <2>1, WalkInside
<1>3. CASE Write
  BY <1>3, WriteInside
<1>4. CASE UNCHANGED vars
  BY <1>4 DEF vars, walk, number, WriteInv
<1> QED
  BY <1>1, <1>2, <1>3, <1>4 DEF Next

-----------------------------------------------------------------------------
(***************************************************************************)
(* What a numeral denotes.  Powers and the value of a text are recursive   *)
(* functions: each step of theirs is a lemma, and what is built on them is *)
(* proved by induction over the places of the text.                        *)
(***************************************************************************)
Bases == {2, 8, 10, 16}

\* Induction up to a number, for sets.
LEMMA UpTo ==
  ASSUME NEW n \in Nat, NEW T \in SUBSET (0 .. n),
         0 \in T, \A k \in 1 .. n : k - 1 \in T => k \in T
  PROVE  T = 0 .. n
<1> DEFINE R == (0 .. n) \ T
<1> SUFFICES ASSUME R # {} PROVE FALSE
  OBVIOUS
<1>1. R \in SUBSET Nat
  OBVIOUS
<1>2. PICK m \in R : \A y \in R : m <= y
  BY <1>1, LeastElement
<1>3. m \in 1 .. n /\ m - 1 \in 0 .. n /\ m - 1 \notin R
  BY <1>2
<1> QED
  BY <1>3

\* Digits.

LEMMA DigitsDiffer ==
  /\ DOMAIN digits = 1 .. 16
  /\ \A j, k \in 1 .. 16 : digits[j] = digits[k] => j = k
BY DEF digits

LEMMA DigitValues == \A k \in 1 .. 16 : DigitValue(digits[k]) = k - 1
BY DigitsDiffer DEF DigitValue

LEMMA NumeralValues ==
  ASSUME NEW base \in Bases, NEW c \in Numerals(base)
  PROVE  DigitValue(c) \in 0 .. base - 1
<1>1. PICK k \in 1 .. base : c = digits[k]
  BY DEF Numerals
<1>2. base \in Nat /\ k \in 1 .. 16 /\ k - 1 \in 0 .. base - 1
  BY DEF Bases
<1>3. DigitValue(c) = k - 1
  BY <1>1, <1>2, DigitValues
<1> QED
  BY <1>2, <1>3

LEMMA ZeroIsNumeral ==
  ASSUME NEW base \in Bases
  PROVE  "0" \in Numerals(base) /\ DigitValue("0") = 0
<1>1. digits[1] = "0" /\ 1 \in 1 .. base
  BY DEF digits, Bases
<1> QED
  BY <1>1, DigitValues DEF Numerals

LEMMA NoNumerals ==
  ASSUME NEW base \in Bases
  PROVE  /\ " " \notin Numerals(base) /\ "-" \notin Numerals(base)
         /\ "+" \notin Numerals(base)
         /\ base # 10 => Prefix(base) \notin Numerals(base)
<1>1. \A k \in 1 .. 16 : digits[k] \notin {" ", "-", "+", "o", "x"}
  <2>1. /\ digits[1] = "0" /\ digits[2] = "1" /\ digits[3] = "2" /\ digits[4] = "3"
        /\ digits[5] = "4" /\ digits[6] = "5" /\ digits[7] = "6" /\ digits[8] = "7"
        /\ digits[9] = "8" /\ digits[10] = "9" /\ digits[11] = "a" /\ digits[12] = "b"
        /\ digits[13] = "c" /\ digits[14] = "d" /\ digits[15] = "e" /\ digits[16] = "f"
    BY DEF digits
  <2> DEFINE D == {"0", "1", "2", "3", "4", "5", "6", "7", "8", "9", "a", "b", "c", "d", "e", "f"}
  <2>2. ASSUME NEW k \in 1 .. 16 PROVE digits[k] \in D
    <3>1. \/ k = 1 \/ k = 2 \/ k = 3 \/ k = 4 \/ k = 5 \/ k = 6 \/ k = 7 \/ k = 8
          \/ k = 9 \/ k = 10 \/ k = 11 \/ k = 12 \/ k = 13 \/ k = 14 \/ k = 15 \/ k = 16
      OBVIOUS
    <3> QED
      BY <2>1, <3>1
  <2>3. \A c \in D : c \notin {" ", "-", "+", "o", "x"}
    OBVIOUS
  <2> QED
    BY <2>2, <2>3
<1>2. base \in Nat /\ 1 .. base \subseteq 1 .. 16
  BY DEF Bases
<1>3. \A c \in {" ", "-", "+", "o", "x"} : c \notin Numerals(base)
  BY <1>1, <1>2 DEF Numerals
<1>4. CASE base = 2
  <2>1. digits[1] = "0" /\ digits[2] = "1"
    BY DEF digits
  <2>2. Numerals(2) = {"0", "1"}
    BY <2>1 DEF Numerals
  <2>3. Prefix(base) = "b"
    BY <1>4 DEF Prefix
  <2> QED
    BY <1>3, <1>4, <2>2, <2>3
<1>5. CASE base # 2
  <2>1. base # 10 => Prefix(base) \in {"o", "x"}
    BY <1>5 DEF Prefix, Bases
  <2> QED
    BY <1>3, <2>1
<1> QED
  BY <1>4, <1>5

\* Powers.

Powered(base, n, p) == p = [k \in 0 .. n |-> IF k = 0 THEN 1 ELSE base * p[k - 1]]

LEMMA PoweredExists ==
  ASSUME NEW base \in Nat, NEW n \in Nat
  PROVE  \E p : Powered(base, n, p)
<1> DEFINE T == {m \in 0 .. n : \E p : Powered(base, m, p)}
<1>1. 0 \in T
  <2>1. Powered(base, 0, [k \in 0 .. 0 |-> 1])
    BY DEF Powered
  <2> QED
    BY <2>1
<1>2. ASSUME NEW m \in 1 .. n, m - 1 \in T PROVE m \in T
  <2>1. PICK p : Powered(base, m - 1, p)
    BY <1>2
  <2> DEFINE q == [k \in 0 .. m |-> IF k = m THEN base * p[m - 1] ELSE p[k]]
  <2>2. \A k \in 0 .. m - 1 : p[k] = IF k = 0 THEN 1 ELSE base * p[k - 1]
    BY <2>1 DEF Powered
  <2>3. \A k \in 0 .. m - 1 : q[k] = p[k]
    OBVIOUS
  <2>4. \A k \in 0 .. m : q[k] = IF k = 0 THEN 1 ELSE base * q[k - 1]
    <3> TAKE k \in 0 .. m
    <3>1. CASE k = m
      BY <2>3, <3>1
    <3>2. CASE k # m
      BY <2>2, <2>3, <3>2
    <3> QED
      BY <3>1, <3>2
  <2>5. Powered(base, m, q)
    <3>1. q = [k \in 0 .. m |-> q[k]]
      OBVIOUS
    <3> HIDE DEF q
    <3>2. [k \in 0 .. m |-> q[k]] = [k \in 0 .. m |-> IF k = 0 THEN 1 ELSE base * q[k - 1]]
      BY <2>4
    <3> QED
      BY <3>1, <3>2 DEF Powered
  <2> QED
    BY <2>5
<1> HIDE DEF T
<1>3. T \in SUBSET (0 .. n)
  BY DEF T
<1>4. T = 0 .. n
  BY <1>1, <1>2, <1>3, UpTo
<1> QED
  BY <1>4 DEF T

LEMMA PoweredAgree ==
  ASSUME NEW base \in Nat, NEW m \in Nat, NEW n \in Nat, m <= n,
         NEW p, Powered(base, m, p), NEW q, Powered(base, n, q)
  PROVE  p[m] = q[m]
<1> DEFINE T == {k \in 0 .. m : p[k] = q[k]}
<1>1. \A k \in 0 .. m : p[k] = IF k = 0 THEN 1 ELSE base * p[k - 1]
  BY DEF Powered
<1>2. \A k \in 0 .. n : q[k] = IF k = 0 THEN 1 ELSE base * q[k - 1]
  BY DEF Powered
<1>3. 0 \in T /\ \A k \in 1 .. m : k - 1 \in T => k \in T
  BY <1>1, <1>2
<1>4. T \in SUBSET (0 .. m)
  OBVIOUS
<1> HIDE DEF T
<1>5. T = 0 .. m
  BY <1>3, <1>4, UpTo
<1> QED
  BY <1>5 DEF T

LEMMA PowerStep ==
  ASSUME NEW base \in Nat
  PROVE  /\ Power(base, 0) = 1
         /\ \A n \in Nat : Power(base, n + 1) = base * Power(base, n)
<1> DEFINE pow(n) == CHOOSE p : Powered(base, n, p)
<1>1. \A n \in Nat : Power(base, n) = pow(n)[n]
  BY DEF Power, Powered
<1>2. \A n \in Nat : Powered(base, n, pow(n))
  BY PoweredExists
<1> HIDE DEF pow
<1>3. \A n \in Nat : pow(n) = [k \in 0 .. n |-> IF k = 0 THEN 1 ELSE base * pow(n)[k - 1]]
  BY <1>2 DEF Powered
<1>4. Power(base, 0) = 1
  BY <1>1, <1>3
<1>5. ASSUME NEW n \in Nat PROVE Power(base, n + 1) = base * Power(base, n)
  <2>1. pow(n)[n] = pow(n + 1)[n]
    BY <1>2, PoweredAgree
  <2>2. pow(n + 1)[n + 1] = base * pow(n + 1)[n]
    BY <1>3
  <2> QED
    BY <1>1, <2>1, <2>2
<1> QED
  BY <1>4, <1>5

LEMMA PowerGrows ==
  ASSUME NEW base \in Bases, NEW n \in Nat
  PROVE  /\ Power(base, n) \in Nat \ {0} /\ n < Power(base, n)
         /\ \A m \in 0 .. n : Power(base, m) <= Power(base, n)
<1> DEFINE T == {k \in 0 .. n : /\ Power(base, k) \in Nat \ {0} /\ k < Power(base, k)
                                /\ \A m \in 0 .. k : Power(base, m) \in Nat /\ Power(base, m) <= Power(base, k)}
<1>0. base \in Nat /\ base \in Bases
  BY DEF Bases
<1>1. Power(base, 0) = 1 /\ \A k \in Nat : Power(base, k + 1) = base * Power(base, k)
  BY <1>0, PowerStep
<1>2. 0 \in T
  BY <1>1
<1>3. ASSUME NEW k \in 1 .. n, k - 1 \in T PROVE k \in T
  <2>1. Power(base, k) = base * Power(base, k - 1)
    BY <1>1, k - 1 \in Nat, (k - 1) + 1 = k
  <2>2. /\ Power(base, k - 1) \in Nat \ {0} /\ k - 1 < Power(base, k - 1)
        /\ \A m \in 0 .. k - 1 : Power(base, m) \in Nat /\ Power(base, m) <= Power(base, k - 1)
    BY <1>3
  <2>3. Power(base, k) \in Nat \ {0} /\ Power(base, k) >= 2 * Power(base, k - 1)
    BY <2>1, <2>2 DEF Bases
  <2>4. k < Power(base, k)
    BY <2>2, <2>3
  <2>5. \A m \in 0 .. k : Power(base, m) \in Nat /\ Power(base, m) <= Power(base, k)
    <3> TAKE m \in 0 .. k
    <3>1. CASE m = k
      BY <2>3, <3>1
    <3>2. CASE m # k
      <4>1. Power(base, m) \in Nat /\ Power(base, m) <= Power(base, k - 1)
        BY <2>2, <3>2
      <4> QED
        BY <2>2, <2>3, <4>1
    <3> QED
      BY <3>1, <3>2
  <2> QED
    BY <2>3, <2>4, <2>5
<1>4. T \in SUBSET (0 .. n)
  OBVIOUS
<1> HIDE DEF T
<1>5. T = 0 .. n
  BY <1>2, <1>3, <1>4, UpTo
<1>6. n \in T
  BY <1>5
<1> QED
  BY <1>6 DEF T

\* What numerals denote.

Valued(text_, base, n, v) ==
  v = [k \in 0 .. n |-> IF k = 0 THEN 0
                        ELSE IF text_[k] \notin Numerals(base) THEN v[k - 1]
                        ELSE v[k - 1] * base + DigitValue(text_[k])]

LEMMA ValuedExists ==
  ASSUME NEW t, NEW base, NEW n \in Nat
  PROVE  \E v : Valued(t, base, n, v)
<1> DEFINE T == {m \in 0 .. n : \E v : Valued(t, base, m, v)}
<1>1. 0 \in T
  <2>1. Valued(t, base, 0, [k \in 0 .. 0 |-> 0])
    BY DEF Valued
  <2> QED
    BY <2>1
<1>2. ASSUME NEW m \in 1 .. n, m - 1 \in T PROVE m \in T
  <2>1. PICK v : Valued(t, base, m - 1, v)
    BY <1>2
  <2> DEFINE last == IF t[m] \notin Numerals(base) THEN v[m - 1]
                     ELSE v[m - 1] * base + DigitValue(t[m])
             w == [k \in 0 .. m |-> IF k = m THEN last ELSE v[k]]
  <2>2. \A k \in 0 .. m - 1 :
          v[k] = IF k = 0 THEN 0
                 ELSE IF t[k] \notin Numerals(base) THEN v[k - 1]
                 ELSE v[k - 1] * base + DigitValue(t[k])
    BY <2>1 DEF Valued
  <2>3. (\A k \in 0 .. m - 1 : w[k] = v[k]) /\ w[m] = last
    OBVIOUS
  <2>4. w = [k \in 0 .. m |-> w[k]]
    OBVIOUS
  <2> HIDE DEF w
  <2>5. \A k \in 0 .. m :
          w[k] = IF k = 0 THEN 0
                 ELSE IF t[k] \notin Numerals(base) THEN w[k - 1]
                 ELSE w[k - 1] * base + DigitValue(t[k])
    <3> TAKE k \in 0 .. m
    <3>1. CASE k = m
      BY <2>3, <3>1
    <3>2. CASE k # m
      <4>1. k \in 0 .. m - 1 /\ (k # 0 => k - 1 \in 0 .. m - 1)
        BY <3>2
      <4>2. w[k] = v[k] /\ (k # 0 => w[k - 1] = v[k - 1])
        BY <2>3, <4>1
      <4> QED
        BY <2>2, <4>1, <4>2
    <3> QED
      BY <3>1, <3>2
  <2>6. Valued(t, base, m, w)
    BY <2>4, <2>5 DEF Valued
  <2> QED
    BY <2>6
<1> HIDE DEF T
<1>3. T \in SUBSET (0 .. n)
  BY DEF T
<1>4. T = 0 .. n
  BY <1>1, <1>2, <1>3, UpTo
<1> QED
  BY <1>4 DEF T

\* What the first k characters of a text denote.
Value(t, base, k) == (CHOOSE v : Valued(t, base, Len(t), v))[k]

LEMMA ValueStep ==
  ASSUME NEW S, NEW t \in Seq(S), NEW base \in Bases
  PROVE  /\ Value(t, base, 0) = 0
         /\ \A k \in 1 .. Len(t) :
              Value(t, base, k) = IF t[k] \notin Numerals(base) THEN Value(t, base, k - 1)
                                  ELSE Value(t, base, k - 1) * base + DigitValue(t[k])
         /\ ValueOf(t, base) = Value(t, base, Len(t))
         /\ \A k \in 0 .. Len(t) : Value(t, base, k) \in Nat
<1> DEFINE v == CHOOSE u : Valued(t, base, Len(t), u)
<1>0. Len(t) \in Nat
  OBVIOUS
<1>1. Valued(t, base, Len(t), v)
  BY <1>0, ValuedExists
<1>2. ValueOf(t, base) = v[Len(t)] /\ \A k : Value(t, base, k) = v[k]
  BY DEF ValueOf, Value, Valued
<1> HIDE DEF v
<1>3. \A k \in 0 .. Len(t) :
        v[k] = IF k = 0 THEN 0
               ELSE IF t[k] \notin Numerals(base) THEN v[k - 1]
               ELSE v[k - 1] * base + DigitValue(t[k])
  BY <1>1 DEF Valued
<1> DEFINE T == {k \in 0 .. Len(t) : v[k] \in Nat}
<1>4. 0 \in T
  BY <1>0, <1>3
<1>5. ASSUME NEW k \in 1 .. Len(t), k - 1 \in T PROVE k \in T
  <2>1. base \in Nat /\ v[k - 1] \in Nat
    BY <1>5 DEF Bases
  <2>2. v[k] = IF t[k] \notin Numerals(base) THEN v[k - 1]
               ELSE v[k - 1] * base + DigitValue(t[k])
    BY <1>0, <1>3
  <2>3. CASE t[k] \in Numerals(base)
    <3>1. DigitValue(t[k]) \in Nat
      BY <2>1, <2>3, NumeralValues
    <3>2. v[k - 1] * base + DigitValue(t[k]) \in Nat
      BY <2>1, <3>1 DEF Bases
    <3> QED
      BY <2>2, <2>3, <3>2
  <2> QED
    BY <2>1, <2>2, <2>3
<1>6. T \in SUBSET (0 .. Len(t))
  OBVIOUS
<1> HIDE DEF T
<1>7. T = 0 .. Len(t)
  BY <1>0, <1>4, <1>5, <1>6, UpTo
<1>8. \A k \in 0 .. Len(t) : v[k] \in Nat
  BY <1>7 DEF T
<1> QED
  BY <1>0, <1>2, <1>3, <1>8

\* The first characters of s \o t are those of s, the others those of t.
LEMMA PartsOf ==
  ASSUME NEW S, NEW s \in Seq(S), NEW t \in Seq(S)
  PROVE  /\ s \o t \in Seq(S) /\ Len(s \o t) = Len(s) + Len(t)
         /\ Len(s) \in Nat /\ Len(t) \in Nat
         /\ \A k \in 1 .. Len(s) : (s \o t)[k] = s[k]
         /\ \A k \in 1 .. Len(t) : (s \o t)[Len(s) + k] = t[k]
OBVIOUS

LEMMA ValueOfFirst ==
  ASSUME NEW S, NEW s \in Seq(S), NEW t \in Seq(S), NEW base \in Bases
  PROVE  Value(s \o t, base, Len(s)) = ValueOf(s, base)
<1> DEFINE T == {k \in 0 .. Len(s) : Value(s \o t, base, k) = Value(s, base, k)}
<1>0. /\ s \o t \in Seq(S) /\ Len(s \o t) = Len(s) + Len(t)
      /\ Len(s) \in Nat /\ Len(t) \in Nat
      /\ \A k \in 1 .. Len(s) : (s \o t)[k] = s[k]
  BY PartsOf
<1>1. 0 \in T
  <2>1. Value(s \o t, base, 0) = 0
    BY <1>0, ValueStep
  <2>2. Value(s, base, 0) = 0
    BY ValueStep
  <2> QED
    BY <1>0, <2>1, <2>2
<1>2. ASSUME NEW k \in 1 .. Len(s), k - 1 \in T PROVE k \in T
  <2>1. Value(s \o t, base, k - 1) = Value(s, base, k - 1) /\ (s \o t)[k] = s[k]
    BY <1>0, <1>2
  <2>2. k \in 1 .. Len(s \o t)
    BY <1>0
  <2>3. Value(s \o t, base, k) =
          IF (s \o t)[k] \notin Numerals(base) THEN Value(s \o t, base, k - 1)
          ELSE Value(s \o t, base, k - 1) * base + DigitValue((s \o t)[k])
    BY <1>0, <2>2, ValueStep
  <2>4. Value(s, base, k) = IF s[k] \notin Numerals(base) THEN Value(s, base, k - 1)
                            ELSE Value(s, base, k - 1) * base + DigitValue(s[k])
    BY ValueStep
  <2> QED
    BY <2>1, <2>3, <2>4
<1>3. T \in SUBSET (0 .. Len(s))
  OBVIOUS
<1> HIDE DEF T
<1>4. T = 0 .. Len(s)
  BY <1>0, <1>1, <1>2, <1>3, UpTo
<1>5. Value(s \o t, base, Len(s)) = Value(s, base, Len(s))
  BY <1>0, <1>4 DEF T
<1> QED
  BY <1>5, ValueStep

\* One character after the other, in the second part.
LEMMA ValueOfSecond ==
  ASSUME NEW S, NEW s \in Seq(S), NEW t \in Seq(S), NEW base \in Bases, NEW k \in 1 .. Len(t)
  PROVE  Value(s \o t, base, Len(s) + k) =
           IF t[k] \notin Numerals(base) THEN Value(s \o t, base, Len(s) + (k - 1))
           ELSE Value(s \o t, base, Len(s) + (k - 1)) * base + DigitValue(t[k])
<1>1. /\ s \o t \in Seq(S) /\ Len(s \o t) = Len(s) + Len(t)
      /\ Len(s) \in Nat /\ Len(t) \in Nat
      /\ (s \o t)[Len(s) + k] = t[k]
  BY PartsOf
<1>2. Len(s) + k \in 1 .. Len(s \o t) /\ (Len(s) + k) - 1 = Len(s) + (k - 1)
  BY <1>1
<1> QED
  BY <1>1, <1>2, ValueStep

\* What denotes nothing changes nothing in front of a numeral.
LEMMA ValueBehindNothing ==
  ASSUME NEW S, NEW s \in Seq(S), NEW t \in Seq(S), NEW base \in Bases,
         ValueOf(s, base) = 0
  PROVE  ValueOf(s \o t, base) = ValueOf(t, base)
<1> DEFINE T == {k \in 0 .. Len(t) : Value(s \o t, base, Len(s) + k) = Value(t, base, k)}
<1>0. s \o t \in Seq(S) /\ Len(s \o t) = Len(s) + Len(t) /\ Len(s) \in Nat /\ Len(t) \in Nat
  BY PartsOf
<1>1. 0 \in T
  <2>1. Value(s \o t, base, Len(s)) = 0 /\ Value(t, base, 0) = 0
    BY ValueOfFirst, ValueStep
  <2> QED
    BY <1>0, <2>1
<1>2. ASSUME NEW k \in 1 .. Len(t), k - 1 \in T PROVE k \in T
  <2>1. Value(s \o t, base, Len(s) + (k - 1)) = Value(t, base, k - 1)
    BY <1>2
  <2>2. Value(t, base, k) = IF t[k] \notin Numerals(base) THEN Value(t, base, k - 1)
                            ELSE Value(t, base, k - 1) * base + DigitValue(t[k])
    BY ValueStep
  <2> QED
    BY <2>1, <2>2, ValueOfSecond
<1>3. T \in SUBSET (0 .. Len(t))
  OBVIOUS
<1> HIDE DEF T
<1>4. T = 0 .. Len(t)
  BY <1>0, <1>1, <1>2, <1>3, UpTo
<1>5. Value(s \o t, base, Len(s) + Len(t)) = Value(t, base, Len(t))
  BY <1>0, <1>4 DEF T
<1> QED
  BY <1>0, <1>5, ValueStep

\* Digits in front of digits count as much more as there are digits.
LEMMA ValueBeforeDigits ==
  ASSUME NEW S, NEW s \in Seq(S), NEW t \in Seq(S), NEW base \in Bases,
         \A k \in 1 .. Len(t) : t[k] \in Numerals(base)
  PROVE  ValueOf(s \o t, base)
           = ValueOf(s, base) * Power(base, Len(t)) + ValueOf(t, base)
<1> DEFINE V == ValueOf(s, base)
           T == {k \in 0 .. Len(t) :
                   Value(s \o t, base, Len(s) + k) = V * Power(base, k) + Value(t, base, k)}
<1>0. s \o t \in Seq(S) /\ Len(s \o t) = Len(s) + Len(t) /\ Len(s) \in Nat /\ Len(t) \in Nat
  BY PartsOf
<1>1. base \in Nat /\ V \in Nat
  BY <1>0, ValueStep DEF Bases
<1>2. 0 \in T
  <2>1. Value(s \o t, base, Len(s)) = V /\ Value(t, base, 0) = 0 /\ Power(base, 0) = 1
    BY <1>1, ValueOfFirst, ValueStep, PowerStep
  <2>2. V * 1 + 0 = V /\ Len(s) + 0 = Len(s)
    BY <1>0, <1>1
  <2> QED
    BY <1>0, <2>1, <2>2
<1>3. ASSUME NEW k \in 1 .. Len(t), k - 1 \in T PROVE k \in T
  <2> DEFINE p == Power(base, k - 1)
             v == Value(t, base, k - 1)
             c == DigitValue(t[k])
  <2>1. Value(s \o t, base, Len(s) + (k - 1)) = V * p + v
    BY <1>3
  <2>2. t[k] \in Numerals(base) /\ c \in Nat
    BY <1>1, NumeralValues
  <2>3. Value(t, base, k) = v * base + c /\ v \in Nat
    BY <1>0, <2>2, ValueStep
  <2>4. Value(s \o t, base, Len(s) + k) = (V * p + v) * base + c
    BY <2>1, <2>2, ValueOfSecond
  <2>5. Power(base, k) = base * p /\ p \in Nat
    <3>1. k - 1 \in Nat /\ (k - 1) + 1 = k
      BY <1>0
    <3> QED
      BY <1>1, <3>1, PowerStep, PowerGrows
  <2> HIDE DEF p, v, c, V
  <2>6. (V * p + v) * base + c = V * (base * p) + (v * base + c)
    BY <1>1, <2>2, <2>3, <2>5 DEF Bases
  <2> QED
    BY <2>3, <2>4, <2>5, <2>6
<1>4. T \in SUBSET (0 .. Len(t))
  OBVIOUS
<1> HIDE DEF T, V
<1>5. T = 0 .. Len(t)
  BY <1>0, <1>2, <1>3, <1>4, UpTo
<1>6. Value(s \o t, base, Len(s) + Len(t)) = V * Power(base, Len(t)) + Value(t, base, Len(t))
  BY <1>0, <1>5 DEF T
<1> QED
  BY <1>0, <1>6, ValueStep DEF V

\* What a character denotes alone.
LEMMA ValueOfOne ==
  ASSUME NEW S, NEW c \in S, NEW base \in Bases
  PROVE  /\ <<c>> \in Seq(S) /\ Len(<<c>>) = 1
         /\ ValueOf(<<c>>, base) = IF c \in Numerals(base) THEN DigitValue(c) ELSE 0
<1>1. <<c>> \in Seq(S) /\ Len(<<c>>) = 1 /\ <<c>>[1] = c
  OBVIOUS
<1>2. /\ Value(<<c>>, base, 0) = 0
      /\ Value(<<c>>, base, 1) = IF c \notin Numerals(base) THEN Value(<<c>>, base, 0)
                                 ELSE Value(<<c>>, base, 0) * base + DigitValue(c)
      /\ ValueOf(<<c>>, base) = Value(<<c>>, base, 1)
  <2>1. 1 \in 1 .. Len(<<c>>) /\ 1 - 1 = 0
    BY <1>1
  <2> QED
    BY <1>1, <2>1, ValueStep
<1>3. c \in Numerals(base) => DigitValue(c) \in Nat /\ base \in Nat
  BY NumeralValues DEF Bases
<1> QED
  BY <1>1, <1>2, <1>3

\* What has no digits denotes nothing.
LEMMA ValueOfNoDigits ==
  ASSUME NEW S, NEW s \in Seq(S), NEW base \in Bases,
         \A k \in 1 .. Len(s) : s[k] \notin Numerals(base)
  PROVE  ValueOf(s, base) = 0
<1> DEFINE T == {k \in 0 .. Len(s) : Value(s, base, k) = 0}
<1>1. Len(s) \in Nat /\ 0 \in T /\ \A k \in 1 .. Len(s) : k - 1 \in T => k \in T
  BY ValueStep
<1>2. T \in SUBSET (0 .. Len(s))
  OBVIOUS
<1> HIDE DEF T
<1>3. T = 0 .. Len(s)
  BY <1>1, <1>2, UpTo
<1>4. Value(s, base, Len(s)) = 0
  BY <1>1, <1>3 DEF T
<1> QED
  BY <1>4, ValueStep

-----------------------------------------------------------------------------
(***************************************************************************)
(* The number that is being written, stage by stage, and those before it.  *)
(***************************************************************************)
\* What a formatter puts into its buffer.
Glyphs == {digits[k] : k \in 1 .. 16} \cup {" ", "-", "+", "o", "x"}
Letters == STRING \cup Glyphs

Figs == DigitsOf(arg.value, fmt.base)
HasMinus(t) == "-" \in ToSet(t)
Fits(a) == Max({a.spec.width, Needed(a)}) < Capacity
NoSign(a) == ~a.neg /\ ~a.spec.show_sign

\* A number that is printed denotes its argument.
Told(n) ==
  args[n].kind = "number" /\ Fits(args[n]) =>
    /\ Denotes(printed[n], args[n])
    /\ NoSign(args[n]) => Fills(printed[n], args[n])

InDigits ==
  pc = "digits" =>
    /\ \A k \in 1 .. Len(tmp) : tmp[k] \in Numerals(fmt.base)
    /\ Fits(arg) =>
         /\ arg.value = magnitude * Power(fmt.base, Len(tmp)) + ValueOf(tmp, fmt.base)
         /\ ValueOf(tmp, fmt.base) < Power(fmt.base, Len(tmp))
         /\ Len(tmp) <= 1 \/ Power(fmt.base, Len(tmp) - 1) <= arg.value

InZeros ==
  pc = "zeros" /\ Fits(arg) =>
    /\ ValueOf(tmp, fmt.base) = arg.value /\ ~HasMinus(tmp)
    /\ IF fmt.zero_pad /\ fmt.width > Figs
       THEN /\ Len(tmp) >= Figs /\ pad_size >= -1 /\ Len(tmp) + pad_size = fmt.width - 2
            /\ pad_size = -1 => Len(tmp) = Figs
       ELSE pad_size = 0 /\ Len(tmp) = Figs

InAlign ==
  pc = "align" /\ Fits(arg) =>
    /\ Denotes(tmp, arg)
    /\ NoSign(arg) => /\ Len(tmp) >= Needed(arg)
                      /\ Len(tmp) <= fmt.width \/ Len(tmp) <= Needed(arg)

InSpaces ==
  pc \in {"left", "right", "flush"} /\ Fits(arg) =>
    /\ pad_size \in Nat
    /\ Denotes(tmp, arg)
    /\ pad_size > 0 => Len(tmp) + pad_size <= fmt.width
    /\ NoSign(arg) =>
         Len(printed[i]) + pad_size + Len(tmp) = Max({fmt.width, Needed(arg)})

Writing ==
  pc # "walk" =>
    /\ pc \in {"digits", "zeros", "align", "left", "right", "flush"}
    /\ i > 0 /\ arg = args[i] /\ arg.kind = "number"
    /\ magnitude \in Nat /\ pad_size \in Int
    /\ tmp \in Seq(Glyphs)
    /\ printed[i] \in Seq({" "})
    /\ pc # "left" => printed[i] = <<>>
    /\ InDigits /\ InZeros /\ InAlign /\ InSpaces

ArgsOk ==
  /\ text \in Seq(STRING) /\ iter \in 1 .. Len(text) + 1
  /\ args \in Seq(ErasedArg)
  /\ \A n \in DOMAIN args : args[n].kind = "number" /\ args[n].spec.show_base => ~args[n].neg
  /\ i \in 0 .. Len(args)
  /\ printed \in Seq(Seq(Letters)) /\ Len(printed) = i

NumInv ==
  /\ ArgsOk
  /\ Writing
  /\ \A n \in 1 .. i : n < i \/ pc = "walk" => Told(n)

\* Maxima, lengths of numerals, and the characters of the buffer.

LEMMA MaxTwo ==
  ASSUME NEW a \in Int, NEW b \in Int
  PROVE  Max({a, b}) = IF a >= b THEN a ELSE b
BY DEF Max

LEMMA DigitsOfOk ==
  ASSUME NEW base \in Bases, NEW n \in Nat
  PROVE  /\ DigitsOf(n, base) \in Nat \ {0}
         /\ n < Power(base, DigitsOf(n, base))
         /\ DigitsOf(n, base) = 1 \/ n >= Power(base, DigitsOf(n, base) - 1)
<1> DEFINE T == {k \in 1 .. n + 1 : n < Power(base, k)}
<1>1. n + 1 \in T
  <2>1. n + 1 < Power(base, n + 1) /\ Power(base, n + 1) \in Nat
    BY PowerGrows
  <2> QED
    BY <2>1
<1>2. T \in SUBSET Nat
  OBVIOUS
<1>3. PICK k \in T : \A y \in T : k <= y
  <2> HIDE DEF T
  <2> QED
    BY <1>1, <1>2, LeastElement
<1>4. k = 1 \/ n >= Power(base, k - 1)
  <2> SUFFICES ASSUME k # 1 PROVE n >= Power(base, k - 1)
    OBVIOUS
  <2>1. k - 1 \in 1 .. n + 1 /\ k - 1 \notin T
    BY <1>3
  <2>2. Power(base, k - 1) \in Nat
    BY <2>1, PowerGrows
  <2> QED
    BY <2>1, <2>2
<1>5. k \in 1 .. n + 1 /\ n < Power(base, k)
  OBVIOUS
<1> HIDE DEF T
<1>6. /\ DigitsOf(n, base) \in 1 .. n + 1
      /\ n < Power(base, DigitsOf(n, base))
      /\ DigitsOf(n, base) = 1 \/ n >= Power(base, DigitsOf(n, base) - 1)
  BY <1>4, <1>5 DEF DigitsOf
<1> QED
  BY <1>6

\* A value with a power below it has more digits.
LEMMA MoreDigits ==
  ASSUME NEW base \in Bases, NEW n \in Nat, NEW k \in Nat, Power(base, k) <= n
  PROVE  k < DigitsOf(n, base)
<1> DEFINE D == DigitsOf(n, base)
<1>1. D \in Nat /\ n < Power(base, D)
  BY DigitsOfOk
<1> HIDE DEF D
<1>2. D <= k => Power(base, D) <= Power(base, k)
  BY <1>1, PowerGrows
<1>3. Power(base, D) \in Nat /\ Power(base, k) \in Nat
  BY <1>1, PowerGrows
<1>4. D > k
  BY <1>1, <1>2, <1>3
<1> QED
  BY <1>1, <1>4 DEF D

LEMMA AsManyDigits ==
  ASSUME NEW base \in Bases, NEW n \in Nat, NEW k \in Nat \ {0},
         n < Power(base, k), k = 1 \/ Power(base, k - 1) <= n
  PROVE  DigitsOf(n, base) = k
<1> DEFINE D == DigitsOf(n, base)
<1>1. D \in Nat \ {0} /\ (D = 1 \/ n >= Power(base, D - 1))
  BY DigitsOfOk
<1>2. k - 1 < D
  <2>1. CASE k = 1
    BY <1>1, <2>1
  <2>2. CASE k # 1
    BY <2>2, MoreDigits
  <2> QED
    BY <2>1, <2>2
<1> HIDE DEF D
<1>3. ~(k < D)
  <2> SUFFICES ASSUME k < D PROVE FALSE
    OBVIOUS
  <2>1. D - 1 \in Nat /\ k \in 0 .. D - 1 /\ n >= Power(base, D - 1)
    BY <1>1
  <2>2. Power(base, k) <= Power(base, D - 1)
    BY <2>1, PowerGrows
  <2>3. Power(base, k) \in Nat /\ Power(base, D - 1) \in Nat
    BY <2>1, PowerGrows
  <2> QED
    BY <2>1, <2>2, <2>3
<1>4. D = k
  BY <1>1, <1>2, <1>3
<1> QED
  BY <1>4 DEF D

LEMMA GlyphsAre ==
  ASSUME NEW base \in Bases
  PROVE  /\ Numerals(base) \subseteq Glyphs
         /\ " " \in Glyphs /\ "-" \in Glyphs /\ "+" \in Glyphs /\ "0" \in Glyphs
         /\ base # 10 => Prefix(base) \in Glyphs /\ Prefix(base) # "-"
<1>1. base \in Nat /\ 1 .. base \subseteq 1 .. 16
  BY DEF Bases
<1>2. Numerals(base) \subseteq Glyphs
  BY <1>1 DEF Numerals, Glyphs
<1>3. "0" \in Glyphs
  BY <1>2, ZeroIsNumeral
<1>4. "b" \in Glyphs
  <2>1. digits[12] = "b"
    BY DEF digits
  <2> QED
    BY <2>1 DEF Glyphs
<1>5. base # 10 => Prefix(base) \in {"b", "o", "x"}
  BY DEF Prefix, Bases
<1> QED
  BY <1>2, <1>3, <1>4, <1>5 DEF Glyphs

\* What fits is put in front.
LEMMA PutcPuts ==
  ASSUME NEW t \in Seq(Glyphs), NEW c \in Glyphs
  PROVE  /\ putc(t, c) \in Seq(Glyphs)
         /\ putc(t, c) = t \/ putc(t, c) = <<c>> \o t
         /\ Len(t) < Capacity =>
              /\ putc(t, c) = <<c>> \o t /\ Len(putc(t, c)) = Len(t) + 1
              /\ HasMinus(putc(t, c)) <=> c = "-" \/ HasMinus(t)
<1>1. <<c>> \in Seq(Glyphs) /\ Len(<<c>>) = 1 /\ <<c>>[1] = c /\ Len(t) \in Nat
  OBVIOUS
<1> DEFINE u == <<c>> \o t
<1>2. /\ u \in Seq(Glyphs) /\ Len(u) = 1 + Len(t)
      /\ u[1] = c
      /\ \A k \in 1 .. Len(t) : u[1 + k] = t[k]
  BY <1>1, PartsOf
<1> HIDE DEF u
<1>3. HasMinus(u) <=> c = "-" \/ HasMinus(t)
  <2>1. ASSUME NEW k \in DOMAIN u
        PROVE  \/ k = 1 /\ u[k] = c
               \/ k - 1 \in DOMAIN t /\ u[k] = t[k - 1]
    <3>1. k \in 1 .. 1 + Len(t) /\ DOMAIN t = 1 .. Len(t)
      BY <1>1, <1>2
    <3>2. CASE k = 1
      BY <1>1, <1>2, <3>2
    <3>3. CASE k # 1
      <4>1. k - 1 \in 1 .. Len(t) /\ 1 + (k - 1) = k
        BY <1>1, <3>1, <3>3
      <4> QED
        BY <1>2, <3>1, <4>1
    <3> QED
      BY <3>2, <3>3
  <2>2. 1 \in DOMAIN u /\ u[1] = c /\ \A k \in DOMAIN t : k + 1 \in DOMAIN u /\ u[k + 1] = t[k]
    BY <1>1, <1>2
  <2> QED
    BY <2>1, <2>2 DEF HasMinus, ToSet
<1> QED
  BY <1>1, <1>2, <1>3 DEF putc, u

LEMMA PutcValue ==
  ASSUME NEW t \in Seq(Glyphs), NEW c \in Glyphs, NEW base \in Bases,
         Len(t) < Capacity
  PROVE  /\ c = "0" \/ c \notin Numerals(base) => ValueOf(putc(t, c), base) = ValueOf(t, base)
         /\ c \in Numerals(base) /\ (\A k \in 1 .. Len(t) : t[k] \in Numerals(base)) =>
              ValueOf(putc(t, c), base)
                = DigitValue(c) * Power(base, Len(t)) + ValueOf(t, base)
<1>1. putc(t, c) = <<c>> \o t
  BY PutcPuts
<1>2. /\ <<c>> \in Seq(Glyphs) /\ Len(<<c>>) = 1
      /\ ValueOf(<<c>>, base) = IF c \in Numerals(base) THEN DigitValue(c) ELSE 0
  BY ValueOfOne
<1>3. c = "0" \/ c \notin Numerals(base) => ValueOf(<<c>>, base) = 0
  BY <1>2, ZeroIsNumeral
<1>4. ASSUME ValueOf(<<c>>, base) = 0
      PROVE  ValueOf(<<c>> \o t, base) = ValueOf(t, base)
  BY <1>2, <1>4, ValueBehindNothing
<1>5. ASSUME c \in Numerals(base), \A k \in 1 .. Len(t) : t[k] \in Numerals(base)
      PROVE  ValueOf(<<c>> \o t, base)
               = DigitValue(c) * Power(base, Len(t)) + ValueOf(t, base)
  BY <1>2, <1>5, ValueBeforeDigits
<1> QED
  BY <1>1, <1>3, <1>4, <1>5

-----------------------------------------------------------------------------
(***************************************************************************)
(* The steps of the formatter.                                             *)
(***************************************************************************)
LEMMA ArgFacts ==
  ASSUME ArgsOk, NEW n \in 1 .. i, args[n].kind = "number"
  PROVE  /\ args[n].value \in Nat /\ args[n].neg \in BOOLEAN
         /\ args[n].spec \in FmtSpec /\ args[n].spec.base \in Bases
         /\ args[n].spec.width \in Nat
         /\ args[n].spec.show_base => ~args[n].neg
<1>1. n \in DOMAIN args /\ args[n] \in ErasedArg
  BY DEF ArgsOk
<1>2. args[n] \in [kind : {"number"}, value : Nat, neg : BOOLEAN, spec : FmtSpec]
  BY <1>1 DEF ErasedArg
<1>3. args[n].spec.base \in Bases
  BY <1>2 DEF FmtSpec, Bases
<1>4. args[n].spec.show_base => ~args[n].neg
  BY <1>1 DEF ArgsOk
<1> QED
  BY <1>2, <1>3, <1>4 DEF FmtSpec

LEMMA NeededFacts ==
  ASSUME NEW a, a.value \in Nat, a.spec.base \in Bases, a.spec.width \in Nat
  PROVE  /\ DigitsOf(a.value, a.spec.base) \in Nat \ {0}
         /\ Needed(a) = DigitsOf(a.value, a.spec.base)
              + (IF HasPrefix(a) THEN 2 ELSE IF a.neg \/ a.spec.show_sign THEN 1 ELSE 0)
         /\ Needed(a) \in Nat
         /\ Max({a.spec.width, Needed(a)})
              = IF a.spec.width >= Needed(a) THEN a.spec.width ELSE Needed(a)
         /\ Fits(a) => a.spec.width < Capacity /\ Needed(a) < Capacity
<1>1. DigitsOf(a.value, a.spec.base) \in Nat \ {0}
  BY DigitsOfOk
<1>2. Needed(a) = DigitsOf(a.value, a.spec.base)
        + (IF HasPrefix(a) THEN 2 ELSE IF a.neg \/ a.spec.show_sign THEN 1 ELSE 0)
  BY DEF Needed
<1>3. Needed(a) \in Nat
  BY <1>1, <1>2
<1>4. Max({a.spec.width, Needed(a)})
        = IF a.spec.width >= Needed(a) THEN a.spec.width ELSE Needed(a)
  BY <1>3, MaxTwo
<1> QED
  BY <1>1, <1>2, <1>3, <1>4, RoomForADigit DEF Fits

\* All that is known while a number is written.
LEMMA WritingFacts ==
  ASSUME NumInv, pc # "walk"
  PROVE  /\ i \in 1 .. Len(args) /\ i \in 1 .. Len(printed) /\ arg = args[i]
         /\ arg.value \in Nat /\ arg.neg \in BOOLEAN
         /\ fmt = arg.spec /\ fmt \in FmtSpec /\ fmt.base \in Bases /\ fmt.width \in Nat
         /\ fmt.zero_pad \in BOOLEAN /\ fmt.show_sign \in BOOLEAN /\ fmt.show_base \in BOOLEAN
         /\ fmt.align \in {"left", "right"}
         /\ fmt.show_base => ~arg.neg
         /\ magnitude \in Nat /\ pad_size \in Int
         /\ tmp \in Seq(Glyphs) /\ Len(tmp) \in Nat
         /\ Figs = DigitsOf(arg.value, fmt.base) /\ Figs \in Nat \ {0}
         /\ Needed(arg) \in Nat
         /\ Needed(arg) = Figs + (IF HasPrefix(arg) THEN 2
                                  ELSE IF arg.neg \/ fmt.show_sign THEN 1 ELSE 0)
         /\ Max({fmt.width, Needed(arg)})
              = IF fmt.width >= Needed(arg) THEN fmt.width ELSE Needed(arg)
         /\ Fits(arg) => fmt.width < Capacity /\ Needed(arg) < Capacity
         /\ Capacity \in Nat \ {0}
<1>1. /\ i \in 1 .. i /\ i \in 1 .. Len(args) /\ i \in 1 .. Len(printed) /\ ArgsOk
      /\ arg = args[i] /\ args[i].kind = "number"
      /\ magnitude \in Nat /\ pad_size \in Int /\ tmp \in Seq(Glyphs)
  <2>1. ArgsOk /\ Writing
    BY DEF NumInv
  <2>2. args \in Seq(ErasedArg) /\ i \in 0 .. Len(args) /\ Len(printed) = i
    BY <2>1 DEF ArgsOk
  <2>3. Len(args) \in Nat
    BY <2>2
  <2>4. /\ i > 0 /\ arg = args[i] /\ arg.kind = "number"
        /\ magnitude \in Nat /\ pad_size \in Int /\ tmp \in Seq(Glyphs)
    BY <2>1 DEF Writing
  <2>5. i \in 1 .. i /\ i \in 1 .. Len(args) /\ i \in 1 .. Len(printed)
    BY <2>2, <2>3, <2>4
  <2> QED
    BY <2>1, <2>4, <2>5
<1>2. /\ arg.value \in Nat /\ arg.neg \in BOOLEAN
      /\ fmt = arg.spec /\ fmt \in FmtSpec /\ fmt.base \in Bases /\ fmt.width \in Nat
      /\ fmt.show_base => ~arg.neg
  BY <1>1, ArgFacts DEF fmt
<1>3. /\ fmt.zero_pad \in BOOLEAN /\ fmt.show_sign \in BOOLEAN /\ fmt.show_base \in BOOLEAN
      /\ fmt.align \in {"left", "right"}
  BY <1>2 DEF FmtSpec
<1>4. /\ Figs = DigitsOf(arg.value, fmt.base) /\ Figs \in Nat \ {0}
      /\ Needed(arg) \in Nat
      /\ Needed(arg) = Figs + (IF HasPrefix(arg) THEN 2
                               ELSE IF arg.neg \/ fmt.show_sign THEN 1 ELSE 0)
      /\ Max({fmt.width, Needed(arg)})
           = IF fmt.width >= Needed(arg) THEN fmt.width ELSE Needed(arg)
      /\ Fits(arg) => fmt.width < Capacity /\ Needed(arg) < Capacity
  BY <1>2, NeededFacts DEF Figs
<1>5. Len(tmp) \in Nat
  BY <1>1
<1> QED
  BY <1>1, <1>2, <1>3, <1>4, <1>5, RoomForADigit

\* While one is written, the numbers before it stay what they are.
LEMMA SameBefore ==
  ASSUME NumInv, pc # "walk", UNCHANGED <<walk, printed>>, Writing', pc' # "walk"
  PROVE  NumInv'
<1>1. UNCHANGED <<text, iter, args, i, printed>>
  BY DEF walk
<1>2. ArgsOk'
  BY <1>1 DEF NumInv, ArgsOk
<1>3. ASSUME NEW n \in 1 .. i, n < i PROVE Told(n)'
  <2>1. Told(n)
    BY <1>3 DEF NumInv
  <2> QED
    BY <1>1, <2>1 DEF Told
<1> QED
  BY <1>1, <1>2, <1>3 DEF NumInv

LEMMA DivMod ==
  ASSUME NEW b \in Bases, NEW m \in Nat
  PROVE  /\ m \div b \in Nat /\ m % b \in 0 .. b - 1 /\ b \in 1 .. 16
         /\ m = b * (m \div b) + (m % b)
<1>1. b \in Nat \ {0} /\ b \in 1 .. 16
  BY DEF Bases
<1> QED
  BY <1>1 DEF Bases

\* One more digit in front of those there are.
LEMMA DigitArith ==
  ASSUME NEW b \in Bases, NEW m \in Nat, NEW p \in Nat, NEW v \in Nat, v < p
  PROVE  /\ m \div b \in Nat /\ m % b \in 0 .. b - 1 /\ b \in Nat
         /\ m * p + v = (m \div b) * (b * p) + ((m % b) * p + v)
         /\ (m % b) * p + v < b * p
<1>1. b \in Nat \ {0} /\ b - 1 \in Nat
  BY DEF Bases
<1>2. m \div b \in Nat /\ m % b \in 0 .. b - 1 /\ m = b * (m \div b) + (m % b)
  BY <1>1 DEF Bases
<1> DEFINE q == m \div b
           r == m % b
<1>3. q \in Nat /\ r \in 0 .. b - 1 /\ m = b * q + r
  BY <1>2
<1> HIDE DEF q, r
<1>4. (b * q + r) * p + v = q * (b * p) + (r * p + v)
  BY <1>1, <1>3
<1>5. r * p + v < b * p
  <2>1. (b - 1 - r) * p >= 0
    BY <1>1, <1>3
  <2>2. (b - 1 - r) * p = b * p - p - r * p
    BY <1>1, <1>3
  <2> QED
    BY <1>1, <1>3, <2>1, <2>2
<1>6. m * p + v = q * (b * p) + (r * p + v)
  BY <1>3, <1>4
<1> QED
  BY <1>1, <1>3, <1>5, <1>6 DEF q, r

LEMMA PutDigitNum ==
  ASSUME NumInv, PutDigit, UNCHANGED walk
  PROVE  NumInv'
<1> DEFINE b == fmt.base
           c == digits[(magnitude % b) + 1]
           p == Power(b, Len(tmp))
           v == ValueOf(tmp, b)
<1>0. /\ pc = "digits" /\ pc' = pc /\ arg' = arg /\ printed' = printed /\ args' = args /\ i' = i
      /\ tmp' = putc(tmp, c) /\ magnitude' = magnitude \div b /\ pad_size' = pad_size
      /\ magnitude > 0 \/ tmp = <<>>
  BY DEF PutDigit, walk
<1>1. /\ b \in Bases /\ magnitude \in Nat /\ tmp \in Seq(Glyphs) /\ Len(tmp) \in Nat
      /\ arg.value \in Nat
  BY <1>0, WritingFacts
<1>2. /\ \A k \in 1 .. Len(tmp) : tmp[k] \in Numerals(b)
      /\ Fits(arg) => /\ arg.value = magnitude * p + v /\ v < p
                      /\ Len(tmp) <= 1 \/ Power(b, Len(tmp) - 1) <= arg.value
  BY <1>0 DEF NumInv, Writing, InDigits
<1>3. p \in Nat \ {0} /\ v \in Nat /\ Power(b, Len(tmp) + 1) = b * p
  <2>1. b \in Nat /\ Len(tmp) \in Nat
    BY <1>1 DEF Bases
  <2>2. Len(tmp) \in 0 .. Len(tmp)
    BY <1>1
  <2>3. v = Value(tmp, b, Len(tmp)) /\ Value(tmp, b, Len(tmp)) \in Nat
    BY <1>1, <2>2, ValueStep
  <2> QED
    BY <1>1, <2>1, <2>3, PowerStep, PowerGrows
<1>4. c \in Numerals(b) /\ DigitValue(c) = magnitude % b /\ c \in Glyphs
  <2>0. magnitude % b \in 0 .. b - 1 /\ b \in 1 .. 16
    BY <1>1, DivMod
  <2>1. /\ (magnitude % b) + 1 \in 1 .. b /\ (magnitude % b) + 1 \in 1 .. 16
        /\ ((magnitude % b) + 1) - 1 = magnitude % b
    BY <2>0
  <2>2. c \in Numerals(b)
    BY <2>1 DEF Numerals
  <2>3. DigitValue(c) = magnitude % b
    BY <2>1, DigitValues
  <2>4. c \in Glyphs
    BY <1>1, <2>2, GlyphsAre
  <2> QED
    BY <2>2, <2>3, <2>4
<1> HIDE DEF b, c, p, v
<1>5. tmp' \in Seq(Glyphs) /\ magnitude' \in Nat
  BY <1>0, <1>1, <1>4, PutcPuts, DivMod
<1>6. \A k \in 1 .. Len(tmp') : tmp'[k] \in Numerals(b)
  <2>1. CASE tmp' = tmp
    BY <1>2, <2>1
  <2>2. CASE tmp' = <<c>> \o tmp
    <3>1. <<c>> \in Seq(Glyphs) /\ Len(<<c>>) = 1 /\ <<c>>[1] = c
      BY <1>4
    <3>2. \A k \in 1 .. Len(tmp') : k = 1 \/ k - 1 \in 1 .. Len(tmp)
      BY <1>1, <2>2, <3>1, PartsOf
    <3>3. tmp'[1] = c /\ \A k \in 1 .. Len(tmp) : tmp'[k + 1] = tmp[k]
      BY <1>1, <2>2, <3>1
    <3>4. \A k \in 1 .. Len(tmp) : tmp'[k + 1] \in Numerals(b)
      BY <1>2, <3>3
    <3>5. \A k \in 1 .. Len(tmp') : k = 1 \/ (k - 1) + 1 = k
      BY <3>2
    <3> QED
      BY <1>4, <3>2, <3>3, <3>4, <3>5
  <2> QED
    BY <1>0, <1>1, <1>4, <2>1, <2>2, PutcPuts
<1>7. ASSUME Fits(arg)
      PROVE  /\ arg.value = magnitude' * Power(b, Len(tmp')) + ValueOf(tmp', b)
             /\ ValueOf(tmp', b) < Power(b, Len(tmp'))
             /\ Len(tmp') <= 1 \/ Power(b, Len(tmp') - 1) <= arg.value
  <2>1. Len(tmp) = 0 \/ p <= arg.value
    <3>1. CASE tmp = <<>>
      BY <3>1
    <3>2. CASE tmp # <<>>
      <4>1. magnitude >= 1
        BY <1>0, <1>1, <3>2
      <4>2. magnitude * p >= p
        BY <1>1, <1>3, <4>1
      <4> QED
        BY <1>1, <1>2, <1>3, <1>7, <4>2
    <3> QED
      BY <3>1, <3>2
  <2>2. Len(tmp) < Capacity
    <3>1. CASE Len(tmp) = 0
      BY <3>1, RoomForADigit
    <3>2. CASE Len(tmp) # 0
      <4>1. Len(tmp) < DigitsOf(arg.value, b)
        BY <1>1, <2>1, <3>2, MoreDigits DEF p
      <4>2. /\ Figs = DigitsOf(arg.value, b) /\ Figs \in Nat /\ Needed(arg) \in Nat
            /\ Needed(arg) >= Figs /\ Needed(arg) < Capacity
        BY <1>0, <1>7, WritingFacts DEF b
      <4> QED
        BY <1>1, <4>1, <4>2, RoomForADigit
    <3> QED
      BY <3>1, <3>2
  <2>3. Len(tmp') = Len(tmp) + 1 /\ ValueOf(tmp', b) = DigitValue(c) * p + v
    BY <1>0, <1>1, <1>2, <1>4, <2>2, PutcPuts, PutcValue DEF p, v
  <2>4. /\ magnitude * p + v = (magnitude \div b) * (b * p) + ((magnitude % b) * p + v)
        /\ (magnitude % b) * p + v < b * p
    <3>1. v < p /\ b \in Bases /\ magnitude \in Nat /\ p \in Nat /\ v \in Nat
      BY <1>1, <1>2, <1>3, <1>7
    <3> QED
      BY <3>1, DigitArith
  <2>5. arg.value = magnitude * p + v
    BY <1>2, <1>7
  <2>6. (Len(tmp) + 1) - 1 = Len(tmp) /\ (Len(tmp) = 0 => Len(tmp) + 1 <= 1)
    BY <1>1
  <2> QED
    BY <1>0, <1>3, <1>4, <2>1, <2>3, <2>4, <2>5, <2>6 DEF p
<1>8. InDigits'
  <2>1. fmt' = fmt /\ Fits(arg)' = Fits(arg)
    BY <1>0 DEF fmt, Fits, Needed, HasPrefix
  <2> QED
    BY <1>0, <1>6, <1>7, <2>1 DEF InDigits, b
<1>9. Writing'
  <2>1. i > 0 /\ arg = args[i] /\ arg.kind = "number" /\ pad_size \in Int
        /\ printed[i] \in Seq({" "}) /\ printed[i] = <<>>
    BY <1>0 DEF NumInv, Writing
  <2>2. InZeros' /\ InAlign' /\ InSpaces'
    BY <1>0 DEF InZeros, InAlign, InSpaces
  <2> QED
    BY <1>0, <1>5, <1>8, <2>1, <2>2 DEF Writing
<1> QED
  BY <1>0, <1>9, SameBefore

LEMMA SameArg ==
  ASSUME arg' = arg
  PROVE  /\ fmt' = fmt /\ Figs' = Figs /\ Fits(arg)' = Fits(arg)
         /\ Needed(arg)' = Needed(arg) /\ NoSign(arg)' = NoSign(arg)
BY DEF fmt, Figs, Fits, Needed, HasPrefix, NoSign

\* Of the digits of a base none is a minus sign.
LEMMA DigitsHaveNoMinus ==
  ASSUME NEW base \in Bases, NEW t, \A k \in DOMAIN t : t[k] \in Numerals(base)
  PROVE  ~HasMinus(t)
BY NoNumerals DEF HasMinus, ToSet

LEMMA EndDigitsNum ==
  ASSUME NumInv, EndDigits, UNCHANGED walk
  PROVE  NumInv'
<1>0. /\ pc = "digits" /\ pc' = "zeros" /\ arg' = arg /\ printed' = printed /\ args' = args
      /\ i' = i /\ tmp' = tmp /\ magnitude' = magnitude /\ pad_size' = Zeros
      /\ magnitude = 0 /\ tmp # <<>>
  BY DEF EndDigits, walk
<1>1. /\ fmt.base \in Bases /\ tmp \in Seq(Glyphs) /\ Len(tmp) \in Nat /\ arg.value \in Nat
      /\ fmt.width \in Nat /\ fmt.zero_pad \in BOOLEAN
      /\ Figs = DigitsOf(arg.value, fmt.base) /\ Figs \in Nat \ {0}
  BY <1>0, WritingFacts
<1>2. Zeros = IF fmt.zero_pad /\ fmt.width > Len(tmp) THEN fmt.width - Len(tmp) - 2 ELSE 0
  BY DEF Zeros, Short
<1>3. Len(tmp) \in Nat \ {0}
  BY <1>0, <1>1
<1>4. Zeros \in Int
  BY <1>1, <1>2, <1>3
<1>5. ASSUME Fits(arg)
      PROVE  ValueOf(tmp, fmt.base) = arg.value /\ ~HasMinus(tmp) /\ Len(tmp) = Figs
  <2> DEFINE p == Power(fmt.base, Len(tmp))
             v == ValueOf(tmp, fmt.base)
  <2>1. /\ \A k \in 1 .. Len(tmp) : tmp[k] \in Numerals(fmt.base)
        /\ arg.value = magnitude * p + v /\ v < p
        /\ Len(tmp) <= 1 \/ Power(fmt.base, Len(tmp) - 1) <= arg.value
    BY <1>0, <1>5 DEF NumInv, Writing, InDigits
  <2>2. p \in Nat /\ v \in Nat
    <3>1. v = Value(tmp, fmt.base, Len(tmp)) /\ Len(tmp) \in 0 .. Len(tmp)
      BY <1>1, ValueStep
    <3> QED
      BY <1>1, <3>1, ValueStep, PowerGrows
  <2> HIDE DEF p, v
  <2>3. arg.value = v
    BY <1>0, <2>1, <2>2
  <2>4. ~HasMinus(tmp)
    <3>1. DOMAIN tmp = 1 .. Len(tmp)
      BY <1>1
    <3> QED
      BY <1>1, <2>1, <3>1, DigitsHaveNoMinus
  <2>5. arg.value < Power(fmt.base, Len(tmp))
    BY <2>1, <2>3 DEF p
  <2>6. Len(tmp) = 1 \/ Power(fmt.base, Len(tmp) - 1) <= arg.value
    <3> DEFINE n == Len(tmp)
               q == Power(fmt.base, n - 1) <= arg.value
    <3>1. n \in Nat \ {0} /\ (n <= 1 \/ q)
      BY <1>3, <2>1
    <3> HIDE DEF n, q
    <3>2. n = 1 \/ q
      BY <3>1
    <3> QED
      BY <3>2 DEF n, q
  <2>7. Figs = Len(tmp)
    BY <1>1, <1>3, <2>5, <2>6, AsManyDigits
  <2> QED
    BY <2>3, <2>4, <2>7 DEF v
<1>6. ASSUME Fits(arg)
      PROVE  IF fmt.zero_pad /\ fmt.width > Figs
             THEN /\ Len(tmp) >= Figs /\ Zeros >= -1 /\ Len(tmp) + Zeros = fmt.width - 2
                  /\ Zeros = -1 => Len(tmp) = Figs
             ELSE Zeros = 0 /\ Len(tmp) = Figs
  BY <1>1, <1>2, <1>5, <1>6
<1>7. InZeros'
  BY <1>0, <1>5, <1>6, SameArg DEF InZeros
<1>8. Writing'
  <2>1. /\ i > 0 /\ arg = args[i] /\ arg.kind = "number" /\ magnitude \in Nat
        /\ printed[i] \in Seq({" "}) /\ printed[i] = <<>>
    BY <1>0 DEF NumInv, Writing
  <2>2. InDigits' /\ InAlign' /\ InSpaces'
    BY <1>0 DEF InDigits, InAlign, InSpaces
  <2> QED
    BY <1>0, <1>1, <1>4, <1>7, <2>1, <2>2 DEF Writing
<1> QED
  BY <1>0, <1>8, SameBefore

\* What is known while zeros are put, of a number that fits.
LEMMA ZerosFacts ==
  ASSUME NumInv, pc = "zeros", Fits(arg)
  PROVE  /\ ValueOf(tmp, fmt.base) = arg.value /\ ~HasMinus(tmp)
         /\ IF fmt.zero_pad /\ fmt.width > Figs
            THEN /\ Len(tmp) >= Figs /\ pad_size >= -1 /\ Len(tmp) + pad_size = fmt.width - 2
                 /\ pad_size = -1 => Len(tmp) = Figs
            ELSE pad_size = 0 /\ Len(tmp) = Figs
BY DEF NumInv, Writing, InZeros

LEMMA PutZeroNum ==
  ASSUME NumInv, PutZero, UNCHANGED walk
  PROVE  NumInv'
<1>0. /\ pc = "zeros" /\ pc' = pc /\ arg' = arg /\ printed' = printed /\ args' = args
      /\ i' = i /\ tmp' = putc(tmp, "0") /\ magnitude' = magnitude
      /\ pad_size > 0 /\ pad_size' = pad_size - 1
  BY DEF PutZero, walk
<1>1. /\ fmt.base \in Bases /\ tmp \in Seq(Glyphs) /\ Len(tmp) \in Nat /\ pad_size \in Int
      /\ fmt.width \in Nat /\ fmt.zero_pad \in BOOLEAN /\ Figs \in Nat \ {0}
      /\ Capacity \in Nat /\ (Fits(arg) => fmt.width < Capacity)
  BY <1>0, WritingFacts
<1>2. "0" \in Glyphs /\ tmp' \in Seq(Glyphs)
  BY <1>0, <1>1, GlyphsAre, PutcPuts
<1>3. ASSUME Fits(arg)
      PROVE  /\ ValueOf(tmp', fmt.base) = arg.value /\ ~HasMinus(tmp')
             /\ fmt.zero_pad /\ fmt.width > Figs
             /\ Len(tmp') >= Figs /\ pad_size' >= -1 /\ Len(tmp') + pad_size' = fmt.width - 2
             /\ pad_size' = -1 => Len(tmp') = Figs
  <2>1. /\ fmt.zero_pad /\ fmt.width > Figs
        /\ Len(tmp) >= Figs /\ Len(tmp) + pad_size = fmt.width - 2
    BY <1>0, <1>1, <1>3, ZerosFacts
  <2>2. Len(tmp) < Capacity
    BY <1>0, <1>1, <1>3, <2>1
  <2>3. Len(tmp') = Len(tmp) + 1 /\ (HasMinus(tmp') <=> HasMinus(tmp))
    BY <1>0, <1>1, <1>2, <2>2, PutcPuts
  <2>4. ValueOf(tmp', fmt.base) = ValueOf(tmp, fmt.base)
    BY <1>0, <1>1, <1>2, <2>2, PutcValue
  <2> QED
    BY <1>0, <1>1, <1>3, <2>1, <2>3, <2>4, ZerosFacts
<1>4. InZeros'
  BY <1>0, <1>3, SameArg DEF InZeros
<1>5. Writing'
  <2>1. /\ i > 0 /\ arg = args[i] /\ arg.kind = "number" /\ magnitude \in Nat
        /\ printed[i] \in Seq({" "}) /\ printed[i] = <<>>
    BY <1>0 DEF NumInv, Writing
  <2>2. InDigits' /\ InAlign' /\ InSpaces'
    BY <1>0 DEF InDigits, InAlign, InSpaces
  <2>3. pad_size' \in Int
    BY <1>0, <1>1
  <2> QED
    BY <1>0, <1>2, <1>4, <2>1, <2>2, <2>3 DEF Writing
<1> QED
  BY <1>0, <1>5, SameBefore

LEMMA PutPrefixNum ==
  ASSUME NumInv, PutPrefix, UNCHANGED walk
  PROVE  NumInv'
<1> DEFINE c == Prefix(fmt.base)
           t == putc(tmp, c)
<1>0. /\ pc = "zeros" /\ pc' = "align" /\ arg' = arg /\ printed' = printed /\ args' = args
      /\ i' = i /\ tmp' = putc(t, "0") /\ magnitude' = magnitude
      /\ pad_size <= 0 /\ pad_size' = pad_size
      /\ fmt.base # 10 /\ fmt.show_base
  BY DEF PutPrefix, walk
<1>1. /\ fmt.base \in Bases /\ tmp \in Seq(Glyphs) /\ Len(tmp) \in Nat /\ pad_size \in Int
      /\ fmt.width \in Nat /\ fmt.zero_pad \in BOOLEAN /\ Figs \in Nat \ {0}
      /\ Capacity \in Nat /\ (Fits(arg) => fmt.width < Capacity /\ Needed(arg) < Capacity)
      /\ arg.neg = FALSE /\ fmt = arg.spec
      /\ Needed(arg) = Figs + (IF HasPrefix(arg) THEN 2
                               ELSE IF arg.neg \/ fmt.show_sign THEN 1 ELSE 0)
  BY <1>0, WritingFacts
<1>2. Needed(arg) = Figs + 2
  BY <1>0, <1>1 DEF HasPrefix
<1>3. c \in Glyphs /\ c # "-" /\ c \notin Numerals(fmt.base) /\ "0" \in Glyphs
  BY <1>0, <1>1, GlyphsAre, NoNumerals
<1> HIDE DEF c
<1>4. t \in Seq(Glyphs)
  BY <1>1, <1>3, PutcPuts
<1>5. ASSUME Fits(arg)
      PROVE  /\ ValueOf(tmp', fmt.base) = arg.value /\ ~HasMinus(tmp')
             /\ Len(tmp') >= Needed(arg)
             /\ Len(tmp') <= fmt.width \/ Len(tmp') <= Needed(arg)
  <2>1. \/ Len(tmp) = Figs
        \/ Len(tmp) >= Figs /\ Len(tmp) = fmt.width - 2
    BY <1>0, <1>1, <1>5, ZerosFacts
  <2>2. Len(tmp) < Capacity /\ Len(tmp) + 1 < Capacity
    BY <1>1, <1>2, <1>5, <2>1
  <2>3. /\ Len(t) = Len(tmp) + 1 /\ (HasMinus(t) <=> HasMinus(tmp))
        /\ ValueOf(t, fmt.base) = ValueOf(tmp, fmt.base)
    <3>1. Len(t) = Len(tmp) + 1 /\ (HasMinus(t) <=> HasMinus(tmp))
      BY <1>1, <1>3, <2>2, PutcPuts
    <3>2. ValueOf(t, fmt.base) = ValueOf(tmp, fmt.base)
      BY <1>1, <1>3, <2>2, PutcValue
    <3> QED
      BY <3>1, <3>2
  <2> HIDE DEF t
  <2>4. /\ Len(tmp') = Len(t) + 1 /\ (HasMinus(tmp') <=> HasMinus(t))
        /\ ValueOf(tmp', fmt.base) = ValueOf(t, fmt.base)
    <3>1. Len(t) < Capacity
      BY <2>2, <2>3
    <3>2. "0" # "-"
      OBVIOUS
    <3>3. Len(tmp') = Len(t) + 1 /\ (HasMinus(tmp') <=> HasMinus(t))
      BY <1>0, <1>3, <1>4, <3>1, <3>2, PutcPuts
    <3>4. ValueOf(tmp', fmt.base) = ValueOf(t, fmt.base)
      BY <1>0, <1>1, <1>3, <1>4, <3>1, PutcValue
    <3> QED
      BY <3>3, <3>4
  <2>5. ValueOf(tmp, fmt.base) = arg.value /\ ~HasMinus(tmp)
    BY <1>0, <1>5, ZerosFacts
  <2> QED
    BY <1>1, <1>2, <2>1, <2>3, <2>4, <2>5
<1> HIDE DEF t
<1>6. tmp' \in Seq(Glyphs)
  BY <1>0, <1>3, <1>4, PutcPuts
<1>7. InAlign'
  <2>1. Fits(arg) => Denotes(tmp', arg)
    BY <1>1, <1>5 DEF Denotes, HasMinus
  <2>2. arg'.spec = fmt /\ Denotes(tmp, arg)' = Denotes(tmp', arg)
    BY <1>0, <1>1 DEF Denotes
  <2> QED
    BY <1>5, <2>1, <2>2, <1>0, SameArg DEF InAlign
<1>8. Writing'
  <2>1. /\ i > 0 /\ arg = args[i] /\ arg.kind = "number" /\ magnitude \in Nat
        /\ printed[i] \in Seq({" "}) /\ printed[i] = <<>>
    BY <1>0 DEF NumInv, Writing
  <2>2. InDigits' /\ InZeros' /\ InSpaces'
    BY <1>0 DEF InDigits, InZeros, InSpaces
  <2> QED
    BY <1>0, <1>1, <1>6, <1>7, <2>1, <2>2 DEF Writing
<1> QED
  BY <1>0, <1>8, SameBefore

LEMMA PutSignNum ==
  ASSUME NumInv, PutSign, UNCHANGED walk
  PROVE  NumInv'
<1> DEFINE t == IF fmt.zero_pad /\ Short(tmp) THEN putc(tmp, "0") ELSE tmp
<1>0. /\ pc = "zeros" /\ pc' = "align" /\ arg' = arg /\ printed' = printed /\ args' = args
      /\ i' = i /\ tmp' = Signed(t) /\ magnitude' = magnitude
      /\ pad_size <= 0 /\ pad_size' = pad_size
      /\ fmt.base = 10 \/ ~fmt.show_base
  BY DEF PutSign, walk
<1>1. /\ fmt.base \in Bases /\ tmp \in Seq(Glyphs) /\ Len(tmp) \in Nat /\ pad_size \in Int
      /\ fmt.width \in Nat /\ fmt.zero_pad \in BOOLEAN /\ Figs \in Nat \ {0}
      /\ Capacity \in Nat /\ (Fits(arg) => fmt.width < Capacity /\ Needed(arg) < Capacity)
      /\ arg.neg \in BOOLEAN /\ fmt.show_sign \in BOOLEAN /\ fmt = arg.spec
      /\ Needed(arg) = Figs + (IF HasPrefix(arg) THEN 2
                               ELSE IF arg.neg \/ fmt.show_sign THEN 1 ELSE 0)
  BY <1>0, WritingFacts
<1>2. Needed(arg) = Figs + IF arg.neg \/ fmt.show_sign THEN 1 ELSE 0
  BY <1>0, <1>1 DEF HasPrefix
<1>3. /\ "0" \in Glyphs /\ "-" \in Glyphs /\ "+" \in Glyphs
      /\ "-" \notin Numerals(fmt.base) /\ "+" \notin Numerals(fmt.base)
  BY <1>1, GlyphsAre, NoNumerals
<1>4. t \in Seq(Glyphs)
  BY <1>1, <1>3, PutcPuts
<1>5. ASSUME Fits(arg)
      PROVE  /\ ValueOf(t, fmt.base) = arg.value /\ ~HasMinus(t)
             /\ Len(t) >= Figs /\ (Len(t) <= fmt.width \/ Len(t) = Figs)
             /\ Len(t) < Capacity /\ Len(t) \in Nat
  <2>1. \/ Len(tmp) = Figs
        \/ Len(tmp) >= Figs /\ Len(tmp) = fmt.width - 2
    BY <1>0, <1>1, <1>5, ZerosFacts
  <2>2. ValueOf(tmp, fmt.base) = arg.value /\ ~HasMinus(tmp)
    BY <1>0, <1>5, ZerosFacts
  <2>3. CASE fmt.zero_pad /\ Short(tmp)
    <3>1. Len(tmp) < fmt.width
      BY <2>3 DEF Short
    <3>2. Len(tmp) < Capacity
      BY <1>1, <1>5, <3>1
    <3>3. t = putc(tmp, "0")
      BY <2>3
    <3> HIDE DEF t
    <3>4. Len(t) = Len(tmp) + 1 /\ (HasMinus(t) <=> HasMinus(tmp))
      BY <1>1, <1>3, <3>2, <3>3, PutcPuts
    <3>5. ValueOf(t, fmt.base) = ValueOf(tmp, fmt.base)
      BY <1>1, <1>3, <3>2, <3>3, PutcValue
    <3> QED
      BY <1>1, <1>5, <2>1, <2>2, <3>1, <3>4, <3>5
  <2>4. CASE ~(fmt.zero_pad /\ Short(tmp))
    <3>1. t = tmp
      BY <2>4
    <3> HIDE DEF t
    <3> QED
      BY <1>1, <1>2, <1>5, <2>1, <2>2, <3>1
  <2> QED
    BY <2>3, <2>4
<1> HIDE DEF t
<1>6. \/ arg.neg /\ tmp' = putc(t, "-")
      \/ ~arg.neg /\ fmt.show_sign /\ tmp' = putc(t, "+")
      \/ ~arg.neg /\ ~fmt.show_sign /\ Short(t) /\ tmp' = putc(t, "0")
      \/ ~arg.neg /\ ~fmt.show_sign /\ tmp' = t
  BY <1>0, <1>1 DEF Signed
<1>7. tmp' \in Seq(Glyphs)
  BY <1>3, <1>4, <1>6, PutcPuts
<1>8. ASSUME Fits(arg)
      PROVE  /\ ValueOf(tmp', fmt.base) = arg.value /\ (HasMinus(tmp') <=> arg.neg)
             /\ NoSign(arg) => /\ Len(tmp') >= Needed(arg)
                               /\ Len(tmp') <= fmt.width \/ Len(tmp') <= Needed(arg)
  <2>1. /\ ValueOf(t, fmt.base) = arg.value /\ ~HasMinus(t)
        /\ Len(t) >= Figs /\ (Len(t) <= fmt.width \/ Len(t) = Figs)
        /\ Len(t) < Capacity /\ Len(t) \in Nat
    BY <1>5, <1>8
  <2>2. CASE arg.neg /\ tmp' = putc(t, "-")
    <3>1. HasMinus(tmp')
      BY <1>3, <1>4, <2>1, <2>2, PutcPuts
    <3>2. ValueOf(tmp', fmt.base) = ValueOf(t, fmt.base)
      BY <1>1, <1>3, <1>4, <2>1, <2>2, PutcValue
    <3> QED
      BY <2>1, <2>2, <3>1, <3>2 DEF NoSign
  <2>3. CASE ~arg.neg /\ fmt.show_sign /\ tmp' = putc(t, "+")
    <3>0. "+" # "-"
      OBVIOUS
    <3>1. HasMinus(tmp') <=> HasMinus(t)
      <4> DEFINE c == "+"
      <4>1. c \in Glyphs /\ c # "-" /\ tmp' = putc(t, c)
        BY <1>3, <2>3, <3>0
      <4> HIDE DEF c
      <4> QED
        BY <1>4, <2>1, <4>1, PutcPuts
    <3>2. ValueOf(tmp', fmt.base) = ValueOf(t, fmt.base)
      BY <1>1, <1>3, <1>4, <2>1, <2>3, PutcValue
    <3>3. ~NoSign(arg)
      BY <1>1, <2>3 DEF NoSign
    <3> QED
      BY <2>1, <2>3, <3>1, <3>2, <3>3
  <2>4. CASE ~arg.neg /\ ~fmt.show_sign /\ Short(t) /\ tmp' = putc(t, "0")
    <3>1. Len(tmp') = Len(t) + 1 /\ (HasMinus(tmp') <=> HasMinus(t))
      BY <1>3, <1>4, <2>1, <2>4, PutcPuts
    <3>3. ValueOf(tmp', fmt.base) = ValueOf(t, fmt.base)
      BY <1>1, <1>3, <1>4, <2>1, <2>4, PutcValue
    <3>2. Len(t) < fmt.width /\ Needed(arg) = Figs
      BY <1>1, <1>2, <2>4 DEF Short
    <3> QED
      BY <1>1, <2>1, <2>4, <3>1, <3>2, <3>3
  <2>5. CASE ~arg.neg /\ ~fmt.show_sign /\ tmp' = t
    BY <1>1, <1>2, <2>1, <2>5
  <2> QED
    BY <1>6, <2>2, <2>3, <2>4, <2>5
<1>9. InAlign'
  <2>1. Fits(arg) => Denotes(tmp', arg)
    BY <1>1, <1>8 DEF Denotes, HasMinus
  <2>2. Denotes(tmp, arg)' = Denotes(tmp', arg)
    BY <1>0 DEF Denotes
  <2> QED
    BY <1>8, <2>1, <2>2, <1>0, SameArg DEF InAlign
<1>10. Writing'
  <2>1. /\ i > 0 /\ arg = args[i] /\ arg.kind = "number" /\ magnitude \in Nat
        /\ printed[i] \in Seq({" "}) /\ printed[i] = <<>>
    BY <1>0 DEF NumInv, Writing
  <2>2. InDigits' /\ InZeros' /\ InSpaces'
    BY <1>0 DEF InDigits, InZeros, InSpaces
  <2> QED
    BY <1>0, <1>1, <1>7, <1>9, <2>1, <2>2 DEF Writing
<1> QED
  BY <1>0, <1>10, SameBefore

LEMMA AlignNum ==
  ASSUME NumInv, Align, UNCHANGED walk
  PROVE  NumInv'
<1>0. /\ pc = "align" /\ pc' = (IF Short(tmp) THEN fmt.align ELSE "flush")
      /\ arg' = arg /\ printed' = printed /\ args' = args /\ i' = i /\ tmp' = tmp
      /\ magnitude' = magnitude
      /\ pad_size' = IF Short(tmp) THEN fmt.width - Len(tmp) ELSE 0
  BY DEF Align, walk
<1>1. /\ fmt.width \in Nat /\ tmp \in Seq(Glyphs) /\ Len(tmp) \in Nat
      /\ fmt.align \in {"left", "right"} /\ Needed(arg) \in Nat
      /\ Max({fmt.width, Needed(arg)})
           = IF fmt.width >= Needed(arg) THEN fmt.width ELSE Needed(arg)
  BY <1>0, WritingFacts
<1>2. pad_size' \in Nat /\ pc' \in {"left", "right", "flush"}
      /\ (pad_size' > 0 => Len(tmp) + pad_size' <= fmt.width)
      /\ Len(tmp) + pad_size' = IF Len(tmp) < fmt.width THEN fmt.width ELSE Len(tmp)
  BY <1>0, <1>1 DEF Short
<1>3. i > 0 /\ arg = args[i] /\ arg.kind = "number" /\ magnitude \in Nat
      /\ printed[i] \in Seq({" "}) /\ printed[i] = <<>>
  BY <1>0 DEF NumInv, Writing
<1>4. ASSUME Fits(arg)
      PROVE  /\ Denotes(tmp, arg)
             /\ NoSign(arg) =>
                  Len(printed[i]) + pad_size' + Len(tmp) = Max({fmt.width, Needed(arg)})
  <2>1. /\ Denotes(tmp, arg)
        /\ NoSign(arg) => /\ Len(tmp) >= Needed(arg)
                          /\ Len(tmp) <= fmt.width \/ Len(tmp) <= Needed(arg)
    BY <1>0, <1>4 DEF NumInv, Writing, InAlign
  <2>2. Len(printed[i]) = 0
    BY <1>3
  <2> QED
    BY <1>1, <1>2, <2>1, <2>2
<1>5. InSpaces'
  <2>1. Denotes(tmp, arg)' = Denotes(tmp, arg)
    BY <1>0 DEF Denotes
  <2> QED
    BY <1>0, <1>2, <1>4, <2>1, SameArg DEF InSpaces
<1>6. Writing'
  <2>1. InDigits' /\ InZeros' /\ InAlign'
    BY <1>0, <1>2 DEF InDigits, InZeros, InAlign
  <2>2. pc' \in {"digits", "zeros", "align", "left", "right", "flush"} /\ pad_size' \in Int
    BY <1>2
  <2> QED
    BY <1>0, <1>1, <1>3, <1>5, <2>1, <2>2 DEF Writing
<1>7. pc' # "walk"
  BY <1>2
<1> QED
  BY <1>0, <1>6, <1>7, SameBefore

\* What is known while spaces are put, of a number that fits.
LEMMA SpacesFacts ==
  ASSUME NumInv, pc \in {"left", "right", "flush"}, Fits(arg)
  PROVE  /\ pad_size \in Nat /\ Denotes(tmp, arg)
         /\ pad_size > 0 => Len(tmp) + pad_size <= fmt.width
         /\ NoSign(arg) =>
              Len(printed[i]) + pad_size + Len(tmp) = Max({fmt.width, Needed(arg)})
BY DEF NumInv, Writing, InSpaces

LEMMA PutSpaceRightNum ==
  ASSUME NumInv, PutSpaceRight, UNCHANGED walk
  PROVE  NumInv'
<1> DEFINE c == " "
<1>0. /\ pc = "right" /\ pc' = pc /\ arg' = arg /\ printed' = printed /\ args' = args
      /\ i' = i /\ tmp' = putc(tmp, c) /\ magnitude' = magnitude
      /\ pad_size > 0 /\ pad_size' = pad_size - 1
  BY DEF PutSpaceRight, walk
<1>1. /\ fmt.base \in Bases /\ tmp \in Seq(Glyphs) /\ Len(tmp) \in Nat /\ pad_size \in Int
      /\ fmt.width \in Nat /\ Capacity \in Nat /\ (Fits(arg) => fmt.width < Capacity)
      /\ fmt = arg.spec
  BY <1>0, WritingFacts
<1>2. c \in Glyphs /\ c # "-" /\ c \notin Numerals(fmt.base)
  <2>1. " " # "-"
    OBVIOUS
  <2> QED
    BY <1>1, <2>1, GlyphsAre, NoNumerals
<1> HIDE DEF c
<1>3. tmp' \in Seq(Glyphs)
  BY <1>0, <1>1, <1>2, PutcPuts
<1>4. i > 0 /\ arg = args[i] /\ arg.kind = "number" /\ magnitude \in Nat
      /\ printed[i] \in Seq({" "}) /\ printed[i] = <<>>
  BY <1>0 DEF NumInv, Writing
<1>5. ASSUME Fits(arg)
      PROVE  /\ pad_size' \in Nat /\ Denotes(tmp', arg)
             /\ pad_size' > 0 => Len(tmp') + pad_size' <= fmt.width
             /\ NoSign(arg) =>
                  Len(printed[i]) + pad_size' + Len(tmp') = Max({fmt.width, Needed(arg)})
  <2>1. /\ pad_size \in Nat /\ Denotes(tmp, arg)
        /\ Len(tmp) + pad_size <= fmt.width
        /\ NoSign(arg) =>
             Len(printed[i]) + pad_size + Len(tmp) = Max({fmt.width, Needed(arg)})
    BY <1>0, <1>5, SpacesFacts
  <2>2. Len(tmp) < Capacity
    BY <1>0, <1>1, <1>5, <2>1
  <2>3. Len(tmp') = Len(tmp) + 1 /\ (HasMinus(tmp') <=> HasMinus(tmp))
    BY <1>0, <1>1, <1>2, <2>2, PutcPuts
  <2>4. ValueOf(tmp', fmt.base) = ValueOf(tmp, fmt.base)
    BY <1>0, <1>1, <1>2, <2>2, PutcValue
  <2>5. Denotes(tmp', arg)
    BY <1>1, <2>1, <2>3, <2>4 DEF Denotes, HasMinus
  <2>6. Len(printed[i]) = 0
    BY <1>4
  <2> QED
    BY <1>0, <1>1, <2>1, <2>3, <2>5, <2>6
<1>6. InSpaces'
  <2>1. Denotes(tmp, arg)' = Denotes(tmp', arg)
    BY <1>0 DEF Denotes
  <2> QED
    BY <1>0, <1>4, <1>5, <2>1, SameArg DEF InSpaces
<1>7. Writing'
  <2>1. InDigits' /\ InZeros' /\ InAlign'
    BY <1>0 DEF InDigits, InZeros, InAlign
  <2>2. pad_size' \in Int
    BY <1>0, <1>1
  <2> QED
    BY <1>0, <1>3, <1>4, <1>6, <2>1, <2>2 DEF Writing
<1> QED
  BY <1>0, <1>7, SameBefore

\* What goes to the console is the last argument's.
LEMMA PutOk ==
  ASSUME ArgsOk, i > 0, NEW t \in Seq(Letters), Put(t), UNCHANGED walk
  PROVE  /\ ArgsOk' /\ i \in 1 .. i
         /\ printed'[i] = printed[i] \o t
         /\ \A n \in 1 .. i : n < i => printed'[n] = printed[n]
<1>1. UNCHANGED <<text, iter, args, i>> /\ printed' = [printed EXCEPT ![Len(printed)] = @ \o t]
  BY DEF Put, walk
<1>2. printed \in Seq(Seq(Letters)) /\ Len(printed) = i /\ i \in Nat
  BY DEF ArgsOk
<1>3. i \in 1 .. i /\ i \in DOMAIN printed /\ printed[i] \in Seq(Letters)
  BY <1>2
<1>4. printed[i] \o t \in Seq(Letters)
  BY <1>3
<1> DEFINE u == printed[i] \o t
<1>5. printed' = [printed EXCEPT ![i] = u] /\ u \in Seq(Letters)
  BY <1>1, <1>2, <1>4
<1> HIDE DEF u
<1>6. /\ printed' \in Seq(Seq(Letters)) /\ Len(printed') = i
      /\ printed'[i] = u /\ \A n \in 1 .. i : n < i => printed'[n] = printed[n]
  BY <1>2, <1>3, <1>5
<1>7. ArgsOk'
  BY <1>1, <1>6 DEF ArgsOk
<1> QED
  BY <1>3, <1>6, <1>7 DEF u

LEMMA OneElement ==
  ASSUME NEW S, NEW c \in S
  PROVE  <<c>> \in Seq(S) /\ Len(<<c>>) = 1
OBVIOUS

LEMMA LettersAre ==
  /\ \A t \in Seq(Glyphs) : t \in Seq(Letters)
  /\ \A t \in Seq({" "}) : t \in Seq(Letters)
  /\ <<" ">> \in Seq({" "}) /\ <<" ">> \in Seq(Letters) /\ Len(<<" ">>) = 1
<1>1. Glyphs \subseteq Letters /\ {" "} \subseteq Letters
  BY DEF Letters, Glyphs
<1>2. \A t \in Seq(Glyphs) : t \in Seq(Letters)
  BY <1>1, WiderSeq
<1>3. \A t \in Seq({" "}) : t \in Seq(Letters)
  BY <1>1, WiderSeq
<1> DEFINE S == {" "}
<1>4. " " \in S
  OBVIOUS
<1> HIDE DEF S
<1>5. <<" ">> \in Seq(S) /\ Len(<<" ">>) = 1
  BY <1>4, OneElement
<1> QED
  BY <1>2, <1>3, <1>5 DEF S

LEMMA Elements ==
  ASSUME NEW S, NEW s \in Seq(S)
  PROVE  Len(s) \in Nat /\ DOMAIN s = 1 .. Len(s) /\ \A k \in 1 .. Len(s) : s[k] \in S
OBVIOUS

LEMMA PutSpaceLeftNum ==
  ASSUME NumInv, PutSpaceLeft, UNCHANGED walk
  PROVE  NumInv'
<1>0. /\ pc = "left" /\ pc' = pc /\ arg' = arg /\ args' = args
      /\ i' = i /\ tmp' = tmp /\ magnitude' = magnitude
      /\ pad_size > 0 /\ pad_size' = pad_size - 1
  BY DEF PutSpaceLeft, walk
<1>9. Put(<<" ">>)
  BY DEF PutSpaceLeft
<1>1. /\ tmp \in Seq(Glyphs) /\ Len(tmp) \in Nat /\ pad_size \in Int /\ fmt.width \in Nat
      /\ Needed(arg) \in Nat
  BY <1>0, WritingFacts
<1>2. i > 0 /\ arg = args[i] /\ arg.kind = "number" /\ magnitude \in Nat
      /\ printed[i] \in Seq({" "})
  BY <1>0 DEF NumInv, Writing
<1>3. <<" ">> \in Seq(Letters)
  BY LettersAre
<1>4. /\ ArgsOk' /\ i \in 1 .. i
      /\ printed'[i] = printed[i] \o <<" ">>
      /\ \A n \in 1 .. i : n < i => printed'[n] = printed[n]
  BY <1>2, <1>3, <1>9, PutOk DEF NumInv
<1>5. printed'[i] \in Seq({" "}) /\ Len(printed'[i]) = Len(printed[i]) + 1
      /\ Len(printed[i]) \in Nat
  <2> DEFINE s == printed[i]
             t == <<" ">>
             S == {" "}
  <2>1. s \in Seq(S) /\ t \in Seq(S) /\ Len(t) = 1 /\ printed'[i] = s \o t
    BY <1>2, <1>4, LettersAre
  <2> HIDE DEF s, t, S
  <2>3. s \o t \in Seq(S) /\ Len(s \o t) = Len(s) + Len(t) /\ Len(s) \in Nat
    BY <2>1, PartsOf
  <2>2. printed'[i] \in Seq(S) /\ Len(printed'[i]) = Len(s) + 1 /\ Len(s) \in Nat
    BY <2>1, <2>3
  <2> QED
    BY <2>2 DEF s, S
<1>6. InSpaces'
  <2>1. ASSUME Fits(arg)
        PROVE  /\ pad_size' \in Nat /\ Denotes(tmp, arg)
               /\ pad_size' > 0 => Len(tmp) + pad_size' <= fmt.width
               /\ NoSign(arg) =>
                    Len(printed'[i]) + pad_size' + Len(tmp) = Max({fmt.width, Needed(arg)})
    <3>1. /\ pad_size \in Nat /\ Denotes(tmp, arg)
          /\ Len(tmp) + pad_size <= fmt.width
          /\ NoSign(arg) =>
               Len(printed[i]) + pad_size + Len(tmp) = Max({fmt.width, Needed(arg)})
      BY <1>0, <2>1, SpacesFacts
    <3> DEFINE x == Len(printed[i])
               y == Len(printed'[i])
    <3>2. pad_size' \in Nat /\ (pad_size' > 0 => Len(tmp) + pad_size' <= fmt.width)
      BY <1>0, <1>1, <3>1
    <3>3. x \in Nat /\ y = x + 1
      BY <1>5
    <3>4. NoSign(arg) => x + pad_size + Len(tmp) = Max({fmt.width, Needed(arg)})
      BY <3>1
    <3> HIDE DEF x, y
    <3>5. y + pad_size' + Len(tmp) = x + pad_size + Len(tmp)
      BY <1>0, <1>1, <3>3
    <3>6. NoSign(arg) => y + pad_size' + Len(tmp) = Max({fmt.width, Needed(arg)})
      BY <3>4, <3>5
    <3> QED
      BY <3>1, <3>2, <3>6 DEF y
  <2>2. Denotes(tmp, arg)' = Denotes(tmp, arg)
    BY <1>0 DEF Denotes
  <2> QED
    BY <1>0, <2>1, <2>2, SameArg DEF InSpaces
<1>7. Writing'
  <2>1. InDigits' /\ InZeros' /\ InAlign'
    BY <1>0 DEF InDigits, InZeros, InAlign
  <2>2. pad_size' \in Int
    BY <1>0, <1>1
  <2> QED
    BY <1>0, <1>1, <1>2, <1>5, <1>6, <2>1, <2>2 DEF Writing
<1>8. ASSUME NEW n \in 1 .. i, n < i PROVE Told(n)'
  <2>1. Told(n)
    BY <1>8 DEF NumInv
  <2> QED
    BY <1>0, <1>4, <1>8, <2>1 DEF Told
<1> QED
  BY <1>0, <1>4, <1>7, <1>8 DEF NumInv

LEMMA FlushNum ==
  ASSUME NumInv, Flush, UNCHANGED walk
  PROVE  NumInv'
<1>0. /\ pc \in {"left", "right", "flush"} /\ pc' = "walk" /\ args' = args /\ i' = i
      /\ pad_size = 0 /\ Put(tmp)
  BY DEF Flush, walk
<1>1. /\ tmp \in Seq(Glyphs) /\ Len(tmp) \in Nat /\ fmt.base \in Bases /\ fmt = arg.spec
  BY <1>0, WritingFacts
<1>2. i > 0 /\ arg = args[i] /\ arg.kind = "number" /\ printed[i] \in Seq({" "})
  BY <1>0 DEF NumInv, Writing
<1>3. tmp \in Seq(Letters) /\ printed[i] \in Seq(Letters)
  BY <1>1, <1>2, LettersAre
<1>4. /\ ArgsOk' /\ i \in 1 .. i
      /\ printed'[i] = printed[i] \o tmp
      /\ \A n \in 1 .. i : n < i => printed'[n] = printed[n]
  BY <1>0, <1>2, <1>3, PutOk DEF NumInv
<1>5. ASSUME Fits(arg)
      PROVE  /\ Denotes(printed'[i], arg)
             /\ NoSign(arg) => Len(printed'[i]) = Max({fmt.width, Needed(arg)})
  <2>1. /\ Denotes(tmp, arg)
        /\ NoSign(arg) =>
             Len(printed[i]) + pad_size + Len(tmp) = Max({fmt.width, Needed(arg)})
    BY <1>0, <1>5, SpacesFacts
  <2>2. \A k \in 1 .. Len(printed[i]) : printed[i][k] = " "
    <3>1. \A k \in 1 .. Len(printed[i]) : printed[i][k] \in {" "}
      BY <1>2, Elements
    <3> QED
      BY <3>1
  <2>3. ValueOf(printed[i], fmt.base) = 0
    <3>1. \A k \in 1 .. Len(printed[i]) : printed[i][k] \notin Numerals(fmt.base)
      BY <1>1, <2>2, NoNumerals
    <3> QED
      BY <1>1, <1>2, <3>1, ValueOfNoDigits
  <2>4. ValueOf(printed[i] \o tmp, fmt.base) = ValueOf(tmp, fmt.base)
    BY <1>1, <1>3, <2>3, ValueBehindNothing
  <2> DEFINE s == printed[i]
             u == s \o tmp
  <2>5. /\ s \in Seq(Letters) /\ Len(s) \in Nat /\ u \in Seq(Letters) /\ Len(u) = Len(s) + Len(tmp)
        /\ \A k \in 1 .. Len(s) : u[k] = s[k]
        /\ \A k \in 1 .. Len(tmp) : u[Len(s) + k] = tmp[k]
    BY <1>3, PartsOf
  <2>6. \A k \in 1 .. Len(s) : s[k] # "-"
    <3>1. " " # "-"
      OBVIOUS
    <3> QED
      BY <2>2, <3>1
  <2>7. Len(printed'[i]) = Len(s) + Len(tmp) /\ printed'[i] = u
    BY <1>4, <2>5
  <2> HIDE DEF s, u
  <2>8. HasMinus(u) <=> HasMinus(tmp)
    <3>1. DOMAIN u = 1 .. (Len(s) + Len(tmp)) /\ DOMAIN tmp = 1 .. Len(tmp)
      BY <1>1, <2>5
    <3>2. ASSUME NEW k \in DOMAIN u, u[k] = "-"
          PROVE  HasMinus(tmp)
      <4>1. k \in 1 .. Len(s) \/ k - Len(s) \in 1 .. Len(tmp)
        BY <1>1, <2>5, <3>1
      <4>2. k \notin 1 .. Len(s)
        BY <2>5, <2>6, <3>2
      <4>3. Len(s) + (k - Len(s)) = k
        BY <1>1, <2>5, <3>1
      <4>4. k - Len(s) \in DOMAIN tmp /\ tmp[k - Len(s)] = "-"
        BY <2>5, <3>1, <3>2, <4>1, <4>2, <4>3
      <4> QED
        BY <4>4 DEF HasMinus, ToSet
    <3>3. ASSUME NEW k \in DOMAIN tmp, tmp[k] = "-"
          PROVE  HasMinus(u)
      <4>1. Len(s) + k \in DOMAIN u /\ u[Len(s) + k] = "-"
        BY <1>1, <2>5, <3>1, <3>3
      <4> QED
        BY <4>1 DEF HasMinus, ToSet
    <3> QED
      BY <3>2, <3>3 DEF HasMinus, ToSet
  <2>9. Denotes(printed'[i], arg)
    BY <1>1, <2>1, <2>4, <2>7, <2>8 DEF Denotes, HasMinus, s, u
  <2>10. NoSign(arg) => Len(printed'[i]) = Max({fmt.width, Needed(arg)})
    BY <1>0, <1>1, <2>1, <2>5, <2>7 DEF s
  <2> QED
    BY <2>9, <2>10
<1>6. ASSUME NEW n, n = i PROVE Told(n)'
  BY <1>0, <1>1, <1>2, <1>5, <1>6 DEF Told, Fills
<1>7. ASSUME NEW n \in 1 .. i, n < i PROVE Told(n)'
  <2>1. Told(n)
    BY <1>7 DEF NumInv
  <2> QED
    BY <1>0, <1>4, <1>7, <2>1 DEF Told
<1>8. Writing'
  BY <1>0 DEF Writing
<1>9. \A n \in 1 .. i : Told(n)'
  <2> TAKE n \in 1 .. i
  <2>1. n < i \/ n = i
    BY DEF NumInv, ArgsOk
  <2> QED
    BY <1>6, <1>7, <2>1
<1> QED
  BY <1>0, <1>4, <1>8, <1>9 DEF NumInv

-----------------------------------------------------------------------------
(***************************************************************************)
(* What parse_fmt reads, and the steps of the walk.                        *)
(***************************************************************************)
LEMMA Spot ==
  ASSUME text \in Seq(STRING)
  PROVE  /\ Len(text) \in Nat
         /\ \A k \in Nat : At(k) # NUL => k <= Len(text)
         /\ At(Len(text) + 1) = NUL
BY DEF At

LEMMA DigitsEndIs ==
  ASSUME text \in Seq(STRING), NEW k \in 1 .. Len(text) + 1
  PROVE  /\ DigitsEnd(k) \in k .. Len(text) + 1
         /\ At(DigitsEnd(k)) \notin Digits
         /\ \A m \in k .. DigitsEnd(k) - 1 : At(m) \in Digits
<1> DEFINE R == {m \in k .. (Len(text) + 1) : At(m) \notin Digits}
<1>1. Len(text) + 1 \in R /\ R \in SUBSET Nat
  <2>1. NUL \notin Digits
    BY DEF NUL, Digits
  <2> QED
    BY <2>1, Spot
<1>2. DigitsEnd(k) = Min(R)
  BY DEF DigitsEnd
<1> HIDE DEF R
<1>3. Min(R) \in R /\ \A y \in R : Min(R) <= y
  BY <1>1, LeastElement DEF Min
<1> DEFINE e == Min(R)
<1>4. e \in R /\ e \in Nat /\ \A y \in R : e <= y
  BY <1>1, <1>3
<1> HIDE DEF e
<1>5. e \in k .. Len(text) + 1 /\ At(e) \notin Digits
  BY <1>4 DEF R
<1>6. ASSUME NEW m \in k .. e - 1 PROVE At(m) \in Digits
  <2>1. m \notin R
    BY <1>4
  <2>2. m \in k .. (Len(text) + 1)
    BY <1>5, Spot
  <2> QED
    BY <2>1, <2>2 DEF R
<1>7. DigitsEnd(k) = e
  BY <1>2 DEF e
<1> QED
  BY <1>5, <1>6, <1>7

LEMMA NumberIsNat ==
  ASSUME NEW S, NEW t \in Seq(S)
  PROVE  Number(t) \in Nat
<1>1. 10 \in Bases /\ Len(t) \in 0 .. Len(t)
  BY DEF Bases
<1> QED
  BY <1>1, ValueStep DEF Number

LEMMA SkipInside ==
  ASSUME text \in Seq(STRING), NEW k \in 1 .. Len(text) + 1, NEW c, c # NUL
  PROVE  Skip(k, c) \in k .. Len(text) + 1
BY Spot DEF Skip

LEMMA NumberAtIsNat ==
  ASSUME text \in Seq(STRING), NEW k \in 1 .. Len(text) + 1
  PROVE  NumberAt(k) \in Nat
<1>1. DigitsEnd(k) \in k .. Len(text) + 1 /\ Len(text) \in Nat
  BY DigitsEndIs
<1> DEFINE n == DigitsEnd(k) - 1
<1>2. n \in (k - 1) .. Len(text)
  BY <1>1
<1>3. NumberAt(k) = Number(SubSeq(text, k, n))
  BY DEF NumberAt
<1> HIDE DEF n
<1>4. SubSeq(text, k, n) \in Seq(STRING)
  BY <1>1, <1>2
<1> QED
  BY <1>3, <1>4, NumberIsNat

LEMMA ParseOk ==
  ASSUME text \in Seq(STRING), NEW k \in 1 .. Len(text) + 1, NEW spec \in FmtSpec
  PROVE  /\ parse_fmt(k, spec) \in FmtSpec
         /\ parse_fmt(k, spec).show_base = spec.show_base
<1> DEFINE zero == Skip(k, "+")
           width == Skip(zero, "0")
           dot == DigitsEnd(width)
           base == IF At(dot) = "." THEN DigitsEnd(dot + 1) ELSE dot
           align == IF At(base) \in {"b", "o", "h"} THEN base + 1 ELSE base
           s == spec.show_sign \/ At(k) = "+"
           z == spec.zero_pad \/ At(zero) = "0"
           w == IF NumberAt(width) # 0 THEN NumberAt(width) ELSE spec.width
           p == IF At(dot) = "." THEN NumberAt(dot + 1) ELSE spec.precision
           b == CASE At(base) = "b" -> 2 [] At(base) = "o" -> 8
                  [] At(base) = "h" -> 16 [] OTHER -> spec.base
           a == CASE At(align) = "L" -> "left" [] At(align) = "R" -> "right"
                  [] OTHER -> spec.align
<1>1. zero \in k .. Len(text) + 1 /\ width \in zero .. Len(text) + 1
  <2>1. "+" # NUL /\ "0" # NUL
    BY DEF NUL
  <2>2. zero \in k .. Len(text) + 1
    BY <2>1, SkipInside
  <2>3. zero \in 1 .. Len(text) + 1
    BY <2>2
  <2> HIDE DEF zero
  <2>4. width \in zero .. Len(text) + 1
    BY <2>1, <2>3, SkipInside
  <2> QED
    BY <2>2, <2>4
<1>2. width \in 1 .. Len(text) + 1
  BY <1>1
<1> HIDE DEF zero, width
<1>3. dot \in width .. Len(text) + 1
  BY <1>2, DigitsEndIs
<1>4. At(dot) = "." => dot + 1 \in 1 .. Len(text) + 1
  <2>1. "." # NUL
    BY DEF NUL
  <2> QED
    BY <1>2, <1>3, <2>1, Spot
<1> HIDE DEF dot
<1>5. w \in Nat /\ p \in Nat
  BY <1>2, <1>4, NumberAtIsNat DEF FmtSpec
<1>6. b \in {2, 8, 10, 16} /\ a \in {"left", "right"} /\ s \in BOOLEAN /\ z \in BOOLEAN
  BY DEF FmtSpec
<1>7. parse_fmt(k, spec) =
        [spec EXCEPT !.show_sign = s, !.zero_pad = z, !.width = w, !.precision = p,
                     !.base = b, !.align = a]
  BY DEF parse_fmt, zero, width, dot
<1> HIDE DEF s, z, w, p, b, a
<1> QED
  BY <1>5, <1>6, <1>7 DEF FmtSpec

\* A placeholder with an argument left.
LEMMA ParseArgNum ==
  ASSUME NumInv, ParseArg
  PROVE  /\ text' = text /\ i' = i + 1 /\ i \in Nat /\ Len(args') = Len(args)
         /\ iter' \in 1 .. Len(text) + 1 /\ args' \in Seq(ErasedArg) /\ i' \in 0 .. Len(args')
         /\ \A n \in 1 .. i : args'[n] = args[n]
         /\ args'[i + 1].kind = args[i + 1].kind /\ args'[i + 1].value = args[i + 1].value
         /\ \A n \in DOMAIN args' :
               args'[n].kind = "number" /\ args'[n].spec.show_base => ~args'[n].neg
<1>1. /\ text' = text /\ i' = i + 1 /\ i < Len(args) /\ Closing # {} /\ iter' = fmt_end
      /\ args' = [args EXCEPT ![i + 1].spec = parse_fmt(iter + 1, @)]
  BY DEF ParseArg
<1>2. /\ text \in Seq(STRING) /\ iter \in 1 .. Len(text) + 1 /\ Len(text) \in Nat
      /\ args \in Seq(ErasedArg) /\ i \in 0 .. Len(args) /\ Len(args) \in Nat
      /\ \A n \in DOMAIN args : args[n].kind = "number" /\ args[n].spec.show_base => ~args[n].neg
  BY DEF NumInv, ArgsOk
<1>3. iter + 1 \in 1 .. Len(text) + 1 /\ iter' \in 1 .. Len(text) + 1
  <2>1. PICK m \in Closing : TRUE
    BY <1>1
  <2>2. m \in (iter + 1) .. Len(text)
    BY DEF Closing
  <2>3. Closing \in SUBSET Nat /\ Closing \subseteq (iter + 1) .. Len(text)
    BY <1>2 DEF Closing
  <2>4. Min(Closing) \in Closing
    BY <1>1, <2>3, LeastElement DEF Min
  <2>5. Min(Closing) \in (iter + 1) .. Len(text)
    BY <2>3, <2>4
  <2> QED
    BY <1>1, <1>2, <2>2, <2>5 DEF fmt_end
<1>4. i + 1 \in DOMAIN args /\ args[i + 1] \in ErasedArg /\ i \in Nat
  BY <1>1, <1>2
<1> DEFINE o == args[i + 1]
           s == parse_fmt(iter + 1, o.spec)
           a == [o EXCEPT !.spec = s]
<1>5. args' = [args EXCEPT ![i + 1] = a]
  BY <1>1
<1>6. o.spec \in FmtSpec
  BY <1>4 DEF ErasedArg
<1>7. s \in FmtSpec /\ s.show_base = o.spec.show_base
  BY <1>2, <1>3, <1>6, ParseOk
<1>8. o \in ErasedArg /\ (o.kind = "number" /\ o.spec.show_base => ~o.neg)
  BY <1>2, <1>4
<1> HIDE DEF s
<1>9. /\ a \in ErasedArg /\ a.kind = o.kind /\ a.value = o.value
      /\ a.kind = "number" /\ a.spec.show_base => ~a.neg
  <2>1. CASE o \in [kind : {"number"}, value : Nat, neg : BOOLEAN, spec : FmtSpec]
    <3>1. a \in [kind : {"number"}, value : Nat, neg : BOOLEAN, spec : FmtSpec]
      BY <1>7, <2>1
    <3>2. a.kind = o.kind /\ a.value = o.value /\ a.neg = o.neg /\ a.spec = s
      BY <1>7, <2>1
    <3> QED
      BY <1>7, <1>8, <3>1, <3>2 DEF ErasedArg
  <2>2. CASE o \in [kind : {"string"}, value : Seq(STRING), spec : FmtSpec]
    <3>1. a \in [kind : {"string"}, value : Seq(STRING), spec : FmtSpec]
      BY <1>7, <2>2
    <3>2. a.kind = o.kind /\ a.value = o.value /\ a.kind = "string"
      BY <1>7, <2>2
    <3>3. "string" # "number"
      OBVIOUS
    <3> QED
      BY <3>1, <3>2, <3>3 DEF ErasedArg
  <2> QED
    BY <1>8, <2>1, <2>2 DEF ErasedArg
<1> HIDE DEF a
<1>10. /\ args' \in Seq(ErasedArg) /\ Len(args') = Len(args) /\ DOMAIN args' = DOMAIN args
       /\ args'[i + 1] = a
       /\ \A n \in DOMAIN args : n # i + 1 => args'[n] = args[n]
  BY <1>2, <1>4, <1>5, <1>9
<1>11. \A n \in 1 .. i : n \in DOMAIN args /\ n # i + 1
  BY <1>1, <1>2
<1>12. i' \in 0 .. Len(args')
  BY <1>1, <1>2, <1>10
<1>13. ASSUME NEW n \in DOMAIN args', args'[n].kind = "number", args'[n].spec.show_base
       PROVE  ~args'[n].neg
  BY <1>2, <1>9, <1>10, <1>13
<1> QED
  BY <1>1, <1>3, <1>4, <1>9, <1>10, <1>11, <1>12, <1>13 DEF o

LEMMA PrintNumberNum ==
  ASSUME NumInv, PrintNumber
  PROVE  NumInv'
<1> DEFINE a == args'[i + 1]
<1>0. /\ ParseArg /\ args[i + 1].kind = "number" /\ printed' = Append(printed, <<>>)
      /\ arg' = a /\ magnitude' = a.value /\ pad_size' = 0
      /\ tmp' = <<>> /\ pc' = "digits" /\ pc = "walk"
  BY DEF PrintNumber, Enter, ParseArg, Walking
<1>1. /\ text' = text /\ i' = i + 1 /\ i \in Nat
      /\ iter' \in 1 .. Len(text) + 1 /\ args' \in Seq(ErasedArg) /\ i' \in 0 .. Len(args')
      /\ \A n \in 1 .. i : args'[n] = args[n]
      /\ args'[i + 1].kind = args[i + 1].kind
      /\ \A n \in DOMAIN args' :
            args'[n].kind = "number" /\ args'[n].spec.show_base => ~args'[n].neg
  BY <1>0, ParseArgNum
<1>2. /\ printed \in Seq(Seq(Letters)) /\ Len(printed) = i /\ text \in Seq(STRING)
  BY DEF NumInv, ArgsOk
<1>3. /\ printed' \in Seq(Seq(Letters)) /\ Len(printed') = i + 1 /\ printed'[i + 1] = <<>>
      /\ \A n \in 1 .. i : printed'[n] = printed[n]
  <2>1. <<>> \in Seq(Letters)
    OBVIOUS
  <2> QED
    BY <1>0, <1>2, <2>1
<1>4. ArgsOk'
  BY <1>1, <1>2, <1>3 DEF ArgsOk
<1>5. /\ i' \in 1 .. i' /\ args'[i'].kind = "number" /\ args'[i'] = a
  BY <1>0, <1>1
<1>6. a.value \in Nat /\ a.spec.base \in Bases
  <2>1. a \in ErasedArg /\ a.kind = "number"
    BY <1>0, <1>1, <1>5
  <2>2. a \in [kind : {"number"}, value : Nat, neg : BOOLEAN, spec : FmtSpec]
    BY <2>1 DEF ErasedArg
  <2> HIDE DEF a
  <2> QED
    BY <2>2 DEF FmtSpec, Bases
<1> HIDE DEF a
<1>7. InDigits'
  <2>1. Len(tmp') = 0 /\ fmt' = a.spec
    BY <1>0 DEF fmt
  <2>2. Power(fmt', 0) = Power(fmt', 0)
    OBVIOUS
  <2> DEFINE b == a.spec.base
  <2>3. b \in Nat /\ b \in Bases
    BY <1>6 DEF Bases
  <2>4. Power(b, 0) = 1
    BY <2>3, PowerStep
  <2>5. ValueOf(<<>>, b) = 0
    <3>1. <<>> \in Seq(Letters) /\ Len(<<>>) = 0
      OBVIOUS
    <3> QED
      BY <2>3, <3>1, ValueStep
  <2>6. /\ \A k \in 1 .. Len(tmp') : tmp'[k] \in Numerals(b)
        /\ a.value = a.value * Power(b, Len(tmp')) + ValueOf(tmp', b)
        /\ ValueOf(tmp', b) < Power(b, Len(tmp'))
        /\ Len(tmp') <= 1
    BY <1>0, <1>6, <2>1, <2>4, <2>5
  <2> QED
    BY <1>0, <2>1, <2>6 DEF InDigits
<1>8. Writing'
  <2>1. InZeros' /\ InAlign' /\ InSpaces'
    BY <1>0 DEF InZeros, InAlign, InSpaces
  <2>2. tmp' \in Seq(Glyphs) /\ <<>> \in Seq({" "}) /\ pad_size' \in Int
    BY <1>0
  <2>3. printed'[i'] = <<>> /\ i' > 0
    BY <1>1, <1>3
  <2> QED
    BY <1>0, <1>5, <1>6, <1>7, <2>1, <2>2, <2>3 DEF Writing
<1>9. ASSUME NEW n \in 1 .. i', n < i' PROVE Told(n)'
  <2>1. n \in 1 .. i
    BY <1>1, <1>9
  <2>2. Told(n)
    BY <1>0, <2>1 DEF NumInv
  <2> QED
    BY <1>1, <1>3, <2>1, <2>2 DEF Told
<1> QED
  BY <1>0, <1>4, <1>8, <1>9 DEF NumInv

LEMMA PrintStringNum ==
  ASSUME NumInv, PrintString
  PROVE  NumInv'
<1> DEFINE a == args'[i + 1]
<1>0. /\ ParseArg /\ args[i + 1].kind = "string" /\ printed' = Append(printed, Shown(a))
      /\ pc' = "walk" /\ pc = "walk"
  BY DEF PrintString, ParseArg, Walking, number
<1>1. /\ text' = text /\ i' = i + 1 /\ i \in Nat
      /\ iter' \in 1 .. Len(text) + 1 /\ args' \in Seq(ErasedArg) /\ i' \in 0 .. Len(args')
      /\ \A n \in 1 .. i : args'[n] = args[n]
      /\ args'[i + 1].kind = args[i + 1].kind
      /\ \A n \in DOMAIN args' :
            args'[n].kind = "number" /\ args'[n].spec.show_base => ~args'[n].neg
  BY <1>0, ParseArgNum
<1>2. /\ printed \in Seq(Seq(Letters)) /\ Len(printed) = i /\ text \in Seq(STRING)
  BY DEF NumInv, ArgsOk
<1>3. Shown(a) \in Seq(Letters)
  <2>1. a \in ErasedArg /\ a.kind = "string"
    <3>1. i + 1 \in 1 .. Len(args')
      BY <1>1
    <3> QED
      BY <1>0, <1>1, <3>1
  <2>2. a \in [kind : {"string"}, value : Seq(STRING), spec : FmtSpec]
    BY <2>1 DEF ErasedArg
  <2> HIDE DEF a
  <2>3. a.value \in Seq(STRING) /\ a.spec.precision \in Nat
    BY <2>2 DEF FmtSpec
  <2>4. Min({a.spec.precision, Len(a.value)}) \in 0 .. Len(a.value)
    BY <2>3 DEF Min
  <2>5. Shown(a) \in Seq(STRING)
    <3> DEFINE n == Min({a.spec.precision, Len(a.value)})
    <3>1. n \in 0 .. Len(a.value) /\ Shown(a) = SubSeq(a.value, 1, n)
      BY <2>4 DEF Shown
    <3> HIDE DEF n
    <3> QED
      BY <2>3, <3>1
  <2>6. STRING \subseteq Letters
    BY DEF Letters
  <2> QED
    BY <2>5, <2>6, WiderSeq
<1> DEFINE u == Shown(a)
<1> HIDE DEF u
<1>4. /\ printed' \in Seq(Seq(Letters)) /\ Len(printed') = i + 1
      /\ \A n \in 1 .. i : printed'[n] = printed[n]
  <2>1. u \in Seq(Letters) /\ printed' = Append(printed, u)
    BY <1>0, <1>3 DEF u
  <2> QED
    BY <1>2, <2>1
<1>5. ArgsOk'
  BY <1>1, <1>2, <1>4 DEF ArgsOk
<1>6. Writing'
  BY <1>0 DEF Writing
<1>7. ASSUME NEW n \in 1 .. i', n = i' PROVE Told(n)'
  <2>1. args'[n].kind = "string" /\ "string" # "number"
    BY <1>0, <1>1, <1>7
  <2> QED
    BY <2>1 DEF Told
<1>8. ASSUME NEW n \in 1 .. i', n # i' PROVE Told(n)'
  <2>1. n \in 1 .. i
    BY <1>1, <1>8
  <2>2. Told(n)
    BY <1>0, <2>1 DEF NumInv
  <2> QED
    BY <1>1, <1>4, <2>1, <2>2 DEF Told
<1> QED
  BY <1>0, <1>5, <1>6, <1>7, <1>8 DEF NumInv

\* The other steps of the walk print nothing that is an argument's.
LEMMA PassNum ==
  ASSUME NumInv, UNCHANGED <<text, args, i, pc, printed, arg, magnitude, pad_size, tmp>>,
         pc = "walk", iter' \in 1 .. Len(text) + 1
  PROVE  NumInv'
<1>1. ArgsOk'
  BY DEF NumInv, ArgsOk
<1>2. Writing'
  BY DEF Writing
<1>3. ASSUME NEW n \in 1 .. i PROVE Told(n)'
  <2>1. Told(n)
    BY DEF NumInv
  <2> QED
    BY <2>1 DEF Told
<1> QED
  BY <1>1, <1>2, <1>3 DEF NumInv

LEMMA WalkNum ==
  ASSUME NumInv, PrintUnknown \/ StopAtOpen \/ Escape \/ PrintChar \/ Finish
  PROVE  NumInv'
<1>1. /\ pc = "walk" /\ UNCHANGED <<text, args, i, pc, printed, arg, magnitude, pad_size, tmp>>
  BY DEF PrintUnknown, StopAtOpen, Escape, PrintChar, Finish, Pass, Walking, number
<1>2. /\ text \in Seq(STRING) /\ iter \in 1 .. Len(text) + 1 /\ Len(text) \in Nat
  BY DEF NumInv, ArgsOk
<1>3. iter' \in 1 .. Len(text) + 1
  <2>1. CASE PrintUnknown
    <3>1. Closing # {} /\ iter' = fmt_end
      BY <2>1 DEF PrintUnknown
    <3>2. Closing \in SUBSET Nat /\ Closing \subseteq (iter + 1) .. Len(text)
      BY <1>2 DEF Closing
    <3>3. Min(Closing) \in Closing
      BY <3>1, <3>2, LeastElement DEF Min
    <3>4. Min(Closing) \in (iter + 1) .. Len(text)
      BY <3>2, <3>3
    <3> QED
      BY <1>2, <3>1, <3>4 DEF fmt_end
  <2>2. CASE StopAtOpen \/ Finish
    BY <1>2, <2>2 DEF StopAtOpen, Finish
  <2>3. CASE Escape
    <3>1. At(iter + 1) # NUL /\ iter' = iter + 2
      BY <2>3 DEF Escape, AtEscape, Open, NUL
    <3>2. iter + 1 \in Nat
      BY <1>2
    <3> QED
      BY <1>2, <3>1, <3>2, Spot
  <2>4. CASE PrintChar
    <3>1. At(iter) # NUL /\ iter' = iter + 1
      BY <2>4 DEF PrintChar
    <3> QED
      BY <1>2, <3>1, Spot
  <2> QED
    BY <2>1, <2>2, <2>3, <2>4
<1> QED
  BY <1>1, <1>3, PassNum

LEMMA NumInvStays ==
  ASSUME NumInv, [Next]_vars
  PROVE  NumInv'
<1>1. CASE PrintNumber
  BY <1>1, PrintNumberNum
<1>2. CASE PrintString
  BY <1>2, PrintStringNum
<1>3. CASE PrintUnknown \/ StopAtOpen \/ Escape \/ PrintChar \/ Finish
  BY <1>3, WalkNum
<1>4. CASE Write
  BY <1>4, PutDigitNum, EndDigitsNum, PutZeroNum, PutPrefixNum, PutSignNum, AlignNum,
     PutSpaceRightNum, PutSpaceLeftNum, FlushNum DEF Write, WriteNumber
<1>5. CASE UNCHANGED vars
  <2>1. UNCHANGED <<text, iter, args, i, pc, printed, arg, magnitude, pad_size, tmp>>
    BY <1>5 DEF vars, walk, number
  <2>2. ArgsOk'
    BY <2>1 DEF NumInv, ArgsOk
  <2>3. Writing'
    <3>1. /\ fmt' = fmt /\ Figs' = Figs /\ Fits(arg)' = Fits(arg)
          /\ Needed(arg)' = Needed(arg) /\ NoSign(arg)' = NoSign(arg)
      BY <2>1, SameArg
    <3>2. Denotes(tmp, arg)' = Denotes(tmp, arg)
      BY <2>1 DEF Denotes
    <3>3. /\ InDigits' = InDigits /\ InZeros' = InZeros /\ InAlign' = InAlign
          /\ InSpaces' = InSpaces
      BY <2>1, <3>1, <3>2 DEF InDigits, InZeros, InAlign, InSpaces
    <3> QED
      BY <2>1, <3>3 DEF NumInv, Writing
  <2>4. ASSUME NEW n \in 1 .. i, n < i \/ pc = "walk" PROVE Told(n)'
    <3>1. Told(n)
      BY <2>4 DEF NumInv
    <3> QED
      BY <2>1, <3>1 DEF Told
  <2> QED
    BY <2>1, <2>2, <2>3, <2>4 DEF NumInv
<1> QED
  BY <1>1, <1>2, <1>3, <1>4, <1>5 DEF Next

LEMMA TextIs ==
  ASSUME LinesAreStrings, Init
  PROVE  text \in Seq(STRING)
<1>1. PICK call \in Calls : line = call.line
  BY DEF Init
<1>2. text = FlattenSeq([k \in DOMAIN call.line |-> Chars(call.line[k])])
  <2>1. text = Text(line)
    BY DEF Init
  <2> QED
    BY <1>1, <2>1 DEF Text
<1>3. [k \in DOMAIN call.line |-> Chars(call.line[k])] \in Seq(Seq(STRING))
  BY DEF LinesAreStrings
<1> QED
  BY <1>2, <1>3, FlatType

LEMMA NumInitInv ==
  ASSUME LinesAreStrings, ArgumentsAreValues, Init
  PROVE  NumInv
<1>1. PICK call \in Calls : line = call.line /\ given = call.args
  BY DEF Init
<1>2. args = call.args /\ iter = 1 /\ i = 0 /\ pc = "walk" /\ printed = <<>>
  BY <1>1 DEF Init
<1>3. text \in Seq(STRING)
  BY TextIs
<1>4. /\ call.args \in Seq(ErasedArg)
      /\ \A n \in DOMAIN call.args :
            call.args[n].kind = "number" /\ call.args[n].spec.show_base
              => ~call.args[n].neg
  BY DEF ArgumentsAreValues
<1>5. 1 \in 1 .. Len(text) + 1 /\ 0 \in 0 .. Len(args)
  BY <1>2, <1>3, <1>4
<1>6. <<>> \in Seq(Seq(Letters)) /\ Len(<<>>) = 0
  OBVIOUS
<1>7. ArgsOk
  BY <1>2, <1>3, <1>4, <1>5, <1>6 DEF ArgsOk
<1>8. Writing
  BY <1>2 DEF Writing
<1> QED
  BY <1>2, <1>7, <1>8 DEF NumInv

LEMMA NumInvTells ==
  ASSUME NumInv
  PROVE  NumbersReadBack
<1> SUFFICES ASSUME NEW n \in Whole
             PROVE  /\ Denotes(printed[n], args[n])
                    /\ ~args[n].neg /\ ~args[n].spec.show_sign => Fills(printed[n], args[n])
  BY DEF NumbersReadBack
<1>1. /\ n \in DOMAIN printed /\ (n < Len(printed) \/ pc = "walk")
      /\ args[n].kind = "number" /\ Fits(args[n])
  BY DEF Whole, Fits
<1>2. printed \in Seq(Seq(Letters)) /\ Len(printed) = i
  BY DEF NumInv, ArgsOk
<1>3. n \in 1 .. i /\ (n < i \/ pc = "walk")
  BY <1>1, <1>2
<1>4. Told(n)
  BY <1>3 DEF NumInv
<1> QED
  BY <1>1, <1>4 DEF Told, NoSign

-----------------------------------------------------------------------------
(***************************************************************************)
(* The pieces of a line in its text, and the parts of a placeholder.       *)
(***************************************************************************)

\* From the k-th character on the text goes on with s.
Reads(k, s) == \A j \in 1 .. Len(s) : At(k + (j - 1)) = s[j]

\* A text that is read is read part by part.
LEMMA ReadsParts ==
  ASSUME NEW S, NEW a \in Seq(S), NEW b \in Seq(S), NEW k \in Nat, Reads(k, a \o b)
  PROVE  Reads(k, a) /\ Reads(k + Len(a), b)
<1> DEFINE u == a \o b
<1>1. /\ Len(u) = Len(a) + Len(b) /\ Len(a) \in Nat /\ Len(b) \in Nat
      /\ \A j \in 1 .. Len(a) : u[j] = a[j]
      /\ \A j \in 1 .. Len(b) : u[Len(a) + j] = b[j]
  BY PartsOf
<1>2. \A j \in 1 .. Len(u) : At(k + (j - 1)) = u[j]
  BY DEF Reads
<1> HIDE DEF u
<1>3. ASSUME NEW j \in 1 .. Len(a) PROVE At(k + (j - 1)) = a[j]
  <2>1. j \in 1 .. Len(u)
    BY <1>1
  <2> QED
    BY <1>1, <1>2, <2>1
<1>4. ASSUME NEW j \in 1 .. Len(b) PROVE At((k + Len(a)) + (j - 1)) = b[j]
  <2>1. Len(a) + j \in 1 .. Len(u) /\ k + ((Len(a) + j) - 1) = (k + Len(a)) + (j - 1)
    BY <1>1
  <2>2. At(k + ((Len(a) + j) - 1)) = u[Len(a) + j]
    BY <1>2, <2>1
  <2> QED
    BY <1>1, <2>1, <2>2
<1> QED
  BY <1>3, <1>4 DEF Reads

\* A sequence of parts is put together one part at a time.
LEMMA FlatFacts ==
  ASSUME NEW S, NEW s \in Seq(Seq(S))
  PROVE  /\ Len(s) \in Nat /\ Flat(s, 0) = <<>>
         /\ \A m \in 1 .. Len(s) : Flat(s, m) = Flat(s, m - 1) \o s[m]
         /\ \A m \in 1 .. Len(s) : s[m] \in Seq(S)
         /\ FlattenSeq(s) = Flat(s, Len(s))
<1>1. Len(s) \in Nat /\ \A m \in 1 .. Len(s) : s[m] \in Seq(S)
  OBVIOUS
<1>2. /\ Flat(s, 0) = <<>>
      /\ \A m \in 1 .. Len(s) : Flat(s, m) = Flat(s, m - 1) \o s[m]
      /\ P!FlattenSeq(s) = Flat(s, Len(s))
  BY FlatStep
<1>3. FlattenSeq(s) = P!FlattenSeq(s)
  BY DEF FlattenSeq, P!FlattenSeq
<1> QED
  BY <1>1, <1>2, <1>3

\* Parts over a set make a whole over it.
LEMMA FlatOk ==
  ASSUME NEW S, NEW s \in Seq(Seq(S))
  PROVE  \A m \in 0 .. Len(s) : Flat(s, m) \in Seq(S)
<1> DEFINE T == {m \in 0 .. Len(s) : Flat(s, m) \in Seq(S)}
<1>0. <<>> \in Seq(S)
  OBVIOUS
<1>1. Len(s) \in Nat /\ Flat(s, 0) = <<>> /\ <<>> \in Seq(S)
  BY <1>0, FlatFacts
<1>2. \A k \in 1 .. Len(s) : k - 1 \in T => k \in T
  <2> SUFFICES ASSUME NEW k \in 1 .. Len(s), k - 1 \in T PROVE k \in T
    OBVIOUS
  <2>1. Flat(s, k - 1) \in Seq(S) /\ s[k] \in Seq(S)
    BY FlatFacts
  <2>2. Flat(s, k) = Flat(s, k - 1) \o s[k]
    BY FlatFacts
  <2>3. Flat(s, k) \in Seq(S)
    BY <2>1, <2>2, ConcatOk
  <2> QED
    BY <1>1, <2>3
<1>3. 0 \in T
  <2>1. 0 \in 0 .. Len(s)
    BY <1>1
  <2> QED
    BY <1>1, <2>1
<1>5. T \in SUBSET (0 .. Len(s))
  OBVIOUS
<1> HIDE DEF T
<1>4. T = 0 .. Len(s)
  BY <1>1, <1>2, <1>3, <1>5, UpTo
<1> QED
  BY <1>4 DEF T

\* What is together stays in front of what comes.
LEMMA FlatBefore ==
  ASSUME NEW S, NEW s \in Seq(Seq(S)), NEW n \in 0 .. Len(s)
  PROVE  \A m \in 0 .. n :
           /\ Len(Flat(s, m)) <= Len(Flat(s, n))
           /\ \A j \in 1 .. Len(Flat(s, m)) : Flat(s, n)[j] = Flat(s, m)[j]
<1> DEFINE Good(m, k) == /\ Len(Flat(s, m)) <= Len(Flat(s, k))
                         /\ \A j \in 1 .. Len(Flat(s, m)) : Flat(s, k)[j] = Flat(s, m)[j]
           T == {k \in 0 .. n : \A m \in 0 .. k : Good(m, k)}
<1>0. /\ Len(s) \in Nat /\ n \in Nat
      /\ \A m \in 0 .. Len(s) : Flat(s, m) \in Seq(S) /\ Len(Flat(s, m)) \in Nat
  BY FlatOk
<1>1. 0 \in T
  <2>1. Good(0, 0) /\ \A m \in 0 .. 0 : m = 0
    BY <1>0
  <2> HIDE DEF Good
  <2> QED
    BY <1>0, <2>1
<1>2. ASSUME NEW k \in 1 .. n, k - 1 \in T PROVE k \in T
  <2>1. /\ k \in 1 .. Len(s) /\ k - 1 \in 0 .. Len(s)
        /\ Flat(s, k) = Flat(s, k - 1) \o s[k] /\ s[k] \in Seq(S)
    <3>1. k \in 1 .. Len(s) /\ k - 1 \in 0 .. Len(s)
      BY <1>0
    <3> QED
      BY <3>1, FlatFacts
  <2>2. ASSUME NEW m \in 0 .. k - 1 PROVE Good(m, k)
    <3>1. Good(m, k - 1)
      BY <1>2
    <3> DEFINE a == Flat(s, k - 1)
               b == Flat(s, k)
               f == Flat(s, m)
    <3>2. a \in Seq(S) /\ b = a \o s[k] /\ Len(f) \in Nat
      BY <1>0, <2>1
    <3>3. Len(f) <= Len(a) /\ \A j \in 1 .. Len(f) : a[j] = f[j]
      BY <3>1
    <3> HIDE DEF a, b, f
    <3>4. Len(b) = Len(a) + Len(s[k]) /\ Len(a) \in Nat /\ Len(s[k]) \in Nat
          /\ \A j \in 1 .. Len(a) : b[j] = a[j]
      BY <2>1, <3>2, PartsOf
    <3>5. Len(f) <= Len(b) /\ \A j \in 1 .. Len(f) : b[j] = f[j]
      BY <3>2, <3>3, <3>4
    <3> QED
      BY <3>5 DEF a, b, f
  <2>3. Good(k, k)
    BY <1>0, <2>1
  <2> HIDE DEF Good
  <2>4. \A m \in 0 .. k : m = k \/ m \in 0 .. k - 1
    OBVIOUS
  <2> QED
    BY <2>2, <2>3, <2>4
<1>3. T \in SUBSET (0 .. n)
  OBVIOUS
<1> HIDE DEF T
<1>4. T = 0 .. n
  BY <1>0, <1>1, <1>2, <1>3, UpTo
<1>5. n \in T
  BY <1>0, <1>4
<1> QED
  BY <1>5 DEF T

\* Sequences that agree up to a place are the same together up to it.
LEMMA FlatSame ==
  ASSUME NEW S, NEW s \in Seq(Seq(S)), NEW t \in Seq(Seq(S)),
         NEW n \in Nat, n <= Len(s), n <= Len(t), \A k \in 1 .. n : s[k] = t[k]
  PROVE  Flat(s, n) = Flat(t, n)
<1> DEFINE T == {k \in 0 .. n : Flat(s, k) = Flat(t, k)}
<1>1. /\ Flat(s, 0) = <<>> /\ Flat(t, 0) = <<>>
      /\ \A m \in 1 .. Len(s) : Flat(s, m) = Flat(s, m - 1) \o s[m]
      /\ \A m \in 1 .. Len(t) : Flat(t, m) = Flat(t, m - 1) \o t[m]
      /\ Len(s) \in Nat /\ Len(t) \in Nat
  BY FlatFacts
<1>2. 0 \in T /\ T \in SUBSET (0 .. n)
  BY <1>1
<1>3. ASSUME NEW k \in 1 .. n, k - 1 \in T PROVE k \in T
  <2>1. k \in 1 .. Len(s) /\ k \in 1 .. Len(t) /\ k \in 0 .. n /\ s[k] = t[k]
    BY <1>1
  <2>2. Flat(s, k - 1) = Flat(t, k - 1)
    BY <1>3
  <2>3. Flat(s, k) = Flat(t, k)
    BY <1>1, <2>1, <2>2
  <2> QED
    BY <2>1, <2>3
<1> HIDE DEF T
<1>4. T = 0 .. n
  BY <1>2, <1>3, UpTo
<1>5. n \in T
  BY <1>4
<1> QED
  BY <1>5 DEF T

\* Every piece is read at the place where those before it end.
LEMMA PieceRead ==
  ASSUME NEW S, NEW s \in Seq(Seq(S)), text = FlattenSeq(s), NEW k \in 1 .. Len(s)
  PROVE  /\ Len(Flat(s, k - 1)) \in Nat
         /\ Reads(Len(Flat(s, k - 1)) + 1, s[k])
         /\ Len(Flat(s, k)) = Len(Flat(s, k - 1)) + Len(s[k])
         /\ Len(Flat(s, k)) <= Len(text)
<1> DEFINE a == Flat(s, k - 1)
           b == Flat(s, k)
           n == Len(s)
<1>1. /\ n \in Nat /\ k - 1 \in 0 .. n /\ k \in 0 .. n /\ n \in 0 .. n
      /\ a \in Seq(S) /\ s[k] \in Seq(S) /\ b = a \o s[k]
  <2>1. n \in Nat /\ k - 1 \in 0 .. n /\ k \in 0 .. n /\ n \in 0 .. n
    BY FlatFacts
  <2> QED
    BY <2>1, FlatOk, FlatFacts
<1>2. /\ Len(b) <= Len(Flat(s, n))
      /\ \A j \in 1 .. Len(b) : Flat(s, n)[j] = b[j]
  BY <1>1, FlatBefore
<1>3. text = Flat(s, n) /\ Flat(s, n) \in Seq(S)
  BY <1>1, FlatOk, FlatFacts
<1> HIDE DEF a, b, n
<1>4. /\ Len(b) = Len(a) + Len(s[k]) /\ Len(a) \in Nat /\ Len(s[k]) \in Nat
      /\ \A j \in 1 .. Len(s[k]) : b[Len(a) + j] = s[k][j]
  BY <1>1, PartsOf
<1>5. ASSUME NEW j \in 1 .. Len(s[k]) PROVE At((Len(a) + 1) + (j - 1)) = s[k][j]
  <2>1. /\ (Len(a) + 1) + (j - 1) = Len(a) + j /\ Len(a) + j \in 1 .. Len(b)
        /\ Len(b) <= Len(text)
    BY <1>2, <1>3, <1>4
  <2>2. text[Len(a) + j] = s[k][j]
    BY <1>2, <1>3, <1>4, <2>1
  <2>3. Len(a) + j <= Len(text)
    <3>1. text \in Seq(S)
      BY <1>3
    <3> QED
      BY <1>4, <2>1, <3>1
  <2> QED
    BY <2>1, <2>2, <2>3 DEF At
<1> QED
  BY <1>2, <1>3, <1>4, <1>5 DEF Reads, a, b

\* Numbers in the text.

\* The ten digits are the numerals of base ten.
LEMMA DigitsAre ==
  /\ Digits = Numerals(10) /\ 10 \in Bases
  /\ \A c \in Digits : c # "0" => DigitValue(c) \in Nat \ {0}
<1>1. /\ digits[1] = "0" /\ digits[2] = "1" /\ digits[3] = "2" /\ digits[4] = "3"
      /\ digits[5] = "4" /\ digits[6] = "5" /\ digits[7] = "6" /\ digits[8] = "7"
      /\ digits[9] = "8" /\ digits[10] = "9"
  BY DEF digits
<1>2. 10 \in Bases /\ 1 .. 10 = {1, 2, 3, 4, 5, 6, 7, 8, 9, 10}
  BY DEF Bases
<1>3. \A c \in Digits : c \in Numerals(10)
  BY <1>1, <1>2 DEF Digits, Numerals
<1>4. \A c \in Numerals(10) : c \in Digits
  BY <1>1, <1>2 DEF Digits, Numerals
<1>5. ASSUME NEW c \in Digits, c # "0" PROVE DigitValue(c) \in Nat \ {0}
  <2>1. PICK k \in 1 .. 10 : c = digits[k]
    BY <1>3 DEF Numerals
  <2>2. k # 1 /\ k \in 1 .. 16
    BY <1>1, <1>5, <2>1
  <2>3. DigitValue(c) = k - 1
    BY <2>1, <2>2, DigitValues
  <2> QED
    BY <2>1, <2>2, <2>3
<1> QED
  BY <1>2, <1>3, <1>4, <1>5

\* No digits are zero, and digits of which the first is not zero are not.
LEMMA NumberIs ==
  ASSUME NEW w \in Seq(Digits)
  PROVE  /\ w = <<>> => Number(w) = 0
         /\ w # <<>> /\ w[1] # "0" => Number(w) # 0
<1>1. /\ Value(w, 10, 0) = 0
      /\ \A k \in 1 .. Len(w) :
           Value(w, 10, k) = IF w[k] \notin Numerals(10) THEN Value(w, 10, k - 1)
                             ELSE Value(w, 10, k - 1) * 10 + DigitValue(w[k])
      /\ Number(w) = Value(w, 10, Len(w))
      /\ \A k \in 0 .. Len(w) : Value(w, 10, k) \in Nat
  BY DigitsAre, ValueStep DEF Number
<1>2. Len(w) \in Nat /\ (w = <<>> <=> Len(w) = 0) /\ \A k \in 1 .. Len(w) : w[k] \in Numerals(10)
  BY DigitsAre
<1>3. ASSUME w # <<>>, w[1] # "0" PROVE Number(w) # 0
  <2> DEFINE n == Len(w) - 1
             T == {k \in 0 .. n : Value(w, 10, k + 1) # 0}
  <2>1. n \in Nat /\ n + 1 = Len(w) /\ Len(w) \in 0 .. Len(w) /\ 1 \in 1 .. Len(w)
    BY <1>2, <1>3
  <2>2. Value(w, 10, 1) # 0
    <3>1. w[1] \in Numerals(10) /\ DigitValue(w[1]) \in Nat \ {0}
      BY <1>2, <1>3, <2>1, DigitsAre
    <3>2. Value(w, 10, 1) = 0 * 10 + DigitValue(w[1])
      BY <1>1, <2>1, <3>1
    <3> QED
      BY <3>1, <3>2
  <2>3. 0 \in T
    BY <2>1, <2>2
  <2>4. ASSUME NEW k \in 1 .. n, k - 1 \in T PROVE k \in T
    <3>1. k \in 0 .. Len(w) /\ k + 1 \in 1 .. Len(w) /\ (k + 1) - 1 = k /\ (k - 1) + 1 = k
      BY <2>1
    <3>2. Value(w, 10, k) # 0 /\ Value(w, 10, k) \in Nat
      BY <1>1, <2>4, <3>1
    <3>3. w[k + 1] \in Numerals(10) /\ DigitValue(w[k + 1]) \in Nat
      BY <1>2, <3>1, NumeralValues, DigitsAre
    <3>4. Value(w, 10, k + 1) = Value(w, 10, k) * 10 + DigitValue(w[k + 1])
      BY <1>1, <3>1, <3>3
    <3>5. Value(w, 10, k + 1) # 0
      BY <3>2, <3>3, <3>4
    <3> QED
      BY <2>1, <3>5
  <2>5. T \in SUBSET (0 .. n)
    OBVIOUS
  <2> HIDE DEF T, n
  <2>6. n \in T
    <3>1. T = 0 .. n
      BY <2>1, <2>3, <2>4, <2>5, UpTo
    <3> QED
      BY <2>1, <3>1
  <2>7. Value(w, 10, n + 1) # 0
    BY <2>6 DEF T
  <2> QED
    BY <1>1, <2>1, <2>7
<1> QED
  BY <1>1, <1>2, <1>3

\* Digits that something else follows are read as the number they are.
LEMMA NumberRead ==
  ASSUME text \in Seq(STRING), NEW k \in Nat \ {0}, NEW w \in Seq(Digits), Reads(k, w),
         At(k + Len(w)) \notin Digits, k + Len(w) <= Len(text)
  PROVE  DigitsEnd(k) = k + Len(w) /\ NumberAt(k) = Number(w)
<1> DEFINE e == k + Len(w)
           found == DigitsEnd(k)
<1>1. /\ Len(text) \in Nat /\ Len(w) \in Nat /\ k \in 1 .. Len(text) + 1
      /\ e \in k .. Len(text) /\ k \in Nat
  BY Spot
<1>2. found \in k .. Len(text) + 1 /\ At(found) \notin Digits /\ \A m \in k .. found - 1 : At(m) \in Digits
  BY <1>1, DigitsEndIs
<1>3. \A m \in k .. e - 1 : At(m) \in Digits
  <2> TAKE m \in k .. e - 1
  <2>1. (m - k) + 1 \in 1 .. Len(w) /\ k + (((m - k) + 1) - 1) = m
    BY <1>1
  <2>2. At(m) = w[(m - k) + 1]
    BY <2>1 DEF Reads
  <2> QED
    BY <2>1, <2>2
<1>4. At(e) \notin Digits
  OBVIOUS
<1> HIDE DEF e, found
<1>5. found = e
  BY <1>1, <1>2, <1>3, <1>4
<1> DEFINE s == SubSeq(text, k, e - 1)
<1>6. s = w
  <2>1. e - 1 \in (k - 1) .. Len(text) /\ (e - 1) - k + 1 = Len(w)
    BY <1>1 DEF e
  <2>2. s \in Seq(STRING) /\ Len(s) = Len(w)
        /\ \A j \in 1 .. Len(w) : s[j] = text[k + (j - 1)]
    BY <1>1, <2>1
  <2>3. ASSUME NEW j \in 1 .. Len(w) PROVE s[j] = w[j]
    <3>1. k + (j - 1) <= Len(text)
      BY <1>1, <2>1
    <3>2. At(k + (j - 1)) = text[k + (j - 1)]
      BY <3>1 DEF At
    <3> QED
      BY <2>2, <3>2 DEF Reads
  <2> HIDE DEF s
  <2> QED
    BY <2>2, <2>3
<1>7. NumberAt(k) = Number(s)
  BY <1>5 DEF NumberAt, found
<1> QED
  BY <1>5, <1>6, <1>7 DEF e, found

\* A placeholder in the text: where its parts are.

Marks == Digits \cup {Open, "+", ".", "b", "o", "h", "L", "R", Close}

DotPart(p_) == IF p_.precision = <<>> THEN <<>> ELSE <<".">> \o p_.precision

ZeroAt(p_, k) == k + 1 + Len(p_.sign)
WidthAt(p_, k) == ZeroAt(p_, k) + Len(p_.zero)
DotAt(p_, k) == WidthAt(p_, k) + Len(p_.width)
BaseAt(p_, k) == DotAt(p_, k) + Len(DotPart(p_))
AlignAt(p_, k) == BaseAt(p_, k) + Len(p_.base)
CloseAt(p_, k) == AlignAt(p_, k) + Len(p_.align)

\* The parts of a placeholder are written with its characters.
LEMMA PartsAre ==
  ASSUME NEW q \in Placeholder
  PROVE  /\ <<Open>> \in Seq(Marks) /\ <<Close>> \in Seq(Marks)
         /\ q.sign \in Seq(Marks) /\ q.zero \in Seq(Marks) /\ q.width \in Seq(Marks)
         /\ DotPart(q) \in Seq(Marks) /\ q.base \in Seq(Marks) /\ q.align \in Seq(Marks)
         /\ q.precision \in Seq(Digits) /\ q.width \in Seq(Digits)
<1>1. /\ Open \in Marks /\ Close \in Marks /\ "+" \in Marks /\ "0" \in Marks /\ "." \in Marks
      /\ "b" \in Marks /\ "o" \in Marks /\ "h" \in Marks /\ "L" \in Marks /\ "R" \in Marks
      /\ Digits \subseteq Marks
  BY DEF Marks, Digits
<1>2. /\ <<Open>> \in Seq(Marks) /\ <<Close>> \in Seq(Marks) /\ <<"+">> \in Seq(Marks)
      /\ <<"0">> \in Seq(Marks) /\ <<".">> \in Seq(Marks) /\ <<"b">> \in Seq(Marks)
      /\ <<"o">> \in Seq(Marks) /\ <<"h">> \in Seq(Marks) /\ <<"L">> \in Seq(Marks)
      /\ <<"R">> \in Seq(Marks) /\ <<>> \in Seq(Marks)
  <2>1. <<>> \in Seq(Marks)
    OBVIOUS
  <2> QED
    BY <1>1, <2>1, OneElement
<1>3. /\ q.sign \in {<<>>, <<"+">>} /\ q.zero \in {<<>>, <<"0">>}
      /\ q.width \in Seq(Digits) /\ q.precision \in Seq(Digits)
      /\ q.base \in {<<>>, <<"b">>, <<"o">>, <<"h">>} /\ q.align \in {<<>>, <<"L">>, <<"R">>}
  BY DEF Placeholder
<1>4. q.width \in Seq(Marks) /\ q.precision \in Seq(Marks)
  BY <1>1, <1>3, WiderSeq
<1>5. DotPart(q) \in Seq(Marks)
  <2>1. <<".">> \o q.precision \in Seq(Marks)
    BY <1>2, <1>4, ConcatOk
  <2> QED
    BY <1>2, <2>1 DEF DotPart
<1> QED
  BY <1>2, <1>3, <1>4, <1>5

\* The same for a text that is given as the two parts.
LEMMA ReadsBoth ==
  ASSUME NEW S, NEW a \in Seq(S), NEW b \in Seq(S), NEW u, u = a \o b,
         NEW k \in Nat, NEW m, k + Len(a) = m, Reads(k, u)
  PROVE  Reads(k, a) /\ Reads(m, b)
BY ReadsParts

\* A placeholder that stands in the text is there part by part.
LEMMA PlaceholderRead ==
  ASSUME NEW q \in Placeholder, NEW k \in Nat, Reads(k, Chars(q))
  PROVE  /\ Reads(k, <<Open>>) /\ Reads(k + 1, q.sign) /\ Reads(ZeroAt(q, k), q.zero)
         /\ Reads(WidthAt(q, k), q.width) /\ Reads(DotAt(q, k), DotPart(q))
         /\ Reads(BaseAt(q, k), q.base) /\ Reads(AlignAt(q, k), q.align)
         /\ Reads(CloseAt(q, k), <<Close>>)
         /\ ZeroAt(q, k) \in Nat /\ WidthAt(q, k) \in Nat /\ DotAt(q, k) \in Nat
         /\ BaseAt(q, k) \in Nat /\ AlignAt(q, k) \in Nat /\ CloseAt(q, k) \in Nat
         /\ Chars(q) \in Seq(Marks) /\ k + Len(Chars(q)) = CloseAt(q, k) + 1
<1> DEFINE a0 == <<Open>>
           a1 == q.sign
           a2 == q.zero
           a3 == q.width
           a4 == DotPart(q)
           a5 == q.base
           a6 == q.align
           a7 == <<Close>>
           c1 == a0 \o a1
           c2 == c1 \o a2
           c3 == c2 \o a3
           c4 == c3 \o a4
           c5 == c4 \o a5
           c6 == c5 \o a6
           c7 == c6 \o a7
<1>1. /\ a0 \in Seq(Marks) /\ a1 \in Seq(Marks) /\ a2 \in Seq(Marks) /\ a3 \in Seq(Marks)
      /\ a4 \in Seq(Marks) /\ a5 \in Seq(Marks) /\ a6 \in Seq(Marks) /\ a7 \in Seq(Marks)
      /\ Len(a0) = 1 /\ Len(a7) = 1
  BY PartsAre
<1>2. Chars(q) = c7
  <2>1. q.kind = "spec" /\ "spec" # "char"
    BY DEF Placeholder
  <2> QED
    BY <2>1 DEF Chars, DotPart
<1>3. /\ ZeroAt(q, k) = k + 1 + Len(a1) /\ WidthAt(q, k) = ZeroAt(q, k) + Len(a2)
      /\ DotAt(q, k) = WidthAt(q, k) + Len(a3) /\ BaseAt(q, k) = DotAt(q, k) + Len(a4)
      /\ AlignAt(q, k) = BaseAt(q, k) + Len(a5) /\ CloseAt(q, k) = AlignAt(q, k) + Len(a6)
  BY DEF ZeroAt, WidthAt, DotAt, BaseAt, AlignAt, CloseAt
<1> HIDE DEF a0, a1, a2, a3, a4, a5, a6, a7
<1>4. c1 \in Seq(Marks) /\ Len(c1) = Len(a0) + Len(a1) /\ c1 = a0 \o a1
  BY <1>1, PartsOf
<1> HIDE DEF c1
<1>5. c2 \in Seq(Marks) /\ Len(c2) = Len(c1) + Len(a2) /\ c2 = c1 \o a2
  BY <1>1, <1>4, PartsOf
<1> HIDE DEF c2
<1>6. c3 \in Seq(Marks) /\ Len(c3) = Len(c2) + Len(a3) /\ c3 = c2 \o a3
  BY <1>1, <1>5, PartsOf
<1> HIDE DEF c3
<1>7. c4 \in Seq(Marks) /\ Len(c4) = Len(c3) + Len(a4) /\ c4 = c3 \o a4
  BY <1>1, <1>6, PartsOf
<1> HIDE DEF c4
<1>8. c5 \in Seq(Marks) /\ Len(c5) = Len(c4) + Len(a5) /\ c5 = c4 \o a5
  BY <1>1, <1>7, PartsOf
<1> HIDE DEF c5
<1>9. c6 \in Seq(Marks) /\ Len(c6) = Len(c5) + Len(a6) /\ c6 = c5 \o a6
  BY <1>1, <1>8, PartsOf
<1> HIDE DEF c6
<1>10. c7 \in Seq(Marks) /\ Len(c7) = Len(c6) + Len(a7) /\ c7 = c6 \o a7
  BY <1>1, <1>9, PartsOf
<1> HIDE DEF c7
<1>11. /\ Len(a1) \in Nat /\ Len(a2) \in Nat /\ Len(a3) \in Nat /\ Len(a4) \in Nat
       /\ Len(a5) \in Nat /\ Len(a6) \in Nat
  BY <1>1
<1> DEFINE n0 == k + 1
           n1 == ZeroAt(q, k)
           n2 == WidthAt(q, k)
           n3 == DotAt(q, k)
           n4 == BaseAt(q, k)
           n5 == AlignAt(q, k)
           n6 == CloseAt(q, k)
<1>12. /\ n1 = n0 + Len(a1) /\ n2 = n1 + Len(a2) /\ n3 = n2 + Len(a3) /\ n4 = n3 + Len(a4)
       /\ n5 = n4 + Len(a5) /\ n6 = n5 + Len(a6) /\ n0 = k + Len(a0) /\ n0 \in Nat
  BY <1>1, <1>3
<1> HIDE DEF n0, n1, n2, n3, n4, n5, n6
<1>13. k + Len(c1) = n1 /\ n1 \in Nat /\ Len(c1) \in Nat
  <2>1. Len(c1) = Len(a0) + Len(a1) /\ Len(a0) \in Nat /\ Len(a1) \in Nat
    BY <1>1, <1>4, <1>11
  <2>2. k + Len(a0) = n0 /\ n1 = n0 + Len(a1) /\ n0 \in Nat
    BY <1>12
  <2> QED
    BY <2>1, <2>2
<1>14. k + Len(c2) = n2 /\ n2 \in Nat /\ Len(c2) \in Nat
  <2>1. Len(c2) = Len(c1) + Len(a2) /\ Len(c1) \in Nat /\ Len(a2) \in Nat
    BY <1>13, <1>5, <1>11
  <2>2. k + Len(c1) = n1 /\ n2 = n1 + Len(a2) /\ n1 \in Nat
    BY <1>12, <1>13
  <2> QED
    BY <2>1, <2>2
<1>15. k + Len(c3) = n3 /\ n3 \in Nat /\ Len(c3) \in Nat
  <2>1. Len(c3) = Len(c2) + Len(a3) /\ Len(c2) \in Nat /\ Len(a3) \in Nat
    BY <1>14, <1>6, <1>11
  <2>2. k + Len(c2) = n2 /\ n3 = n2 + Len(a3) /\ n2 \in Nat
    BY <1>12, <1>14
  <2> QED
    BY <2>1, <2>2
<1>16. k + Len(c4) = n4 /\ n4 \in Nat /\ Len(c4) \in Nat
  <2>1. Len(c4) = Len(c3) + Len(a4) /\ Len(c3) \in Nat /\ Len(a4) \in Nat
    BY <1>15, <1>7, <1>11
  <2>2. k + Len(c3) = n3 /\ n4 = n3 + Len(a4) /\ n3 \in Nat
    BY <1>12, <1>15
  <2> QED
    BY <2>1, <2>2
<1>17. k + Len(c5) = n5 /\ n5 \in Nat /\ Len(c5) \in Nat
  <2>1. Len(c5) = Len(c4) + Len(a5) /\ Len(c4) \in Nat /\ Len(a5) \in Nat
    BY <1>16, <1>8, <1>11
  <2>2. k + Len(c4) = n4 /\ n5 = n4 + Len(a5) /\ n4 \in Nat
    BY <1>12, <1>16
  <2> QED
    BY <2>1, <2>2
<1>18. k + Len(c6) = n6 /\ n6 \in Nat /\ Len(c6) \in Nat
  <2>1. Len(c6) = Len(c5) + Len(a6) /\ Len(c5) \in Nat /\ Len(a6) \in Nat
    BY <1>17, <1>9, <1>11
  <2>2. k + Len(c5) = n5 /\ n6 = n5 + Len(a6) /\ n5 \in Nat
    BY <1>12, <1>17
  <2> QED
    BY <2>1, <2>2
<1>19. k + Len(c7) = n6 + 1
  <2>1. Len(c7) = Len(c6) + 1 /\ Len(c6) \in Nat /\ k + Len(c6) = n6
    BY <1>1, <1>10, <1>18
  <2> QED
    BY <2>1
<1>20. Reads(k, c6) /\ Reads(n6, a7)
  <2>1. /\ c6 \in Seq(Marks) /\ a7 \in Seq(Marks) /\ c7 = c6 \o a7
        /\ k + Len(c6) = n6 /\ Reads(k, c7)
    BY <1>1, <1>9, <1>10, <1>18, <1>2
  <2> QED
    BY <2>1, ReadsBoth
<1>21. Reads(k, c5) /\ Reads(n5, a6)
  <2>1. /\ c5 \in Seq(Marks) /\ a6 \in Seq(Marks) /\ c6 = c5 \o a6
        /\ k + Len(c5) = n5 /\ Reads(k, c6)
    BY <1>1, <1>8, <1>9, <1>17, <1>20
  <2> QED
    BY <2>1, ReadsBoth
<1>22. Reads(k, c4) /\ Reads(n4, a5)
  <2>1. /\ c4 \in Seq(Marks) /\ a5 \in Seq(Marks) /\ c5 = c4 \o a5
        /\ k + Len(c4) = n4 /\ Reads(k, c5)
    BY <1>1, <1>7, <1>8, <1>16, <1>21
  <2> QED
    BY <2>1, ReadsBoth
<1>23. Reads(k, c3) /\ Reads(n3, a4)
  <2>1. /\ c3 \in Seq(Marks) /\ a4 \in Seq(Marks) /\ c4 = c3 \o a4
        /\ k + Len(c3) = n3 /\ Reads(k, c4)
    BY <1>1, <1>6, <1>7, <1>15, <1>22
  <2> QED
    BY <2>1, ReadsBoth
<1>24. Reads(k, c2) /\ Reads(n2, a3)
  <2>1. /\ c2 \in Seq(Marks) /\ a3 \in Seq(Marks) /\ c3 = c2 \o a3
        /\ k + Len(c2) = n2 /\ Reads(k, c3)
    BY <1>1, <1>5, <1>6, <1>14, <1>23
  <2> QED
    BY <2>1, ReadsBoth
<1>25. Reads(k, c1) /\ Reads(n1, a2)
  <2>1. /\ c1 \in Seq(Marks) /\ a2 \in Seq(Marks) /\ c2 = c1 \o a2
        /\ k + Len(c1) = n1 /\ Reads(k, c2)
    BY <1>1, <1>4, <1>5, <1>13, <1>24
  <2> QED
    BY <2>1, ReadsBoth
<1>26. Reads(k, a0) /\ Reads(n0, a1)
  <2>1. /\ a0 \in Seq(Marks) /\ a1 \in Seq(Marks) /\ c1 = a0 \o a1
        /\ k + Len(a0) = n0 /\ Reads(k, c1)
    BY <1>1, <1>3, <1>4, <1>12, <1>25
  <2> QED
    BY <2>1, ReadsBoth
<1> QED
  BY <1>2, <1>10, <1>12, <1>13, <1>14, <1>15, <1>16, <1>17, <1>18, <1>19, <1>20, <1>21, <1>22, <1>23, <1>24, <1>25, <1>26
     DEF a0, a1, a2, a3, a4, a5, a6, a7, n0, n1, n2, n3, n4, n5, n6

\* What stands at each place of a placeholder.

\* A text of one character is read at its place.
LEMMA ReadOne ==
  ASSUME NEW k \in Nat, NEW c, Reads(k, <<c>>)
  PROVE  At(k) = c
<1>1. 1 \in 1 .. Len(<<c>>) /\ <<c>>[1] = c /\ k + (1 - 1) = k
  OBVIOUS
<1>2. At(k + (1 - 1)) = <<c>>[1]
  BY <1>1 DEF Reads
<1> QED
  BY <1>1, <1>2

\* A part that is there is one character, and one that is not takes no place.
LEMMA PartRead ==
  ASSUME NEW k \in Nat, NEW C, NEW a \in {<<>>} \cup {<<c>> : c \in C}, Reads(k, a),
         NEW m, m = k + Len(a)
  PROVE  \/ a = <<>> /\ m = k
         \/ \E c \in C : a = <<c>> /\ a # <<>> /\ At(k) = c /\ m = k + 1
<1>1. CASE a = <<>>
  BY <1>1
<1>2. ASSUME NEW c \in C, a = <<c>>
      PROVE  a # <<>> /\ At(k) = c /\ m = k + 1
  <2>1. Len(a) = 1
    BY <1>2
  <2>2. At(k) = c
    BY <1>2, ReadOne
  <2>3. m = k + 1
    BY <2>1
  <2>4. a # <<>>
    BY <1>2
  <2> QED
    BY <2>2, <2>3, <2>4
<1> QED
  BY <1>1, <1>2

AlignChars == {"L", "R", Close}
BaseChars == {"b", "o", "h"} \cup AlignChars
DotChars == {"."} \cup BaseChars

\* Which character stands where a part begins.
LEMMA PlaceholderChars ==
  ASSUME NEW q \in Placeholder, NEW k \in Nat, Reads(k, Chars(q))
  PROVE  /\ At(k) = Open /\ At(CloseAt(q, k)) = Close
         /\ \/ q.sign = <<>> /\ ZeroAt(q, k) = k + 1
            \/ q.sign = <<"+">> /\ At(k + 1) = "+" /\ ZeroAt(q, k) = k + 2
         /\ \/ q.zero = <<>> /\ WidthAt(q, k) = ZeroAt(q, k)
            \/ q.zero = <<"0">> /\ At(ZeroAt(q, k)) = "0" /\ WidthAt(q, k) = ZeroAt(q, k) + 1
         /\ DotAt(q, k) = WidthAt(q, k) + Len(q.width) /\ Reads(WidthAt(q, k), q.width)
         /\ \/ q.precision = <<>> /\ BaseAt(q, k) = DotAt(q, k)
            \/ /\ q.precision # <<>> /\ At(DotAt(q, k)) = "."
               /\ Reads(DotAt(q, k) + 1, q.precision)
               /\ BaseAt(q, k) = DotAt(q, k) + 1 + Len(q.precision)
         /\ \/ q.base = <<>> /\ AlignAt(q, k) = BaseAt(q, k)
            \/ \E c \in {"b", "o", "h"} :
                 /\ q.base = <<c>> /\ q.base # <<>> /\ At(BaseAt(q, k)) = c
                 /\ AlignAt(q, k) = BaseAt(q, k) + 1
         /\ \/ q.align = <<>> /\ CloseAt(q, k) = AlignAt(q, k)
            \/ \E c \in {"L", "R"} :
                 /\ q.align = <<c>> /\ q.align # <<>> /\ At(AlignAt(q, k)) = c
                 /\ CloseAt(q, k) = AlignAt(q, k) + 1
<1> DEFINE n0 == k + 1
           n1 == ZeroAt(q, k)
           n2 == WidthAt(q, k)
           n3 == DotAt(q, k)
           n4 == BaseAt(q, k)
           n5 == AlignAt(q, k)
           n6 == CloseAt(q, k)
<1>1. /\ Reads(k, <<Open>>) /\ Reads(n0, q.sign) /\ Reads(n1, q.zero) /\ Reads(n2, q.width)
      /\ Reads(n3, DotPart(q)) /\ Reads(n4, q.base) /\ Reads(n5, q.align) /\ Reads(n6, <<Close>>)
      /\ n0 \in Nat /\ n1 \in Nat /\ n2 \in Nat /\ n3 \in Nat /\ n4 \in Nat /\ n5 \in Nat
      /\ n6 \in Nat
  BY PlaceholderRead
<1>2. /\ n1 = n0 + Len(q.sign) /\ n2 = n1 + Len(q.zero) /\ n3 = n2 + Len(q.width)
      /\ n4 = n3 + Len(DotPart(q)) /\ n5 = n4 + Len(q.base) /\ n6 = n5 + Len(q.align)
  BY DEF ZeroAt, WidthAt, DotAt, BaseAt, AlignAt, CloseAt
<1>3. /\ q.sign \in {<<>>} \cup {<<c>> : c \in {"+"}}
      /\ q.zero \in {<<>>} \cup {<<c>> : c \in {"0"}}
      /\ q.base \in {<<>>} \cup {<<c>> : c \in {"b", "o", "h"}}
      /\ q.align \in {<<>>} \cup {<<c>> : c \in {"L", "R"}}
  BY DEF Placeholder
<1>4. n0 + 1 = k + 2
  OBVIOUS
<1> HIDE DEF n0, n1, n2, n3, n4, n5, n6
<1>5. At(k) = Open /\ At(n6) = Close
  BY <1>1, ReadOne
<1>6. \/ q.sign = <<>> /\ n1 = n0
      \/ \E c \in {"+"} : q.sign = <<c>> /\ q.sign # <<>> /\ At(n0) = c /\ n1 = n0 + 1
  <2> DEFINE C == {"+"}
             a == q.sign
  <2>1. a \in {<<>>} \cup {<<c>> : c \in C} /\ Reads(n0, a) /\ n0 \in Nat /\ n1 = n0 + Len(a)
    BY <1>1, <1>2, <1>3
  <2> HIDE DEF C, a
  <2>2. \/ a = <<>> /\ n1 = n0
        \/ \E c \in C : a = <<c>> /\ a # <<>> /\ At(n0) = c /\ n1 = n0 + 1
    BY <2>1, PartRead
  <2> QED
    BY <2>2 DEF C, a
<1>7. \/ q.zero = <<>> /\ n2 = n1
      \/ \E c \in {"0"} : q.zero = <<c>> /\ q.zero # <<>> /\ At(n1) = c /\ n2 = n1 + 1
  <2> DEFINE C == {"0"}
             a == q.zero
  <2>1. a \in {<<>>} \cup {<<c>> : c \in C} /\ Reads(n1, a) /\ n1 \in Nat /\ n2 = n1 + Len(a)
    BY <1>1, <1>2, <1>3
  <2> HIDE DEF C, a
  <2>2. \/ a = <<>> /\ n2 = n1
        \/ \E c \in C : a = <<c>> /\ a # <<>> /\ At(n1) = c /\ n2 = n1 + 1
    BY <2>1, PartRead
  <2> QED
    BY <2>2 DEF C, a
<1>8. \/ q.base = <<>> /\ n5 = n4
      \/ \E c \in {"b", "o", "h"} : q.base = <<c>> /\ q.base # <<>> /\ At(n4) = c /\ n5 = n4 + 1
  <2> DEFINE C == {"b", "o", "h"}
             a == q.base
  <2>1. a \in {<<>>} \cup {<<c>> : c \in C} /\ Reads(n4, a) /\ n4 \in Nat /\ n5 = n4 + Len(a)
    BY <1>1, <1>2, <1>3
  <2> HIDE DEF C, a
  <2>2. \/ a = <<>> /\ n5 = n4
        \/ \E c \in C : a = <<c>> /\ a # <<>> /\ At(n4) = c /\ n5 = n4 + 1
    BY <2>1, PartRead
  <2> QED
    BY <2>2 DEF C, a
<1>9. \/ q.align = <<>> /\ n6 = n5
      \/ \E c \in {"L", "R"} : q.align = <<c>> /\ q.align # <<>> /\ At(n5) = c /\ n6 = n5 + 1
  <2> DEFINE C == {"L", "R"}
             a == q.align
  <2>1. a \in {<<>>} \cup {<<c>> : c \in C} /\ Reads(n5, a) /\ n5 \in Nat /\ n6 = n5 + Len(a)
    BY <1>1, <1>2, <1>3
  <2> HIDE DEF C, a
  <2>2. \/ a = <<>> /\ n6 = n5
        \/ \E c \in C : a = <<c>> /\ a # <<>> /\ At(n5) = c /\ n6 = n5 + 1
    BY <2>1, PartRead
  <2> QED
    BY <2>2 DEF C, a
<1>10. \/ q.precision = <<>> /\ n4 = n3
       \/ /\ q.precision # <<>> /\ At(n3) = "." /\ Reads(n3 + 1, q.precision)
          /\ n4 = n3 + 1 + Len(q.precision)
  <2>1. CASE q.precision = <<>>
    <3>1. DotPart(q) = <<>> /\ Len(<<>>) = 0
      BY <2>1 DEF DotPart
    <3> QED
      BY <1>1, <1>2, <2>1, <3>1
  <2>2. CASE q.precision # <<>>
    <3>1. DotPart(q) = <<".">> \o q.precision
      BY <2>2 DEF DotPart
    <3>2. <<".">> \in Seq(Marks) /\ Len(<<".">>) = 1 /\ q.precision \in Seq(Marks)
      <4>1. "." \in Marks /\ Digits \subseteq Marks
        BY DEF Marks
      <4> QED
        BY <4>1, OneElement, WiderSeq, PartsAre
    <3>3. Len(<<".">> \o q.precision) = 1 + Len(q.precision) /\ Len(q.precision) \in Nat
      BY <3>2, PartsOf
    <3>4. Reads(n3, <<".">>) /\ Reads(n3 + 1, q.precision)
      <4> DEFINE a == <<".">>
                 b == q.precision
      <4>1. /\ a \in Seq(Marks) /\ b \in Seq(Marks) /\ DotPart(q) = a \o b /\ n3 \in Nat
            /\ Len(a) = 1 /\ Reads(n3, DotPart(q))
        BY <1>1, <3>1, <3>2
      <4> HIDE DEF a, b
      <4>2. n3 + Len(a) = n3 + 1
        BY <4>1
      <4>3. Reads(n3, a) /\ Reads(n3 + 1, b)
        <5> DEFINE u == DotPart(q)
                   m == n3 + 1
        <5>1. /\ a \in Seq(Marks) /\ b \in Seq(Marks) /\ u = a \o b /\ n3 \in Nat
              /\ n3 + Len(a) = m /\ Reads(n3, u)
          BY <4>1, <4>2
        <5> HIDE DEF u, m
        <5>2. Reads(n3, a) /\ Reads(m, b)
          BY <5>1, ReadsBoth
        <5> QED
          BY <5>2 DEF m
      <4> QED
        BY <4>3 DEF a, b
    <3>5. At(n3) = "."
      BY <1>1, <3>4, ReadOne
    <3>6. n4 = n3 + 1 + Len(q.precision)
      <4> DEFINE l == Len(DotPart(q))
                 n == Len(q.precision)
      <4>1. l = 1 + n /\ n \in Nat /\ n4 = n3 + l /\ n3 \in Nat
        BY <1>1, <1>2, <3>1, <3>3
      <4> HIDE DEF l, n
      <4>2. n4 = n3 + 1 + n
        BY <4>1
      <4> QED
        BY <4>2 DEF n
    <3> QED
      BY <2>2, <3>4, <3>5, <3>6
  <2> QED
    BY <2>1, <2>2
<1> QED
  BY <1>1, <1>2, <1>4, <1>5, <1>6, <1>7, <1>8, <1>9, <1>10 DEF n0, n1, n2, n3, n4, n5, n6

\* What follows a part is nothing parse_fmt would take for more of it.
LEMMA FirstChars ==
  ASSUME NEW q \in Placeholder, NEW k \in Nat, Reads(k, Chars(q))
  PROVE  /\ At(AlignAt(q, k)) \in AlignChars /\ At(BaseAt(q, k)) \in BaseChars
         /\ At(DotAt(q, k)) \in DotChars
         /\ At(WidthAt(q, k)) \in DotChars \cup Digits /\ At(WidthAt(q, k)) # "0"
         /\ At(ZeroAt(q, k)) # "+"
<1> DEFINE n1 == ZeroAt(q, k)
           n2 == WidthAt(q, k)
           n3 == DotAt(q, k)
           n4 == BaseAt(q, k)
           n5 == AlignAt(q, k)
           n6 == CloseAt(q, k)
<1>1. At(n6) = Close /\ (n6 = n5 \/ At(n5) \in {"L", "R"})
  BY PlaceholderChars
<1>2. n5 = n4 \/ At(n4) \in {"b", "o", "h"}
  BY PlaceholderChars
<1>3. n4 = n3 \/ At(n3) = "."
  BY PlaceholderChars
<1>4. n3 = n2 + Len(q.width) /\ Reads(n2, q.width) /\ n2 \in Nat
  BY PlaceholderChars, PlaceholderRead
<1>5. n2 = n1 \/ At(n1) = "0"
  BY PlaceholderChars
<1> HIDE DEF n1, n2, n3, n4, n5, n6
<1>6. At(n5) \in AlignChars
  BY <1>1 DEF AlignChars
<1>7. At(n4) \in BaseChars
  BY <1>2, <1>6 DEF BaseChars
<1>8. At(n3) \in DotChars
  BY <1>3, <1>7 DEF DotChars
<1>9. "0" \notin DotChars /\ "+" \notin DotChars \cup Digits
  BY DEF DotChars, BaseChars, AlignChars, Digits, Close
<1>10. At(n2) \in DotChars \cup Digits /\ At(n2) # "0"
  <2>1. q.width \in Seq(Digits) /\ (q.width = <<>> \/ q.width[1] # "0")
    BY DEF Placeholder
  <2>2. CASE q.width = <<>>
    <3>1. Len(q.width) = 0
      BY <2>2
    <3>2. n3 = n2
      BY <1>4, <3>1
    <3> QED
      BY <1>8, <1>9, <3>2
  <2>3. CASE q.width # <<>>
    <3>1. 1 \in 1 .. Len(q.width) /\ n2 + (1 - 1) = n2
      BY <1>4, <2>1, <2>3
    <3>2. At(n2) = q.width[1]
      BY <1>4, <3>1 DEF Reads
    <3>3. q.width[1] \in Digits
      BY <2>1, <3>1, Elements
    <3> QED
      BY <2>1, <2>3, <3>2, <3>3
  <2> QED
    BY <2>2, <2>3
<1>11. At(n1) # "+"
  BY <1>5, <1>9, <1>10
<1> QED
  BY <1>6, <1>7, <1>8, <1>10, <1>11 DEF n1, n2, n3, n4, n5

\* Where parse_fmt finds the parts of a placeholder, and the numbers it reads.
LEMMA PartsFound ==
  ASSUME text \in Seq(STRING), NEW q \in Placeholder, NEW k \in Nat \ {0},
         Reads(k, Chars(q)), CloseAt(q, k) <= Len(text)
  PROVE  /\ Skip(k + 1, "+") = ZeroAt(q, k) /\ Skip(ZeroAt(q, k), "0") = WidthAt(q, k)
         /\ DigitsEnd(WidthAt(q, k)) = DotAt(q, k) /\ NumberAt(WidthAt(q, k)) = Number(q.width)
         /\ IF q.precision = <<>>
            THEN At(DotAt(q, k)) # "." /\ BaseAt(q, k) = DotAt(q, k)
            ELSE /\ At(DotAt(q, k)) = "." /\ DigitsEnd(DotAt(q, k) + 1) = BaseAt(q, k)
                 /\ NumberAt(DotAt(q, k) + 1) = Number(q.precision)
<1> DEFINE n1 == ZeroAt(q, k)
           n2 == WidthAt(q, k)
           n3 == DotAt(q, k)
           n4 == BaseAt(q, k)
           n5 == AlignAt(q, k)
           n6 == CloseAt(q, k)
           w == Len(q.width)
           p == Len(q.precision)
<1>0. k \in Nat /\ Len(text) \in Nat
  BY Spot
<1>1. /\ \/ n1 = k + 1
         \/ At(k + 1) = "+" /\ n1 = k + 2
      /\ \/ n2 = n1
         \/ At(n1) = "0" /\ n2 = n1 + 1
  BY <1>0, PlaceholderChars
<1>2. /\ At(n1) # "+" /\ At(n2) # "0" /\ At(n3) \in DotChars /\ At(n4) \in BaseChars
  BY <1>0, FirstChars
<1>3. n1 \in Nat /\ n2 \in Nat /\ n3 \in Nat /\ n4 \in Nat /\ n5 \in Nat /\ n6 \in Nat
  BY <1>0, PlaceholderRead
<1>4. n3 = n2 + w /\ Reads(n2, q.width)
  BY <1>0, PlaceholderChars
<1>5. q.width \in Seq(Digits) /\ q.precision \in Seq(Digits) /\ w \in Nat /\ p \in Nat
  BY DEF Placeholder
<1>6. \/ q.precision = <<>> /\ n4 = n3
      \/ q.precision # <<>> /\ At(n3) = "." /\ Reads(n3 + 1, q.precision) /\ n4 = n3 + 1 + p
  BY <1>0, PlaceholderChars
<1>7. /\ n5 = n4 \/ n5 = n4 + 1
      /\ n6 = n5 \/ n6 = n5 + 1
  BY <1>0, PlaceholderChars
<1>8. n6 <= Len(text)
  OBVIOUS
<1> HIDE DEF n1, n2, n3, n4, n5, n6
<1>9. n1 >= k + 1 /\ n2 >= n1
  BY <1>0, <1>1, <1>3
<1>10. n4 <= Len(text) /\ n3 <= Len(text) /\ n3 + 1 \in Nat \ {0} /\ n2 \in Nat \ {0}
  <2>1. n4 <= Len(text) /\ n4 >= n3
    <3> HIDE DEF p
    <3> QED
      BY <1>0, <1>3, <1>5, <1>6, <1>7, <1>8
  <2> QED
    BY <1>0, <1>3, <1>9, <2>1
<1>11. DotChars \cap Digits = {} /\ BaseChars \cap Digits = {} /\ "." \notin BaseChars
  BY DEF DotChars, BaseChars, AlignChars, Digits, Close
<1>12. Skip(k + 1, "+") = n1
  BY <1>0, <1>1, <1>2 DEF Skip
<1>13. Skip(n1, "0") = n2
  BY <1>1, <1>2, <1>3 DEF Skip
<1>14. DigitsEnd(n2) = n3 /\ NumberAt(n2) = Number(q.width)
  <2>1. n2 + Len(q.width) = n3
    BY <1>4
  <2>2. At(n3) \notin Digits
    BY <1>2, <1>11
  <2> QED
    BY <1>4, <1>5, <1>10, <2>1, <2>2, NumberRead
<1>15. CASE q.precision = <<>>
  <2>1. n4 = n3 /\ At(n3) # "."
    BY <1>2, <1>6, <1>11, <1>15
  <2> QED
    BY <1>12, <1>13, <1>14, <1>15, <2>1 DEF n1, n2, n3, n4
<1>16. CASE q.precision # <<>>
  <2> DEFINE m == n3 + 1
  <2>1. At(n3) = "." /\ Reads(m, q.precision) /\ m + Len(q.precision) = n4 /\ m \in Nat \ {0}
    BY <1>6, <1>10, <1>16
  <2>2. At(n4) \notin Digits
    BY <1>2, <1>11
  <2> HIDE DEF m
  <2>3. DigitsEnd(m) = n4 /\ NumberAt(m) = Number(q.precision)
    BY <1>5, <1>10, <2>1, <2>2, NumberRead
  <2> QED
    BY <1>12, <1>13, <1>14, <1>16, <2>1, <2>3 DEF m, n1, n2, n3, n4
<1> QED
  BY <1>15, <1>16

\* parse_fmt gives a format what the grammar says (fmt_core.hpp:140-195).
LEMMA MeaningParsed ==
  ASSUME text \in Seq(STRING), NEW q \in Placeholder, NEW k \in Nat \ {0},
         Reads(k, Chars(q)), CloseAt(q, k) <= Len(text), NEW spec \in FmtSpec
  PROVE  parse_fmt(k + 1, spec) = Meaning(q, spec)
<1> DEFINE n1 == ZeroAt(q, k)
           n2 == WidthAt(q, k)
           n3 == DotAt(q, k)
           n4 == BaseAt(q, k)
           n5 == AlignAt(q, k)
           s == spec.show_sign \/ At(k + 1) = "+"
           z == spec.zero_pad \/ At(n1) = "0"
           w == IF NumberAt(n2) # 0 THEN NumberAt(n2) ELSE spec.width
           p == IF At(n3) = "." THEN NumberAt(n3 + 1) ELSE spec.precision
           b == CASE At(n4) = "b" -> 2 [] At(n4) = "o" -> 8
                  [] At(n4) = "h" -> 16 [] OTHER -> spec.base
           a == CASE At(n5) = "L" -> "left" [] At(n5) = "R" -> "right"
                  [] OTHER -> spec.align
           s2 == Or(q.sign, TRUE, spec.show_sign)
           z2 == Or(q.zero, TRUE, spec.zero_pad)
           w2 == Or(q.width, Number(q.width), spec.width)
           p2 == Or(q.precision, Number(q.precision), spec.precision)
           b2 == Or(q.base, CASE q.base = <<"b">> -> 2 [] q.base = <<"o">> -> 8
                              [] q.base = <<"h">> -> 16, spec.base)
           a2 == Or(q.align, IF q.align = <<"L">> THEN "left" ELSE "right", spec.align)
<1>0. k \in Nat
  OBVIOUS
<1>1. /\ Skip(k + 1, "+") = n1 /\ Skip(n1, "0") = n2
      /\ DigitsEnd(n2) = n3 /\ NumberAt(n2) = Number(q.width)
      /\ IF q.precision = <<>>
         THEN At(n3) # "." /\ n4 = n3
         ELSE /\ At(n3) = "." /\ DigitsEnd(n3 + 1) = n4
              /\ NumberAt(n3 + 1) = Number(q.precision)
  BY PartsFound
<1>2. /\ At(n5) \in AlignChars /\ At(n4) \in BaseChars /\ At(n2) # "0" /\ At(n1) # "+"
  BY <1>0, FirstChars
<1>3. \/ q.base = <<>> /\ n5 = n4
      \/ \E c \in {"b", "o", "h"} :
           q.base = <<c>> /\ q.base # <<>> /\ At(n4) = c /\ n5 = n4 + 1
  BY <1>0, PlaceholderChars
<1>4. \/ q.align = <<>> /\ CloseAt(q, k) = n5
      \/ \E c \in {"L", "R"} : q.align = <<c>> /\ q.align # <<>> /\ At(n5) = c
  BY <1>0, PlaceholderChars
<1>5. /\ \/ q.sign = <<>> /\ n1 = k + 1
         \/ q.sign # <<>> /\ At(k + 1) = "+"
      /\ \/ q.zero = <<>> /\ n2 = n1
         \/ q.zero # <<>> /\ At(n1) = "0"
  <2>1. <<"+">> # <<>> /\ <<"0">> # <<>>
    OBVIOUS
  <2>2. /\ \/ q.sign = <<>> /\ n1 = k + 1
           \/ q.sign = <<"+">> /\ At(k + 1) = "+"
        /\ \/ q.zero = <<>> /\ n2 = n1
           \/ q.zero = <<"0">> /\ At(n1) = "0"
    BY <1>0, PlaceholderChars
  <2> QED
    BY <2>1, <2>2
<1>6. At(CloseAt(q, k)) = Close
  BY <1>0, PlaceholderChars
<1>7. /\ spec.show_sign \in BOOLEAN /\ spec.zero_pad \in BOOLEAN
  BY DEF FmtSpec
<1>8. q.width \in Seq(Digits) /\ (q.width = <<>> \/ q.width[1] # "0")
  BY DEF Placeholder
<1> HIDE DEF n1, n2, n3, n4, n5
<1>9. parse_fmt(k + 1, spec) =
        [spec EXCEPT !.show_sign = s, !.zero_pad = z, !.width = w, !.precision = p,
                     !.base = b, !.align = a]
  <2>1. (IF At(n3) = "." THEN DigitsEnd(n3 + 1) ELSE n3) = n4
    BY <1>1
  <2>2. (IF At(n4) \in {"b", "o", "h"} THEN n4 + 1 ELSE n4) = n5
    <3>1. CASE q.base = <<>> /\ n5 = n4
      BY <1>2, <3>1 DEF AlignChars, Close
    <3>2. ASSUME NEW c \in {"b", "o", "h"}, At(n4) = c, n5 = n4 + 1
          PROVE  (IF At(n4) \in {"b", "o", "h"} THEN n4 + 1 ELSE n4) = n5
      BY <3>2
    <3> QED
      BY <1>3, <3>1, <3>2
  <2> QED
    BY <1>1, <2>1, <2>2 DEF parse_fmt
<1>10. Meaning(q, spec) =
        [spec EXCEPT !.show_sign = s2, !.zero_pad = z2, !.width = w2, !.precision = p2,
                     !.base = b2, !.align = a2]
  BY DEF Meaning
<1>11. s = s2
  BY <1>2, <1>5, <1>7 DEF Or
<1>12. z = z2
  BY <1>2, <1>5, <1>7 DEF Or
<1>13. w = w2
  BY <1>1, <1>8, NumberIs DEF Or
<1>14. p = p2
  BY <1>1 DEF Or
<1>15. b = b2
  <2>1. CASE q.base = <<>>
    <3>1. At(n4) \notin {"b", "o", "h"}
      <4>1. n5 = n4
        BY <1>3, <2>1
      <4> QED
        BY <1>2, <4>1 DEF AlignChars, Close
    <3> QED
      BY <2>1, <3>1 DEF Or
  <2>2. ASSUME NEW c \in {"b", "o", "h"}, q.base = <<c>>, q.base # <<>>, At(n4) = c
        PROVE  b = b2
    <3>1. q.base = <<"b">> <=> c = "b"
      BY <2>2
    <3>2. q.base = <<"o">> <=> c = "o"
      BY <2>2
    <3>3. q.base = <<"h">> <=> c = "h"
      BY <2>2
    <3>4. b2 = CASE q.base = <<"b">> -> 2 [] q.base = <<"o">> -> 8 [] q.base = <<"h">> -> 16
      BY <2>2 DEF Or
    <3> QED
      BY <2>2, <3>1, <3>2, <3>3, <3>4
  <2> QED
    BY <1>3, <2>1, <2>2
<1>16. a = a2
  <2>1. CASE q.align = <<>>
    <3>1. At(n5) = Close
      BY <1>4, <1>6, <2>1
    <3>2. At(n5) # "L" /\ At(n5) # "R"
      BY <3>1 DEF Close
    <3> QED
      BY <2>1, <3>2 DEF Or
  <2>2. ASSUME NEW c \in {"L", "R"}, q.align = <<c>>, q.align # <<>>, At(n5) = c
        PROVE  a = a2
    <3>1. q.align = <<"L">> <=> c = "L"
      BY <2>2
    <3>2. a2 = IF q.align = <<"L">> THEN "left" ELSE "right"
      BY <2>2 DEF Or
    <3> QED
      BY <2>2, <3>1, <3>2
  <2> QED
    BY <1>4, <2>1, <2>2
<1> HIDE DEF s, z, w, p, b, a, s2, z2, w2, p2, b2, a2
<1> QED
  BY <1>9, <1>10, <1>11, <1>12, <1>13, <1>14, <1>15, <1>16

\* The end of a placeholder, and the turns of the arguments.

\* The first closing brace after the one that opens a placeholder is its own.
LEMMA NoCloseBefore ==
  ASSUME NEW q \in Placeholder, NEW k \in Nat, Reads(k, Chars(q))
  PROVE  \A m \in k + 1 .. CloseAt(q, k) - 1 : At(m) # Close
<1> DEFINE n1 == ZeroAt(q, k)
           n2 == WidthAt(q, k)
           n3 == DotAt(q, k)
           n4 == BaseAt(q, k)
           n5 == AlignAt(q, k)
           n6 == CloseAt(q, k)
           a == q.width
           b == q.precision
<1>1. \/ n1 = k + 1
      \/ At(k + 1) = "+" /\ n1 = k + 2
  BY PlaceholderChars
<1>2. \/ n2 = n1
      \/ At(n1) = "0" /\ n2 = n1 + 1
  BY PlaceholderChars
<1>3. n3 = n2 + Len(a) /\ Reads(n2, a)
  BY PlaceholderChars
<1>4. \/ n4 = n3
      \/ At(n3) = "." /\ Reads(n3 + 1, b) /\ n4 = n3 + 1 + Len(b)
  BY PlaceholderChars
<1>5. \/ n5 = n4
      \/ At(n4) \in {"b", "o", "h"} /\ n5 = n4 + 1
  BY PlaceholderChars
<1>6. \/ n6 = n5
      \/ At(n5) \in {"L", "R"} /\ n6 = n5 + 1
  BY PlaceholderChars
<1>7. a \in Seq(Digits) /\ b \in Seq(Digits)
  BY DEF Placeholder
<1>8. n1 \in Nat /\ n2 \in Nat /\ n3 \in Nat /\ n4 \in Nat /\ n5 \in Nat /\ n6 \in Nat
  BY PlaceholderRead
<1> HIDE DEF n1, n2, n3, n4, n5, n6, a, b
<1>9. Close \notin Digits \cup {"+", "0", ".", "b", "o", "h", "L", "R"}
  BY DEF Close, Digits
<1>10. ASSUME NEW m \in k + 1 .. n1 - 1 PROVE At(m) # Close
  BY <1>1, <1>8, <1>9
<1>11. ASSUME NEW m \in n1 .. n2 - 1 PROVE At(m) # Close
  BY <1>2, <1>8, <1>9
<1>12. ASSUME NEW m \in n2 .. n3 - 1 PROVE At(m) # Close
  <2>1. Len(a) \in Nat
    BY <1>7
  <2>2. m - n2 + 1 \in 1 .. Len(a) /\ n2 + ((m - n2 + 1) - 1) = m
    BY <1>3, <1>8, <2>1
  <2>3. At(m) = a[m - n2 + 1]
    BY <1>3, <2>2 DEF Reads
  <2> QED
    BY <1>7, <1>9, <2>2, <2>3, Elements
<1>13. ASSUME NEW m \in n3 .. n4 - 1 PROVE At(m) # Close
  <2>1. Len(b) \in Nat
    BY <1>7
  <2>2. At(n3) = "." /\ Reads(n3 + 1, b) /\ n4 = n3 + 1 + Len(b)
    BY <1>4, <1>8
  <2>3. CASE m = n3
    BY <1>9, <2>2, <2>3
  <2>4. CASE m # n3
    <3>1. m - n3 \in 1 .. Len(b) /\ (n3 + 1) + ((m - n3) - 1) = m
      BY <1>8, <2>1, <2>2, <2>4
    <3>2. At(m) = b[m - n3]
      BY <2>2, <3>1 DEF Reads
    <3> QED
      BY <1>7, <1>9, <3>1, <3>2, Elements
  <2> QED
    BY <2>3, <2>4
<1>14. ASSUME NEW m \in n4 .. n5 - 1 PROVE At(m) # Close
  BY <1>5, <1>8, <1>9
<1>15. ASSUME NEW m \in n5 .. n6 - 1 PROVE At(m) # Close
  BY <1>6, <1>8, <1>9
<1>16. ASSUME NEW m \in k + 1 .. n6 - 1 PROVE At(m) # Close
  <2>1. \/ m \in k + 1 .. n1 - 1 \/ m \in n1 .. n2 - 1 \/ m \in n2 .. n3 - 1
        \/ m \in n3 .. n4 - 1 \/ m \in n4 .. n5 - 1 \/ m \in n5 .. n6 - 1
    BY <1>8
  <2> QED
    BY <1>10, <1>11, <1>12, <1>13, <1>14, <1>15, <2>1
<1> QED
  BY <1>16 DEF n6

\* The walk goes on behind a placeholder.
LEMMA PlaceholderEnds ==
  ASSUME text \in Seq(STRING), iter \in Nat \ {0}, NEW q \in Placeholder,
         Reads(iter, Chars(q)), CloseAt(q, iter) <= Len(text)
  PROVE  /\ At(iter) = Open /\ Closing # {} /\ fmt_end = CloseAt(q, iter) + 1
<1> DEFINE n == CloseAt(q, iter)
<1>1. At(iter) = Open /\ At(n) = Close
  BY PlaceholderChars
<1>2. n \in Nat /\ Len(text) \in Nat
  BY PlaceholderRead, Spot
<1>3. n # iter
  BY <1>1 DEF Open, Close
<1>4. n > iter
  <2>1. /\ q.sign \in Seq(Marks) /\ q.zero \in Seq(Marks) /\ q.width \in Seq(Marks)
        /\ DotPart(q) \in Seq(Marks) /\ q.base \in Seq(Marks) /\ q.align \in Seq(Marks)
    BY PartsAre
  <2> DEFINE l1 == Len(q.sign)
             l2 == Len(q.zero)
             l3 == Len(q.width)
             l4 == Len(DotPart(q))
             l5 == Len(q.base)
             l6 == Len(q.align)
  <2>2. l1 \in Nat /\ l2 \in Nat /\ l3 \in Nat /\ l4 \in Nat /\ l5 \in Nat /\ l6 \in Nat
    BY <2>1
  <2>3. n = iter + 1 + l1 + l2 + l3 + l4 + l5 + l6
    BY DEF ZeroAt, WidthAt, DotAt, BaseAt, AlignAt, CloseAt
  <2> HIDE DEF n, l1, l2, l3, l4, l5, l6
  <2> QED
    BY <2>2, <2>3
<1>5. \A m \in iter + 1 .. n - 1 : At(m) # Close
  BY NoCloseBefore
<1> HIDE DEF n
<1>6. n \in Closing /\ Closing \in SUBSET Nat /\ \A m \in Closing : n <= m
  <2>0. n <= Len(text)
    BY DEF n
  <2>1. n \in Closing /\ Closing \in SUBSET Nat
    BY <1>1, <1>2, <1>4, <2>0 DEF Closing
  <2>2. ASSUME NEW m \in Closing PROVE n <= m
    <3>1. m \in (iter + 1) .. Len(text) /\ At(m) = Close
      BY DEF Closing
    <3> QED
      BY <1>2, <1>5, <3>1
  <2> QED
    BY <2>1, <2>2
<1>7. Min(Closing) \in Closing /\ \A m \in Closing : Min(Closing) <= m
  BY <1>6, LeastElement DEF Min
<1>8. Min(Closing) = n
  <2> DEFINE e == Min(Closing)
  <2>1. e \in Nat /\ e <= n /\ n <= e
    BY <1>6, <1>7
  <2> HIDE DEF e
  <2>2. e = n
    BY <1>2, <2>1
  <2> QED
    BY <2>2 DEF e
<1> QED
  BY <1>1, <1>6, <1>8 DEF fmt_end, n

\* The turns of the arguments.
LEMMA Turns ==
  /\ Turn(0) = 0
  /\ \A k \in Nat : Turn(k) \in Nat
  /\ \A k \in Nat : Turn(k + 1) = IF IsSpec(k + 1) THEN Turn(k) + 1 ELSE Turn(k)
  /\ \A k \in Nat : \A m \in 1 .. k : Turn(m) <= Turn(k)
  /\ \A k \in Nat \ {0} : IsSpec(k) => Turn(k) \in 1 .. Turn(k)
<1> DEFINE T(k) == {m \in 1 .. k : IsSpec(m)}
<1>1. \A k \in Nat : IsFiniteSet(T(k)) /\ Cardinality(T(k)) \in Nat
  <2> TAKE k \in Nat
  <2>1. IsFiniteSet(1 .. k)
    BY FS_Interval
  <2>2. T(k) \subseteq 1 .. k
    OBVIOUS
  <2> HIDE DEF T
  <2> QED
    BY <2>1, <2>2, FS_Subset, FS_CardinalityType
<1>2. T(0) = {}
  OBVIOUS
<1>3. \A k \in Nat : T(k + 1) = IF IsSpec(k + 1) THEN T(k) \cup {k + 1} ELSE T(k)
  OBVIOUS
<1>4. \A k \in Nat : k + 1 \notin T(k)
  OBVIOUS
<1>5. \A k \in Nat : \A m \in 1 .. k : T(m) \subseteq T(k)
  OBVIOUS
<1>6. \A k : Turn(k) = Cardinality(T(k))
  BY DEF Turn
<1> HIDE DEF T
<1>7. Turn(0) = 0
  BY <1>2, <1>6, FS_EmptySet
<1>8. \A k \in Nat : Turn(k) \in Nat
  BY <1>1, <1>6
<1>9. ASSUME NEW k \in Nat
      PROVE  Turn(k + 1) = IF IsSpec(k + 1) THEN Turn(k) + 1 ELSE Turn(k)
  <2>1. CASE IsSpec(k + 1)
    <3>1. T(k + 1) = T(k) \cup {k + 1} /\ k + 1 \notin T(k) /\ IsFiniteSet(T(k))
      BY <1>1, <1>3, <1>4, <2>1
    <3>2. Cardinality(T(k) \cup {k + 1}) = Cardinality(T(k)) + 1
      BY <3>1, FS_AddElement
    <3> QED
      BY <1>6, <2>1, <3>1, <3>2
  <2>2. CASE ~IsSpec(k + 1)
    BY <1>3, <1>6, <2>2
  <2> QED
    BY <2>1, <2>2
<1>10. ASSUME NEW k \in Nat, NEW m \in 1 .. k PROVE Turn(m) <= Turn(k)
  <2>1. T(m) \subseteq T(k) /\ IsFiniteSet(T(k))
    BY <1>1, <1>5
  <2> QED
    BY <1>6, <2>1, FS_Subset
<1>11. ASSUME NEW k \in Nat \ {0}, IsSpec(k) PROVE Turn(k) \in 1 .. Turn(k)
  <2>1. k - 1 \in Nat /\ (k - 1) + 1 = k
    OBVIOUS
  <2>2. Turn(k) = Turn(k - 1) + 1 /\ Turn(k - 1) \in Nat
    BY <1>8, <1>9, <1>11, <2>1
  <2> QED
    BY <2>2
<1> QED
  BY <1>7, <1>8, <1>9, <1>10, <1>11

-----------------------------------------------------------------------------
(***************************************************************************)
(* The walk in front of a piece.                                           *)
(***************************************************************************)

Cs == [k \in DOMAIN line |-> Chars(line[k])]

LineOk ==
  /\ line \in Seq(Character \cup Placeholder)
  /\ Cs \in Seq(Seq(STRING))
  /\ text = FlattenSeq(Cs)
  /\ given \in Seq(ErasedArg)

\* A line, its text and its arguments.
LEMMA LineFacts ==
  ASSUME LineOk
  PROVE  /\ Len(line) \in Nat /\ DOMAIN line = 1 .. Len(line) /\ Len(Cs) = Len(line)
         /\ text \in Seq(STRING) /\ text = Flat(Cs, Len(line))
         /\ \A k \in 1 .. Len(line) :
               /\ line[k] \in Character \cup Placeholder
               /\ Cs[k] = Chars(line[k])
         /\ Len(given) \in Nat
<1>1. /\ Len(line) \in Nat /\ DOMAIN line = 1 .. Len(line)
      /\ \A k \in 1 .. Len(line) : line[k] \in Character \cup Placeholder
  BY Elements DEF LineOk
<1>2. Cs \in Seq(Seq(STRING)) /\ text = FlattenSeq(Cs)
  BY DEF LineOk
<1>3. DOMAIN Cs = 1 .. Len(line) /\ \A k \in 1 .. Len(line) : Cs[k] = Chars(line[k])
  BY <1>1 DEF Cs
<1> HIDE DEF Cs
<1>4. Len(Cs) = Len(line)
  BY <1>1, <1>2, <1>3
<1>5. text \in Seq(STRING) /\ text = Flat(Cs, Len(line))
  BY <1>2, <1>4, FlatType, FlatFacts
<1>6. Len(given) \in Nat
  BY DEF LineOk
<1> QED
  BY <1>1, <1>3, <1>4, <1>5, <1>6

\* A piece is a character or a placeholder.
LEMMA PieceIs ==
  ASSUME LineOk, NEW k \in 1 .. Len(line)
  PROVE  \/ ~IsSpec(k) /\ line[k].c # NUL /\ Chars(line[k]) = <<line[k].c>> /\ line[k].c \in STRING
         \/ IsSpec(k) /\ line[k] \in Placeholder
<1>1. line[k] \in Character \/ line[k] \in Placeholder
  BY LineFacts
<1>2. CASE line[k] \in Character
  <2>1. line[k].kind = "char" /\ line[k].c # NUL /\ "char" # "spec" /\ line[k].c \in STRING
    BY <1>2 DEF Character
  <2> QED
    BY <2>1 DEF IsSpec, Chars
<1>3. CASE line[k] \in Placeholder
  <2>1. line[k].kind = "spec"
    BY <1>3 DEF Placeholder
  <2> QED
    BY <1>3, <2>1 DEF IsSpec
<1> QED
  BY <1>1, <1>2, <1>3

\* The place of the k-th piece.
Place(k) == Len(Flat(Cs, k - 1)) + 1

\* A piece is read at its place, and the next one follows it.
LEMMA PlaceRead ==
  ASSUME LineOk, NEW k \in 1 .. Len(line)
  PROVE  /\ Place(k) \in Nat \ {0} /\ Reads(Place(k), Chars(line[k]))
         /\ Place(k + 1) = Place(k) + Len(Chars(line[k]))
         /\ Place(k + 1) <= Len(text) + 1
<1>1. /\ Cs \in Seq(Seq(STRING)) /\ text = FlattenSeq(Cs) /\ k \in 1 .. Len(Cs)
      /\ Cs[k] = Chars(line[k]) /\ Len(text) \in Nat
  BY LineFacts DEF LineOk
<1>2. Cs[k] \in Seq(STRING) /\ Len(Cs[k]) \in Nat
  <2> HIDE DEF Cs
  <2> QED
    BY <1>1
<1>3. /\ Len(Flat(Cs, k - 1)) \in Nat
      /\ Reads(Len(Flat(Cs, k - 1)) + 1, Cs[k])
      /\ Len(Flat(Cs, k)) = Len(Flat(Cs, k - 1)) + Len(Cs[k])
      /\ Len(Flat(Cs, k)) <= Len(text)
  BY <1>1, PieceRead
<1>4. (k + 1) - 1 = k
  OBVIOUS
<1> DEFINE x == Len(Flat(Cs, k - 1))
           y == Len(Flat(Cs, k))
           l == Len(Cs[k])
           n == Len(text)
<1>5. Place(k) = x + 1 /\ Place(k + 1) = y + 1
  BY <1>4 DEF Place
<1>6. x \in Nat /\ y = x + l /\ y <= n /\ l \in Nat /\ n \in Nat
  BY <1>1, <1>2, <1>3
<1>7. Reads(x + 1, Cs[k])
  BY <1>3
<1> HIDE DEF x, y, n
<1>8. Place(k) \in Nat \ {0} /\ Place(k + 1) = Place(k) + l /\ Place(k + 1) <= n + 1
  <2> HIDE DEF l
  <2> QED
    BY <1>5, <1>6
<1> QED
  BY <1>1, <1>5, <1>7, <1>8 DEF n

\* The walk before a character.
LEMMA AtChar ==
  ASSUME LineOk, NEW k \in 1 .. Len(line), ~IsSpec(k)
  PROVE  /\ Place(k) \in Nat \ {0} /\ Place(k + 1) = Place(k) + 1
         /\ At(Place(k)) = line[k].c /\ line[k].c # NUL /\ line[k].c \in STRING
<1>1. line[k].c # NUL /\ Chars(line[k]) = <<line[k].c>> /\ line[k].c \in STRING
  BY PieceIs
<1>2. Len(<<line[k].c>>) = 1
  OBVIOUS
<1>3. Place(k) \in Nat \ {0} /\ Reads(Place(k), <<line[k].c>>) /\ Place(k + 1) = Place(k) + 1
  BY <1>1, <1>2, PlaceRead
<1> DEFINE n == Place(k)
           c == line[k].c
<1>4. n \in Nat /\ Reads(n, <<c>>)
  BY <1>3
<1> HIDE DEF n, c
<1>5. At(n) = c
  BY <1>4, ReadOne
<1> QED
  BY <1>1, <1>3, <1>5 DEF n, c

\* The walk before a placeholder.
LEMMA AtSpec ==
  ASSUME LineOk, NEW k \in 1 .. Len(line), IsSpec(k), iter = Place(k)
  PROVE  /\ At(iter) = Open /\ Closing # {} /\ fmt_end = Place(k + 1)
         /\ \A spec \in FmtSpec : parse_fmt(iter + 1, spec) = Meaning(line[k], spec)
<1>1. line[k] \in Placeholder
  BY PieceIs
<1>2. /\ iter \in Nat \ {0} /\ Reads(iter, Chars(line[k]))
      /\ Place(k + 1) = iter + Len(Chars(line[k])) /\ Place(k + 1) <= Len(text) + 1
  BY PlaceRead
<1>3. text \in Seq(STRING) /\ Len(text) \in Nat
  BY LineFacts
<1> DEFINE q == line[k]
<1>4. q \in Placeholder /\ Reads(iter, Chars(q))
  BY <1>1, <1>2
<1>5. CloseAt(q, iter) \in Nat /\ iter + Len(Chars(q)) = CloseAt(q, iter) + 1
  BY <1>2, <1>4, PlaceholderRead
<1> HIDE DEF q
<1>6. CloseAt(q, iter) <= Len(text) /\ Place(k + 1) = CloseAt(q, iter) + 1
  <2> DEFINE n == CloseAt(q, iter)
             m == Place(k + 1)
  <2>1. n \in Nat /\ m = n + 1 /\ m <= Len(text) + 1
    BY <1>2, <1>5 DEF q
  <2> HIDE DEF n, m
  <2>2. n <= Len(text)
    BY <1>3, <2>1
  <2> QED
    BY <2>1, <2>2 DEF n, m
<1>7. At(iter) = Open /\ Closing # {} /\ fmt_end = CloseAt(q, iter) + 1
  BY <1>2, <1>3, <1>4, <1>6, PlaceholderEnds
<1>8. \A spec \in FmtSpec : parse_fmt(iter + 1, spec) = Meaning(q, spec)
  BY <1>2, <1>3, <1>4, <1>6, MeaningParsed
<1> QED
  BY <1>6, <1>7, <1>8 DEF q

\* The walk at the end of the line.
LEMMA AtEnd ==
  ASSUME LineOk
  PROVE  Place(Len(line) + 1) = Len(text) + 1 /\ At(Place(Len(line) + 1)) = NUL
<1>1. (Len(line) + 1) - 1 = Len(line) /\ text = Flat(Cs, Len(line)) /\ text \in Seq(STRING)
  BY LineFacts
<1>2. Place(Len(line) + 1) = Len(text) + 1
  BY <1>1 DEF Place
<1> QED
  BY <1>1, <1>2, Spot

\* A quote in front of a placeholder is not well formed.
LEMMA NoEscape ==
  ASSUME LineOk, WellFormed, NEW k \in 1 .. Len(line), ~IsSpec(k), iter = Place(k)
  PROVE  At(iter) \notin {NUL, Open} /\ ~AtEscape
<1>1. /\ iter \in Nat \ {0} /\ Place(k + 1) = iter + 1
      /\ At(iter) = line[k].c /\ line[k].c # NUL
  BY AtChar
<1>2. /\ k \in DOMAIN line /\ Len(line) \in Nat
  BY LineFacts
<1>3. line[k].c # Open /\ (line[k].c = Quote /\ k < Len(line) => ~IsSpec(k + 1))
  BY <1>2 DEF WellFormed
<1>4. ASSUME At(iter) = Quote PROVE At(iter + 1) # Open
  <2>1. CASE k = Len(line)
    <3>1. At(iter + 1) = NUL
      BY <1>1, <2>1, AtEnd
    <3> QED
      BY <3>1 DEF NUL, Open
  <2>2. CASE k # Len(line)
    <3>1. k + 1 \in 1 .. Len(line) /\ k < Len(line)
      BY <1>2, <2>2
    <3>2. ~IsSpec(k + 1)
      BY <1>1, <1>3, <1>4, <3>1
    <3>3. At(Place(k + 1)) = line[k + 1].c
      BY <3>1, <3>2, AtChar
    <3>4. line[k + 1].c # Open
      BY <1>2, <3>1, <3>2 DEF WellFormed
    <3> QED
      BY <1>1, <3>3, <3>4
  <2> QED
    BY <2>1, <2>2
<1> QED
  BY <1>1, <1>3, <1>4 DEF AtEscape

-----------------------------------------------------------------------------
(***************************************************************************)
(* What was said of a line: the walk has come to the end of a piece, and the*)
(* console has what is expected for every piece up to it.                  *)
(***************************************************************************)

Tokens == Letters \cup {Open, "?", Close}
Said(k) == [m \in 1 .. k |-> Expected(m)]
Due(k) == IF Turn(k) <= Len(given) THEN Turn(k) ELSE Len(given)

\* The walk has come to the end of the k-th piece.
SaidUpTo(k) ==
  /\ iter = Place(k + 1)
  /\ i = Due(k)
  /\ console = FlattenSeq(Said(k))
  /\ pc # "walk" => k > 0 /\ IsSpec(k) /\ Turn(k) <= Len(given)
  /\ done => k = Len(line)
  /\ Len(args) = Len(given)
  /\ \A m \in 1 .. k :
        IsSpec(m) /\ Turn(m) <= Len(given) =>
          args[Turn(m)].spec = Meaning(line[m], given[Turn(m)].spec)
  /\ \A n \in i + 1 .. Len(given) : args[n] = given[n]

LineInv == LineOk /\ (WellFormed => \E k \in 0 .. Len(line) : SaidUpTo(k))

\* One element more is one appended.
LEMMA Grown ==
  ASSUME NEW S, NEW k \in Nat, NEW a \in [1 .. k -> S], NEW b \in [1 .. k + 1 -> S],
         \A m \in 1 .. k : b[m] = a[m]
  PROVE  a \in Seq(S) /\ Len(a) = k /\ b[k + 1] \in S /\ b = Append(a, b[k + 1])
<1>1. a \in Seq(S) /\ b \in Seq(S)
  OBVIOUS
<1>2. Len(a) = k /\ Len(b) = k + 1
  OBVIOUS
<1>3. b[k + 1] \in S
  OBVIOUS
<1> DEFINE c == Append(a, b[k + 1])
<1>4. /\ c \in Seq(S) /\ Len(c) = k + 1 /\ c[k + 1] = b[k + 1]
      /\ \A m \in 1 .. k : c[m] = a[m]
  BY <1>1, <1>2, <1>3
<1> HIDE DEF c
<1>5. \A m \in 1 .. k + 1 : m = k + 1 \/ m \in 1 .. k
  OBVIOUS
<1>6. \A m \in 1 .. k + 1 : c[m] = b[m]
  BY <1>4, <1>5
<1>7. c = b
  BY <1>1, <1>2, <1>4, <1>6
<1> QED
  BY <1>1, <1>2, <1>3, <1>7 DEF c

\* One saying more is put behind what was said.
LEMMA SaidMore ==
  ASSUME NEW S, NEW k \in Nat, NEW a \in [1 .. k -> Seq(S)], NEW b \in [1 .. k + 1 -> Seq(S)],
         \A m \in 1 .. k : b[m] = a[m]
  PROVE  FlattenSeq(b) = FlattenSeq(a) \o b[k + 1] /\ FlattenSeq(a) \in Seq(S)
<1> DEFINE R == Seq(S)
<1>0. a \in [1 .. k -> R] /\ b \in [1 .. k + 1 -> R]
  OBVIOUS
<1> HIDE DEF R
<1>1. a \in Seq(R) /\ Len(a) = k /\ b[k + 1] \in R /\ b = Append(a, b[k + 1])
  BY <1>0, Grown
<1>2. b \in Seq(R) /\ Len(b) = k + 1
  BY <1>1
<1>3. FlattenSeq(a) = Flat(a, k) /\ FlattenSeq(b) = Flat(b, k + 1)
  BY <1>1, <1>2, FlatFacts DEF R
<1>4. Flat(b, k + 1) = Flat(b, k) \o b[k + 1]
  <2>1. k + 1 \in 1 .. Len(b) /\ (k + 1) - 1 = k
    BY <1>2
  <2> QED
    BY <1>2, <2>1, FlatFacts DEF R
<1>5. Flat(b, k) = Flat(a, k)
  <2>1. \A m \in 1 .. k : a[m] = b[m]
    OBVIOUS
  <2>2. k <= Len(a) /\ k <= Len(b)
    BY <1>1, <1>2
  <2> QED
    BY <1>1, <1>2, <2>1, <2>2, FlatSame DEF R
<1>6. FlattenSeq(a) \in Seq(S)
  BY <1>1, FlatType DEF R
<1> QED
  BY <1>3, <1>4, <1>5, <1>6

\* Three texts in a row.
LEMMA Joined ==
  ASSUME NEW S, NEW a \in Seq(S), NEW b \in Seq(S), NEW c \in Seq(S),
         NEW u, u = a \o b, NEW w, w = b \o c, NEW v, v = a \o w
  PROVE  v = u \o c
OBVIOUS

Sayings(k, S) == [1 .. k -> Seq(S)]

\* Only the last of k sayings is longer, by x.
Longer(a, b, k, x) == (\A m \in 1 .. k - 1 : b[m] = a[m]) /\ b[k] = a[k] \o x

\* What is put to the last saying is put to all that was said.
LEMMA SaidLonger ==
  ASSUME NEW S, NEW k, k \in Nat, k # 0, NEW a, a \in Sayings(k, S), NEW b, b \in Sayings(k, S),
         NEW x \in Seq(S), Longer(a, b, k, x)
  PROVE  FlattenSeq(b) = FlattenSeq(a) \o x
<1> DEFINE r == [m \in 1 .. k - 1 |-> a[m]]
           n == k - 1
<1>1. n \in Nat /\ n + 1 = k
  OBVIOUS
<1>0. /\ a \in [1 .. k -> Seq(S)] /\ b \in [1 .. k -> Seq(S)]
      /\ (\A m \in 1 .. k - 1 : b[m] = a[m]) /\ b[k] = a[k] \o x
  BY DEF Sayings, Longer
<1>2. /\ r \in [1 .. n -> Seq(S)]
      /\ \A m \in 1 .. n : a[m] = r[m]
      /\ \A m \in 1 .. n : b[m] = r[m]
  BY <1>0
<1>3. a \in [1 .. n + 1 -> Seq(S)] /\ b \in [1 .. n + 1 -> Seq(S)]
  BY <1>0, <1>1
<1> HIDE DEF r, n
<1>4. FlattenSeq(a) = FlattenSeq(r) \o a[n + 1] /\ FlattenSeq(r) \in Seq(S)
  BY <1>1, <1>2, <1>3, SaidMore
<1>5. FlattenSeq(b) = FlattenSeq(r) \o b[n + 1]
  BY <1>1, <1>2, <1>3, SaidMore
<1>6. a[n + 1] \in Seq(S) /\ b[n + 1] = a[n + 1] \o x
  <2>1. k \in 1 .. k
    BY <1>1
  <2>2. a[k] \in Seq(S)
    BY <1>0, <2>1
  <2> QED
    BY <1>0, <1>1, <2>2
<1> DEFINE f == FlattenSeq(r)
           e == a[n + 1]
<1>7. f \in Seq(S) /\ e \in Seq(S) /\ FlattenSeq(a) = f \o e /\ FlattenSeq(b) = f \o (e \o x)
  BY <1>4, <1>5, <1>6
<1> HIDE DEF f, e
<1> DEFINE u == FlattenSeq(a)
           v == FlattenSeq(b)
           w == e \o x
<1>8. /\ f \in Seq(S) /\ e \in Seq(S) /\ u = f \o e /\ w = e \o x /\ v = f \o w
      /\ x \in Seq(S)
  BY <1>7
<1> HIDE DEF u, v, w
<1>9. v = u \o x
  BY ONLY <1>8, Joined
<1> QED
  BY <1>9 DEF u, v

\* What a piece may be printed as.
LEMMA TokensAre ==
  /\ \A t \in Seq(Letters) : t \in Seq(Tokens)
  /\ \A c \in STRING : <<c>> \in Seq(Tokens)
  /\ <<Open, "?", Close>> \in Seq(Tokens)
<1>1. Letters \subseteq Tokens /\ STRING \subseteq Tokens
  BY DEF Tokens, Letters
<1>2. \A t \in Seq(Letters) : t \in Seq(Tokens)
  BY <1>1, WiderSeq
<1>3. \A c \in STRING : <<c>> \in Seq(Tokens)
  BY <1>1, OneElement
<1>4. Open \in Tokens /\ "?" \in Tokens /\ Close \in Tokens
  BY DEF Tokens
<1> DEFINE x == Open
           y == "?"
           z == Close
<1>5. x \in Tokens /\ y \in Tokens /\ z \in Tokens
  BY <1>4
<1> HIDE DEF x, y, z
<1>6. <<x, y, z>> \in Seq(Tokens)
  BY <1>5
<1> QED
  BY <1>2, <1>3, <1>6 DEF x, y, z

\* A placeholder that has its argument had it when its turn came.
LEMMA TurnDue ==
  ASSUME LineOk, NEW k \in Nat, NEW m \in 1 .. k, IsSpec(m), Turn(m) <= Len(given)
  PROVE  Turn(m) \in 1 .. Due(k)
<1>1. m \in Nat \ {0} /\ m \in Nat
  OBVIOUS
<1>2. Turn(m) \in Nat /\ Turn(m) >= 1 /\ Turn(m) <= Turn(k) /\ Turn(k) \in Nat
  <2>1. Turn(m) \in 1 .. Turn(m)
    BY <1>1, Turns
  <2>2. Turn(m) \in Nat /\ Turn(k) \in Nat
    BY <1>1, Turns
  <2>3. Turn(m) <= Turn(k)
    BY Turns
  <2> HIDE DEF Turn
  <2> QED
    BY <2>1, <2>2, <2>3
<1>3. Len(given) \in Nat
  BY LineFacts
<1> QED
  BY <1>2, <1>3 DEF Due

\* A placeholder uses an argument up, if one is left.
LEMMA DueStep ==
  ASSUME LineOk, NEW k \in Nat
  PROVE  /\ Due(k) \in 0 .. Len(given)
         /\ IsSpec(k + 1) /\ Due(k) < Len(given) =>
              /\ Turn(k + 1) = Due(k) + 1 /\ Due(k + 1) = Due(k) + 1
              /\ Turn(k + 1) <= Len(given)
         /\ IsSpec(k + 1) /\ ~(Due(k) < Len(given)) =>
              ~(Turn(k + 1) <= Len(given)) /\ Due(k + 1) = Due(k)
         /\ ~IsSpec(k + 1) => Due(k + 1) = Due(k)
<1>1. Turn(k) \in Nat /\ Len(given) \in Nat
  BY Turns, LineFacts
<1>2. Turn(k + 1) = IF IsSpec(k + 1) THEN Turn(k) + 1 ELSE Turn(k)
  BY Turns
<1> QED
  BY <1>1, <1>2 DEF Due

\* The same line means the same.
LEMMA SameLine ==
  ASSUME UNCHANGED <<line, given, text>>
  PROVE  /\ LineOk' = LineOk /\ WellFormed' = WellFormed
         /\ \A k : Place(k)' = Place(k) /\ IsSpec(k)' = IsSpec(k)
         /\ \A k : Turn(k)' = Turn(k)
         /\ \A k : Due(k)' = Due(k)
<1>1. Cs' = Cs
  BY DEF Cs
<1>2. LineOk' = LineOk
  BY <1>1 DEF LineOk
<1>3. \A k : Place(k)' = Place(k)
  BY <1>1 DEF Place
<1>4. \A k : IsSpec(k)' = IsSpec(k)
  BY DEF IsSpec
<1>5. \A k : Turn(k)' = Turn(k)
  BY DEF Turn, IsSpec
<1>6. \A k : Due(k)' = Due(k)
  BY <1>5 DEF Due
<1>7. WellFormed' = WellFormed
  BY DEF WellFormed, IsSpec
<1> QED
  BY <1>2, <1>3, <1>4, <1>5, <1>6, <1>7

\* What was said is text.
LEMMA SaidOk ==
  ASSUME ArgsOk, LineOk, NEW k \in 0 .. Len(line), i = Due(k)
  PROVE  \A m \in 1 .. k : Expected(m) \in Seq(Tokens)
<1> TAKE m \in 1 .. k
<1>1. m \in 1 .. Len(line) /\ k \in Nat
  BY LineFacts
<1>2. CASE ~IsSpec(m)
  <2>1. line[m].c \in STRING
    BY <1>1, <1>2, AtChar
  <2> QED
    BY <1>2, <2>1, TokensAre DEF Expected
<1>3. CASE IsSpec(m) /\ Turn(m) <= Len(given)
  <2>1. Turn(m) \in 1 .. i
    BY <1>1, <1>3, TurnDue
  <2>2. printed[Turn(m)] \in Seq(Letters)
    BY <2>1 DEF ArgsOk
  <2> QED
    BY <1>3, <2>2, TokensAre DEF Expected
<1>4. CASE IsSpec(m) /\ ~(Turn(m) <= Len(given))
  BY <1>4, TokensAre DEF Expected
<1> QED
  BY <1>2, <1>3, <1>4

\* What was said stays when the printed parts stay.
LEMMA ExpectedSame ==
  ASSUME LineOk, UNCHANGED <<line, given, text>>, NEW k \in Nat, i = Due(k),
         \A n \in 1 .. i : printed'[n] = printed[n]
  PROVE  \A m \in 1 .. k : Expected(m)' = Expected(m)
<1> TAKE m \in 1 .. k
<1>1. IsSpec(m)' = IsSpec(m) /\ Turn(m)' = Turn(m)
  BY SameLine
<1>2. CASE ~IsSpec(m)
  BY <1>1, <1>2 DEF Expected
<1>3. CASE IsSpec(m) /\ Turn(m) <= Len(given)
  <2>1. Turn(m) \in 1 .. i
    BY <1>3, TurnDue
  <2> QED
    BY <1>1, <1>3, <2>1 DEF Expected
<1>4. CASE IsSpec(m) /\ ~(Turn(m) <= Len(given))
  BY <1>1, <1>4 DEF Expected
<1> QED
  BY <1>2, <1>3, <1>4

\* One piece more is said.
LEMMA PieceSaid ==
  ASSUME NumInv, LineOk, UNCHANGED <<line, given, text>>, NEW k \in 0 .. Len(line),
         SaidUpTo(k), NEW e \in Seq(Tokens), console' = console \o e, Expected(k + 1)' = e,
         \A n \in 1 .. i : printed'[n] = printed[n]
  PROVE  console' = FlattenSeq(Said(k + 1))'
<1>1. i = Due(k) /\ console = FlattenSeq(Said(k)) /\ k \in Nat
  BY LineFacts DEF SaidUpTo
<1>2. \A m \in 1 .. k : Expected(m) \in Seq(Tokens)
  BY <1>1, SaidOk DEF NumInv
<1>3. \A m \in 1 .. k : Expected(m)' = Expected(m)
  BY <1>1, ExpectedSame
<1> DEFINE a == Said(k)
           b == [m \in 1 .. k + 1 |-> Expected(m)']
<1>4. a \in [1 .. k -> Seq(Tokens)]
  BY <1>2 DEF Said
<1>5. \A m \in 1 .. k + 1 : m = k + 1 \/ m \in 1 .. k
  BY <1>1
<1>6. b \in [1 .. k + 1 -> Seq(Tokens)] /\ b[k + 1] = e
  <2>1. \A m \in 1 .. k + 1 : Expected(m)' \in Seq(Tokens)
    BY <1>2, <1>3, <1>5
  <2>2. k + 1 \in 1 .. k + 1
    BY <1>1
  <2> QED
    BY <2>1, <2>2
<1>7. \A m \in 1 .. k : b[m] = a[m]
  <2>1. \A m \in 1 .. k : m \in 1 .. k + 1
    BY <1>1
  <2> QED
    BY <1>3, <2>1 DEF Said
<1>8. Said(k + 1)' = b
  BY DEF Said
<1> HIDE DEF a, b
<1>9. FlattenSeq(b) = FlattenSeq(a) \o e
  BY <1>1, <1>4, <1>6, <1>7, SaidMore
<1> QED
  BY <1>1, <1>8, <1>9 DEF a

\* The steps inside a piece.

\* A step inside a piece, or none.
LEMMA SaidStays ==
  ASSUME LineOk, NEW k \in Nat, SaidUpTo(k), UNCHANGED <<line, given, text, iter, i, args>>,
         console' = FlattenSeq(Said(k))', pc' # "walk" => pc # "walk",
         done' => done \/ k = Len(line)
  PROVE  SaidUpTo(k)'
<1>1. /\ \A m : Place(m)' = Place(m) /\ IsSpec(m)' = IsSpec(m)
      /\ \A m : Turn(m)' = Turn(m)
      /\ \A m : Due(m)' = Due(m)
  BY SameLine
<1>2. \A n \in i + 1 .. Len(given) : args'[n] = given[n]
  BY DEF SaidUpTo
<1>3. ASSUME NEW m \in 1 .. k, IsSpec(m), Turn(m) <= Len(given)
      PROVE  args'[Turn(m)].spec = Meaning(line[m], given[Turn(m)].spec)
  BY <1>3 DEF SaidUpTo
<1>4. \A m \in 1 .. k :
        (IsSpec(m) /\ Turn(m) <= Len(given) =>
          args[Turn(m)].spec = Meaning(line[m], given[Turn(m)].spec))'
  <2> TAKE m \in 1 .. k
  <2>1. /\ IsSpec(m)' = IsSpec(m) /\ Turn(m)' = Turn(m)
        /\ Meaning(line[m], given[Turn(m)].spec)' = Meaning(line[m], given[Turn(m)].spec)
    BY <1>1
  <2> QED
    BY <1>3, <2>1
<1>5. /\ iter' = Place(k + 1)' /\ i' = Due(k)' /\ Len(args') = Len(given')
      /\ pc' # "walk" => k > 0 /\ IsSpec(k)' /\ Turn(k)' <= Len(given')
      /\ done' => k = Len(line')
  BY <1>1 DEF SaidUpTo
<1> QED
  BY <1>2, <1>4, <1>5 DEF SaidUpTo

\* A step that prints nothing.
LEMMA SaidUnchanged ==
  ASSUME LineOk, NEW k \in Nat, SaidUpTo(k), Len(printed) = i,
         UNCHANGED <<line, given, text, iter, i, args, console, printed>>,
         pc' # "walk" => pc # "walk", done' => done \/ k = Len(line)
  PROVE  SaidUpTo(k)'
<1>1. i = Due(k) /\ console = FlattenSeq(Said(k))
  BY DEF SaidUpTo
<1>2. \A m \in 1 .. k : Expected(m)' = Expected(m)
  BY <1>1, ExpectedSame
<1>3. Said(k)' = Said(k)
  BY <1>2 DEF Said
<1>4. console' = FlattenSeq(Said(k))'
  BY <1>1, <1>3
<1> QED
  BY <1>4, SaidStays

\* What a formatter puts is said by its placeholder.
LEMMA PutSaid ==
  ASSUME NumInv, LineOk, NEW k \in 0 .. Len(line), SaidUpTo(k), pc # "walk", UNCHANGED walk,
         NEW t \in Seq(Letters), Put(t)
  PROVE  SaidUpTo(k)'
<1>1. /\ i = Due(k) /\ console = FlattenSeq(Said(k))
      /\ k > 0 /\ IsSpec(k) /\ Turn(k) <= Len(given)
  BY DEF SaidUpTo
<1>2. k \in Nat /\ k \in Nat \ {0} /\ i = Turn(k) /\ Turn(k) >= 1 /\ k \in 1 .. k
  <2>1. k \in Nat /\ k \in Nat \ {0} /\ k \in 1 .. k
    BY <1>1, LineFacts
  <2>2. Turn(k) \in 1 .. Turn(k) /\ Turn(k) \in Nat
    BY <1>1, <2>1, Turns
  <2>3. Due(k) = Turn(k)
    BY <1>1 DEF Due
  <2> HIDE DEF Turn
  <2> QED
    BY <1>1, <2>1, <2>2, <2>3
<1>3. i > 0 /\ ArgsOk /\ UNCHANGED <<line, given, text>>
  BY <1>2, Turns DEF NumInv, walk
<1>4. /\ printed'[i] = printed[i] \o t /\ \A n \in 1 .. i : n < i => printed'[n] = printed[n]
      /\ console' = console \o t
  BY <1>3, PutOk DEF Put
<1>5. /\ \A m : IsSpec(m)' = IsSpec(m)
      /\ \A m : Turn(m)' = Turn(m)
  BY <1>3, SameLine
<1>6. Expected(k) = printed[i] /\ Expected(k)' = printed'[i]
  BY <1>1, <1>2, <1>3, <1>5 DEF Expected
<1>7. ASSUME NEW m \in 1 .. k - 1 PROVE Expected(m)' = Expected(m)
  <2>1. CASE ~IsSpec(m)
    BY <1>3, <1>5, <2>1 DEF Expected
  <2>2. CASE IsSpec(m) /\ ~(Turn(m) <= Len(given))
    BY <1>3, <1>5, <2>2 DEF Expected
  <2>3. CASE IsSpec(m) /\ Turn(m) <= Len(given)
    <3>1. k - 1 \in Nat /\ (k - 1) + 1 = k
      BY <1>2
    <3>2. Turn(m) \in 1 .. Due(k - 1)
      BY <2>3, <3>1, TurnDue
    <3>3. Turn(k) = Turn(k - 1) + 1 /\ Turn(k - 1) \in Nat
      BY <1>1, <3>1, Turns
    <3>4. Due(k - 1) = Turn(k - 1)
      BY <1>1, <3>3, LineFacts DEF Due
    <3>5. Turn(m) \in 1 .. i /\ Turn(m) < i
      BY <1>2, <3>2, <3>3, <3>4
    <3> QED
      BY <1>3, <1>4, <1>5, <2>3, <3>5 DEF Expected
  <2> QED
    BY <2>1, <2>2, <2>3
<1>8. \A m \in 1 .. k : Expected(m) \in Seq(Tokens)
  BY <1>1, <1>3, SaidOk
<1>9. t \in Seq(Tokens)
  BY TokensAre
<1>10. console' = FlattenSeq(Said(k))'
  <2> DEFINE a == Said(k)
             b == [m \in 1 .. k |-> Expected(m)']
             T == Tokens
  <2>1. a \in [1 .. k -> Seq(T)] /\ a[k] = printed[i]
    BY <1>2, <1>6, <1>8 DEF Said
  <2>2. b[k] = a[k] \o t
    BY <1>2, <1>4, <1>6, <2>1
  <2>3. \A m \in 1 .. k - 1 : b[m] = a[m]
    <3>1. \A m \in 1 .. k - 1 : m \in 1 .. k
      BY <1>2
    <3> QED
      BY <1>7, <3>1 DEF Said
  <2>4. b \in [1 .. k -> Seq(T)]
    <3>1. printed[i] \in Seq(T) /\ t \in Seq(T)
      BY <1>2, <1>6, <1>8, <1>9
    <3> HIDE DEF T
    <3>2. printed[i] \o t \in Seq(T)
      BY <3>1, ConcatOk
    <3>3. \A m \in 1 .. k : m = k \/ m \in 1 .. k - 1
      BY <1>2
    <3>4. \A m \in 1 .. k : Expected(m)' \in Seq(T)
      BY <1>4, <1>6, <1>7, <1>8, <3>2, <3>3 DEF T
    <3> QED
      BY <3>4
  <2>5. Said(k)' = b
    BY DEF Said
  <2>6. t \in Seq(T) /\ k \in Nat \ {0}
    BY <1>2, <1>9
  <2> HIDE DEF a, b, T
  <2>7. FlattenSeq(b) = FlattenSeq(a) \o t
    <3>1. a \in Sayings(k, T) /\ b \in Sayings(k, T) /\ t \in Seq(T) /\ k \in Nat /\ k # 0
      BY <2>1, <2>4, <2>6 DEF Sayings
    <3>2. Longer(a, b, k, t)
      BY <2>2, <2>3 DEF Longer
    <3> QED
      BY <3>1, <3>2, SaidLonger
  <2> QED
    BY <1>1, <1>4, <2>5, <2>7 DEF a
<1> QED
  BY <1>2, <1>10, SaidStays DEF walk

\* A step of a formatter.
LEMMA WriteSaid ==
  ASSUME NumInv, LineOk, NEW k \in 0 .. Len(line), SaidUpTo(k), Write
  PROVE  SaidUpTo(k)'
<1>1. UNCHANGED walk /\ WriteNumber
  BY DEF Write
<1>2. k \in Nat /\ Len(printed) = i
  BY LineFacts DEF NumInv, ArgsOk
<1>3. CASE PutSpaceLeft
  <2>1. pc # "walk" /\ Put(<<" ">>)
    BY <1>3 DEF PutSpaceLeft
  <2>2. <<" ">> \in Seq(Letters)
    BY LettersAre
  <2> QED
    BY <1>1, <2>1, <2>2, PutSaid
<1>4. CASE Flush
  <2>1. pc # "walk" /\ Put(tmp)
    BY <1>4 DEF Flush
  <2>2. tmp \in Seq(Letters)
    BY <2>1, LettersAre DEF NumInv, Writing
  <2> QED
    BY <1>1, <2>1, <2>2, PutSaid
<1>5. CASE UNCHANGED <<console, printed>> /\ pc # "walk"
  BY <1>1, <1>2, <1>5, SaidUnchanged DEF walk
<1>6. PutSpaceLeft \/ Flush \/ (UNCHANGED <<console, printed>> /\ pc # "walk")
  BY <1>1 DEF WriteNumber, PutDigit, EndDigits, PutZero, PutPrefix, PutSign, Align,
     PutSpaceRight
<1> QED
  BY <1>3, <1>4, <1>5, <1>6

\* The steps from piece to piece.

\* A step over a piece.
LEMMA NextSaid ==
  ASSUME NumInv, LineOk, NEW k \in 0 .. Len(line), k < Len(line), SaidUpTo(k),
         UNCHANGED <<line, given, text>>, iter' = Place((k + 1) + 1), i' = Due(k + 1), ~done',
         pc' # "walk" => IsSpec(k + 1) /\ Turn(k + 1) <= Len(given),
         Len(args') = Len(args), \A n \in 1 .. i : args'[n] = args[n],
         \A n \in i' + 1 .. Len(given) : args'[n] = given[n],
         IsSpec(k + 1) /\ Turn(k + 1) <= Len(given) =>
           args'[Turn(k + 1)].spec = Meaning(line[k + 1], given[Turn(k + 1)].spec),
         NEW e \in Seq(Tokens), console' = console \o e, Expected(k + 1)' = e,
         \A n \in 1 .. i : printed'[n] = printed[n]
  PROVE  SaidUpTo(k + 1)'
<1>1. console' = FlattenSeq(Said(k + 1))'
  BY PieceSaid
<1>2. k \in Nat /\ k + 1 \in Nat /\ k + 1 > 0 /\ i = Due(k)
  <2>1. k \in Nat
    BY LineFacts
  <2>2. i = Due(k)
    BY DEF SaidUpTo
  <2> QED
    BY <2>1, <2>2
<1>3. /\ \A m : Place(m)' = Place(m) /\ IsSpec(m)' = IsSpec(m)
      /\ \A m : Turn(m)' = Turn(m)
      /\ \A m : Due(m)' = Due(m)
  BY SameLine
<1>4. ASSUME NEW m \in 1 .. k + 1, IsSpec(m), Turn(m) <= Len(given)
      PROVE  args'[Turn(m)].spec = Meaning(line[m], given[Turn(m)].spec)
  <2>1. CASE m = k + 1
    BY <1>4, <2>1
  <2>2. CASE m # k + 1
    <3>1. m \in 1 .. k
      BY <1>2, <2>2
    <3>2. Turn(m) \in 1 .. i
      BY <1>2, <1>4, <3>1, TurnDue
    <3>3. args[Turn(m)].spec = Meaning(line[m], given[Turn(m)].spec)
      BY <1>4, <3>1 DEF SaidUpTo
    <3> QED
      BY <3>2, <3>3
  <2> QED
    BY <2>1, <2>2
<1>5. \A m \in 1 .. k + 1 :
        (IsSpec(m) /\ Turn(m) <= Len(given) =>
          args[Turn(m)].spec = Meaning(line[m], given[Turn(m)].spec))'
  <2> TAKE m \in 1 .. k + 1
  <2>1. /\ IsSpec(m)' = IsSpec(m) /\ Turn(m)' = Turn(m)
        /\ Meaning(line[m], given[Turn(m)].spec)' = Meaning(line[m], given[Turn(m)].spec)
    BY <1>3
  <2> QED
    BY <1>4, <2>1
<1>6. /\ iter' = Place((k + 1) + 1)' /\ i' = Due(k + 1)' /\ Len(args') = Len(given')
      /\ pc' # "walk" => k + 1 > 0 /\ IsSpec(k + 1)' /\ Turn(k + 1)' <= Len(given')
      /\ done' => k + 1 = Len(line')
  BY <1>2, <1>3 DEF SaidUpTo
<1> QED
  BY <1>1, <1>5, <1>6 DEF SaidUpTo

\* A character is printed as it is.
LEMMA CharSaid ==
  ASSUME NumInv, LineOk, NEW k \in 0 .. Len(line), k < Len(line), SaidUpTo(k),
         ~IsSpec(k + 1), PrintChar
  PROVE  SaidUpTo(k + 1)'
<1>1. k \in Nat /\ k + 1 \in 1 .. Len(line) /\ iter = Place(k + 1) /\ i = Due(k)
  <2>1. k \in Nat /\ Len(line) \in Nat
    BY LineFacts
  <2>2. k + 1 \in 1 .. Len(line)
    BY <2>1
  <2> QED
    BY <2>1, <2>2 DEF SaidUpTo
<1>2. /\ Place((k + 1) + 1) = iter + 1 /\ At(iter) = line[k + 1].c /\ line[k + 1].c \in STRING
  BY <1>1, AtChar
<1>3. /\ UNCHANGED <<line, given, text, args, printed, i, done, pc>> /\ iter' = iter + 1
      /\ console' = console \o <<line[k + 1].c>> /\ pc = "walk" /\ ~done
  BY <1>2 DEF PrintChar, Pass, Walking, number
<1>4. Due(k + 1) = i
  BY <1>1, DueStep
<1>5. Expected(k + 1)' = <<line[k + 1].c>>
  <2>1. ~IsSpec(k + 1)'
    BY <1>3, SameLine
  <2> QED
    BY <1>3, <2>1 DEF Expected
<1>6. <<line[k + 1].c>> \in Seq(Tokens)
  BY <1>2, TokensAre
<1>7. \A n \in i' + 1 .. Len(given) : args'[n] = given[n]
  BY <1>3 DEF SaidUpTo
<1> QED
  BY <1>2, <1>3, <1>4, <1>5, <1>6, <1>7, NextSaid

\* A placeholder too many is printed as a question.
LEMMA UnknownSaid ==
  ASSUME NumInv, LineOk, NEW k \in 0 .. Len(line), k < Len(line), SaidUpTo(k),
         IsSpec(k + 1), PrintUnknown
  PROVE  SaidUpTo(k + 1)'
<1>1. /\ k \in Nat /\ k + 1 \in 1 .. Len(line) /\ iter = Place(k + 1) /\ i = Due(k)
      /\ Len(args) = Len(given)
  <2>1. k \in Nat /\ Len(line) \in Nat
    BY LineFacts
  <2>2. k + 1 \in 1 .. Len(line)
    BY <2>1
  <2> QED
    BY <2>1, <2>2 DEF SaidUpTo
<1>2. fmt_end = Place((k + 1) + 1)
  BY <1>1, AtSpec
<1>3. /\ UNCHANGED <<line, given, text, args, printed, i, done, pc>> /\ iter' = fmt_end
      /\ console' = console \o <<Open, "?", Close>> /\ pc = "walk" /\ ~done /\ i >= Len(args)
  BY DEF PrintUnknown, Pass, Walking, number
<1>4. Due(k + 1) = i /\ ~(Turn(k + 1) <= Len(given))
  <2>1. Due(k) \in 0 .. Len(given) /\ Len(given) \in Nat
    BY <1>1, DueStep, LineFacts
  <2>2. ~(Due(k) < Len(given))
    BY <1>1, <1>3, <2>1
  <2> QED
    BY <1>1, <2>2, DueStep
<1>5. Expected(k + 1)' = <<Open, "?", Close>>
  <2>1. IsSpec(k + 1)' /\ Turn(k + 1)' = Turn(k + 1)
    BY <1>3, SameLine
  <2> QED
    BY <1>3, <1>4, <2>1 DEF Expected
<1>6. <<Open, "?", Close>> \in Seq(Tokens)
  BY TokensAre
<1>7. \A n \in i' + 1 .. Len(given) : args'[n] = given[n]
  BY <1>3 DEF SaidUpTo
<1> DEFINE e == <<Open, "?", Close>>
<1>8. e \in Seq(Tokens) /\ Expected(k + 1)' = e /\ console' = console \o e
  BY <1>3, <1>5, <1>6
<1> HIDE DEF e
<1> QED
  BY <1>2, <1>3, <1>4, <1>7, <1>8, NextSaid

\* An argument is printed in the format its placeholder asks for.
LEMMA ArgSaid ==
  ASSUME NumInv, LineOk, NEW k \in 0 .. Len(line), k < Len(line), SaidUpTo(k),
         IsSpec(k + 1), ParseArg, NEW e \in Seq(Letters), printed' = Append(printed, e),
         console' = console \o e
  PROVE  SaidUpTo(k + 1)'
<1>1. /\ k \in Nat /\ k + 1 \in 1 .. Len(line) /\ iter = Place(k + 1) /\ i = Due(k)
      /\ Len(args) = Len(given) /\ \A n \in i + 1 .. Len(given) : args[n] = given[n]
  <2>1. k \in Nat /\ Len(line) \in Nat
    BY LineFacts
  <2>2. k + 1 \in 1 .. Len(line)
    BY <2>1
  <2> QED
    BY <2>1, <2>2 DEF SaidUpTo
<1>2. /\ fmt_end = Place((k + 1) + 1)
      /\ \A spec \in FmtSpec : parse_fmt(iter + 1, spec) = Meaning(line[k + 1], spec)
  BY <1>1, AtSpec
<1>3. /\ UNCHANGED <<line, given, text, done>> /\ iter' = fmt_end /\ ~done /\ i' = i + 1
      /\ i < Len(args) /\ args' = [args EXCEPT ![i + 1].spec = parse_fmt(iter + 1, @)]
  BY DEF ParseArg, Walking
<1>4. /\ Turn(k + 1) = i + 1 /\ Due(k + 1) = i + 1 /\ Turn(k + 1) <= Len(given)
      /\ i \in Nat /\ Len(given) \in Nat
  <2>1. Due(k) \in 0 .. Len(given) /\ Len(given) \in Nat
    BY <1>1, DueStep, LineFacts
  <2>2. Due(k) < Len(given) /\ Due(k) \in Nat
    BY <1>1, <1>3, <2>1
  <2> QED
    BY <1>1, <2>1, <2>2, DueStep
<1>5. /\ args \in Seq(ErasedArg) /\ printed \in Seq(Seq(Letters)) /\ Len(printed) = i
  BY DEF NumInv, ArgsOk
<1>6. i + 1 \in 1 .. Len(given) /\ i + 1 \in i + 1 .. Len(given)
  BY <1>4
<1>7. args[i + 1] = given[i + 1] /\ args[i + 1] \in ErasedArg /\ DOMAIN args = 1 .. Len(given)
  BY <1>1, <1>5, <1>6
<1>8. given[i + 1].spec \in FmtSpec
  BY <1>7 DEF ErasedArg
<1> DEFINE s == parse_fmt(iter + 1, args[i + 1].spec)
<1>9. s = Meaning(line[k + 1], given[i + 1].spec)
  BY <1>2, <1>7, <1>8
<1>10. args' = [args EXCEPT ![i + 1] = [args[i + 1] EXCEPT !.spec = s]]
  BY <1>3
<1> HIDE DEF s
<1>11. args'[i + 1].spec = s
  <2>1. args'[i + 1] = [args[i + 1] EXCEPT !.spec = s]
    BY <1>6, <1>7, <1>10
  <2>2. [args[i + 1] EXCEPT !.spec = s].spec = s
    BY <1>7 DEF ErasedArg
  <2> QED
    BY <2>1, <2>2
<1>12. /\ \A n \in 1 .. i : args'[n] = args[n]
       /\ \A n \in i' + 1 .. Len(given) : args'[n] = given[n]
       /\ Len(args') = Len(args)
  <2>1. \A n \in 1 .. Len(given) : n # i + 1 => args'[n] = args[n]
    BY <1>7, <1>10
  <2>2. ASSUME NEW n \in 1 .. i PROVE args'[n] = args[n]
    <3>1. n \in 1 .. Len(given) /\ n # i + 1
      BY <1>4, <1>6
    <3> QED
      BY <2>1, <3>1
  <2>3. ASSUME NEW n \in i' + 1 .. Len(given) PROVE args'[n] = given[n]
    <3>1. n \in 1 .. Len(given) /\ n # i + 1 /\ n \in i + 1 .. Len(given)
      BY <1>3, <1>4
    <3> QED
      BY <1>1, <2>1, <3>1
  <2>4. Len(args') = Len(args)
    BY ParseArgNum
  <2> QED
    BY <2>2, <2>3, <2>4
<1>13. printed'[i + 1] = e /\ \A n \in 1 .. i : printed'[n] = printed[n]
  BY <1>5
<1>14. Expected(k + 1)' = e
  <2>1. IsSpec(k + 1)' /\ Turn(k + 1)' = i + 1
    BY <1>3, <1>4, SameLine
  <2> QED
    BY <1>3, <1>4, <1>13, <2>1 DEF Expected
<1>15. e \in Seq(Tokens)
  BY TokensAre
<1>16. args'[Turn(k + 1)].spec = Meaning(line[k + 1], given[Turn(k + 1)].spec)
  BY <1>4, <1>9, <1>11
<1> QED
  BY <1>2, <1>3, <1>4, <1>12, <1>13, <1>14, <1>15, <1>16, NextSaid

\* Before the first piece.
LEMMA LineInitInv ==
  ASSUME LinesAreStrings, LinesAreOfPieces, ArgumentsAreValues, Init
  PROVE  LineInv
<1>1. PICK call \in Calls : line = call.line /\ given = call.args
  BY DEF Init
<1>2. text = Text(line) /\ args = given /\ iter = 1 /\ i = 0 /\ ~done /\ pc = "walk" /\ console = <<>>
  BY DEF Init
<1>3. LineOk
  <2>1. Cs \in Seq(Seq(STRING))
    BY <1>1 DEF LinesAreStrings, Cs
  <2>2. line \in Seq(Character \cup Placeholder)
    BY <1>1 DEF LinesAreOfPieces
  <2>3. given \in Seq(ErasedArg)
    BY <1>1 DEF ArgumentsAreValues
  <2>4. text = FlattenSeq(Cs)
    BY <1>2 DEF Text, Cs
  <2> QED
    BY <2>1, <2>2, <2>3, <2>4 DEF LineOk
<1>4. Len(line) \in Nat /\ Len(given) \in Nat
  BY <1>3, LineFacts
<1>5. Place(0 + 1) = 1
  <2>1. Flat(Cs, 0) = <<>> /\ Len(<<>>) = 0
    BY DEF Flat
  <2>2. (0 + 1) - 1 = 0
    OBVIOUS
  <2> QED
    BY <2>1, <2>2 DEF Place
<1>6. Due(0) = 0
  BY <1>4, Turns DEF Due
<1>7. FlattenSeq(Said(0)) = <<>>
  <2> DEFINE a == Said(0)
             S == Tokens
             R == Seq(S)
  <2>1. a \in Seq(R) /\ Len(a) = 0
    <3>1. a = <<>>
      BY DEF Said
    <3>2. <<>> \in Seq(R) /\ Len(<<>>) = 0
      OBVIOUS
    <3> HIDE DEF a, R
    <3> QED
      BY <3>1, <3>2
  <2> HIDE DEF a, S
  <2>2. FlattenSeq(a) = Flat(a, 0) /\ Flat(a, 0) = <<>>
    BY <2>1, FlatFacts
  <2> QED
    BY <2>2 DEF a
<1>8. SaidUpTo(0)
  BY <1>2, <1>5, <1>6, <1>7 DEF SaidUpTo
<1> QED
  BY <1>3, <1>4, <1>8 DEF LineInv

\* Each step of writef ends at a piece, or is inside of one.
LEMMA LineStep ==
  ASSUME NumInv, LineOk, WellFormed, NEW k \in 0 .. Len(line), SaidUpTo(k), Next
  PROVE  \E m \in 0 .. Len(line) : SaidUpTo(m)'
<1>1. k \in Nat /\ Len(line) \in Nat /\ Len(printed) = i
  BY LineFacts DEF NumInv, ArgsOk
<1>2. iter = Place(k + 1)
  BY DEF SaidUpTo
<1>3. CASE Write
  BY <1>3, WriteSaid
<1>4. CASE k = Len(line) /\ ~Write
  <2>1. At(iter) = NUL
    BY <1>2, <1>4, AtEnd
  <2>2. At(iter) # Open /\ At(iter) # Quote
    BY <2>1 DEF NUL, Open, Quote
  <2>3. Finish
    BY <1>4, <2>1, <2>2 DEF Next, PrintNumber, PrintString, PrintUnknown, StopAtOpen, Escape,
       PrintChar, ParseArg, AtEscape
  <2>4. /\ UNCHANGED <<line, given, text, iter, i, args, console, printed>>
        /\ pc' # "walk" => pc # "walk"
    BY <2>3 DEF Finish, number
  <2>5. SaidUpTo(k)'
    BY <1>1, <1>4, <2>4, SaidUnchanged
  <2> QED
    BY <2>5
<1>5. CASE k # Len(line) /\ ~Write
  <2>1. k < Len(line) /\ k + 1 \in 1 .. Len(line) /\ k + 1 \in 0 .. Len(line)
    BY <1>1, <1>5
  <2>2. CASE ~IsSpec(k + 1)
    <3>1. At(iter) \notin {NUL, Open} /\ ~AtEscape
      BY <1>2, <2>1, <2>2, NoEscape
    <3>2. PrintChar
      BY <1>5, <3>1 DEF Next, PrintNumber, PrintString, PrintUnknown, StopAtOpen, Escape,
         Finish, ParseArg
    <3> QED
      BY <2>1, <2>2, <3>2, CharSaid
  <2>3. CASE IsSpec(k + 1)
    <3>1. At(iter) = Open /\ Closing # {}
      BY <1>2, <2>1, <2>3, AtSpec
    <3>2. At(iter) # NUL /\ At(iter) # Quote
      BY <3>1 DEF NUL, Open, Quote
    <3>3. PrintNumber \/ PrintString \/ PrintUnknown
      BY <1>5, <3>1, <3>2 DEF Next, StopAtOpen, Escape, PrintChar, Finish, AtEscape
    <3>4. CASE PrintUnknown
      BY <2>1, <2>3, <3>4, UnknownSaid
    <3>5. CASE PrintNumber
      <4>1. ParseArg /\ printed' = Append(printed, <<>>) /\ console' = console
        BY <3>5 DEF PrintNumber
      <4>2. console \in Seq(Tokens)
        <5>1. console = FlattenSeq(Said(k)) /\ i = Due(k)
          BY DEF SaidUpTo
        <5>2. \A m \in 1 .. k : Expected(m) \in Seq(Tokens)
          BY <5>1, SaidOk DEF NumInv
        <5> DEFINE R == Seq(Tokens)
        <5>3. \A m \in 1 .. k : Expected(m) \in R
          BY <5>2
        <5> HIDE DEF R
        <5>4. Said(k) \in Seq(R)
          BY <1>1, <5>3 DEF Said
        <5> QED
          BY <5>1, <5>4, FlatType DEF R
      <4>3. console' = console \o <<>>
        BY <4>1, <4>2
      <4>4. <<>> \in Seq(Letters)
        OBVIOUS
      <4> QED
        BY <2>1, <2>3, <4>1, <4>3, <4>4, ArgSaid
    <3>6. CASE PrintString
      <4> DEFINE e == Shown(args'[i + 1])
      <4>1. ParseArg /\ printed' = Append(printed, e) /\ console' = console \o e
        BY <3>6 DEF PrintString
      <4>2. e \in Seq(Letters)
        <5>1. ArgsOk'
          BY <3>6, PrintStringNum DEF NumInv
        <5>2. printed' \in Seq(Seq(Letters)) /\ i' = i + 1 /\ Len(printed') = i'
          BY <4>1, <5>1 DEF ArgsOk, ParseArg
        <5>3. i \in Nat /\ printed \in Seq(Seq(Letters))
          BY DEF NumInv, ArgsOk
        <5> HIDE DEF e
        <5>4. printed'[i + 1] = e
          BY <1>1, <4>1, <5>3
        <5>5. i + 1 \in 1 .. Len(printed')
          BY <5>2, <5>3
        <5> DEFINE R == Seq(Letters)
        <5> HIDE DEF R
        <5>6. printed'[i + 1] \in R
          BY <5>2, <5>5, Elements DEF R
        <5> QED
          BY <5>4, <5>6 DEF R
      <4> HIDE DEF e
      <4> QED
        BY <2>1, <2>3, <4>1, <4>2, ArgSaid
    <3> QED
      BY <3>3, <3>4, <3>5, <3>6
  <2> QED
    BY <2>2, <2>3
<1> QED
  BY <1>3, <1>4, <1>5

\* Every step keeps to the line.
LEMMA LineInvStays ==
  ASSUME NumInv, LineInv, [Next]_vars
  PROVE  LineInv'
<1>1. LineOk
  BY DEF LineInv
<1>2. UNCHANGED <<line, given, text>>
  BY DEF Next, PrintNumber, PrintString, PrintUnknown, StopAtOpen, Escape, PrintChar, Finish,
     Write, ParseArg, Pass, vars, walk
<1>3. LineOk' /\ WellFormed' = WellFormed /\ Len(line') = Len(line)
  BY <1>1, <1>2, SameLine
<1>4. ASSUME WellFormed
      PROVE  \E m \in 0 .. Len(line) : SaidUpTo(m)'
  <2>1. PICK k \in 0 .. Len(line) : SaidUpTo(k)
    BY <1>4 DEF LineInv
  <2>2. CASE Next
    BY <1>1, <1>4, <2>1, <2>2, LineStep
  <2>3. CASE UNCHANGED vars
    <3>1. UNCHANGED <<line, given, text, iter, i, args, console, printed, pc, done>>
      BY <2>3 DEF vars, walk, number
    <3>2. k \in Nat /\ Len(printed) = i
      BY <1>1, LineFacts DEF NumInv, ArgsOk
    <3>3. SaidUpTo(k)'
      BY <1>1, <2>1, <3>1, <3>2, SaidUnchanged
    <3> QED
      BY <3>3
  <2> QED
    BY <2>2, <2>3
<1>5. WellFormed' => \E m \in 0 .. Len(line') : SaidUpTo(m)'
  BY <1>3, <1>4
<1> QED
  BY <1>3, <1>5 DEF LineInv

\* At the end of the line all of it is said.
LEMMA LineInvTells ==
  ASSUME LineInv
  PROVE  PrintsTheLine
<1> SUFFICES ASSUME done, WellFormed
             PROVE  /\ console = FlattenSeq([k \in DOMAIN line |-> Expected(k)])
                    /\ \A k \in DOMAIN line :
                          IsSpec(k) /\ Turn(k) <= Len(given) =>
                            args[Turn(k)].spec = Meaning(line[k], given[Turn(k)].spec)
  BY DEF PrintsTheLine
<1>1. PICK k \in 0 .. Len(line) : SaidUpTo(k)
  BY DEF LineInv
<1>2. k = Len(line) /\ DOMAIN line = 1 .. k
  BY <1>1, LineFacts DEF LineInv, SaidUpTo
<1>3. Said(k) = [m \in DOMAIN line |-> Expected(m)]
  BY <1>2 DEF Said
<1>4. console = FlattenSeq([m \in DOMAIN line |-> Expected(m)])
  BY <1>1, <1>3 DEF SaidUpTo
<1> QED
  BY <1>1, <1>2, <1>4 DEF SaidUpTo

-----------------------------------------------------------------------------
(***************************************************************************)
(* Both.                                                                   *)
(***************************************************************************)
\* A step of the one leaves the other alone.
LEMMA OneOfTwo ==
  ASSUME [ConsoleNext]_<<vars, printk>>
  PROVE  [P!Next]_P!vars /\ [Next]_vars
BY DEF ConsoleNext, printk, P!vars

\* The array of printk's %d and %u (printk.cpp:26-64) holds every int, and every
\* unsigned number of up to eleven digits.
THEOREM EveryIntFits == P!ArgumentsFit /\ ConsoleSpec => []BufferHolds
<1> SUFFICES ASSUME P!ArgumentsFit PROVE ConsoleSpec => []BufferHolds
  OBVIOUS
<1>1. ConsoleInit => PrintInv
  BY PrintInvStays DEF ConsoleInit
<1>2. PrintInv /\ [ConsoleNext]_<<vars, printk>> => PrintInv'
  BY PrintInvStays, OneOfTwo
<1>3. PrintInv => BufferHolds
  BY PrintInvTells
<1> QED
  BY <1>1, <1>2, <1>3, PTL DEF ConsoleSpec

\* printk (printk.cpp:9-103) prints, for every format whose directives are
\* complete and all numbers that fit the array, what the format says.
THEOREM PrintsEveryFormat == P!ArgumentsFit /\ ConsoleSpec => []PrintsTheFormat
<1> SUFFICES ASSUME P!ArgumentsFit PROVE ConsoleSpec => []PrintsTheFormat
  OBVIOUS
<1>1. ConsoleInit => PrintInv
  BY PrintInvStays DEF ConsoleInit
<1>2. PrintInv /\ [ConsoleNext]_<<vars, printk>> => PrintInv'
  BY PrintInvStays, OneOfTwo
<1>3. PrintInv => PrintsTheFormat
  BY PrintInvTells
<1> QED
  BY <1>1, <1>2, <1>3, PTL DEF ConsoleSpec

\* Whatever the format string, the arguments and the length of the buffer,
\* writef reads nothing past the end of the string (io_core.hpp:50-79) and puts
\* nothing before the beginning of the backward_buffer (buffer.hpp:9-16).
THEOREM WritesInsideArrays == LinesAreStrings /\ ConsoleSpec => []InsideArrays
<1> SUFFICES ASSUME LinesAreStrings PROVE ConsoleSpec => []InsideArrays
  OBVIOUS
<1>1. Capacity \in Nat \ {0}
  BY RoomForADigit
<1>2. ConsoleInit => WriteInv
  BY <1>1, WriteInitInv DEF ConsoleInit
<1>3. WriteInv /\ [ConsoleNext]_<<vars, printk>> => WriteInv'
  BY <1>1, WriteInvStays, OneOfTwo
<1>4. WriteInv => InsideArrays
  BY DEF WriteInv, InsideArrays
<1> QED
  BY <1>2, <1>3, <1>4, PTL DEF ConsoleSpec

\* Every number that fits the buffer, whatever its value and its format, is
\* printed so that it reads back as the value it was, and fills the width it was
\* given (integer.hpp:71-125).
THEOREM NumbersAreReadBack ==
  LinesAreStrings /\ ArgumentsAreValues /\ ConsoleSpec => []NumbersReadBack
<1> SUFFICES ASSUME LinesAreStrings, ArgumentsAreValues
             PROVE  ConsoleSpec => []NumbersReadBack
  OBVIOUS
<1>1. ConsoleInit => NumInv
  BY NumInitInv DEF ConsoleInit
<1>2. NumInv /\ [ConsoleNext]_<<vars, printk>> => NumInv'
  BY NumInvStays, OneOfTwo
<1>3. NumInv => NumbersReadBack
  BY NumInvTells
<1> QED
  BY <1>1, <1>2, <1>3, PTL DEF ConsoleSpec

\* Every line of plain characters and placeholders of the grammar, whatever its
\* length and its arguments, is printed piece by piece, every argument in the
\* format its placeholder asks for (fmt_core.hpp:140-195, io_core.hpp:45-82).
THEOREM EveryLineIsPrinted ==
  LinesAreStrings /\ LinesAreOfPieces /\ ArgumentsAreValues /\ ConsoleSpec => []PrintsTheLine
<1> SUFFICES ASSUME LinesAreStrings, LinesAreOfPieces, ArgumentsAreValues
             PROVE  ConsoleSpec => []PrintsTheLine
  OBVIOUS
<1>1. ConsoleInit => NumInv /\ LineInv
  BY NumInitInv, LineInitInv DEF ConsoleInit
<1>2. NumInv /\ LineInv /\ [ConsoleNext]_<<vars, printk>> => (NumInv /\ LineInv)'
  BY NumInvStays, LineInvStays, OneOfTwo
<1>3. NumInv /\ LineInv => PrintsTheLine
  BY LineInvTells
<1> QED
  BY <1>1, <1>2, <1>3, PTL DEF ConsoleSpec

=============================================================================
