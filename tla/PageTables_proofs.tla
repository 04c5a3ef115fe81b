-------------------------- MODULE PageTables_proofs --------------------------
(***************************************************************************)
(* For every number of entries per table, every page size, every RAM and   *)
(* every sequence of calls of map: a virtual page maps to what was asked   *)
(* for it or to nothing, mappings stay, every page has one use, and when   *)
(* map returns all that was asked for is mapped.                           *)
(***************************************************************************)
EXTENDS PageTables, WellFoundedInduction, SequenceTheorems, TLAPS

-----------------------------------------------------------------------------
\* Arithmetic.

\* A quotient is determined by its bounds.
LEMMA DivUnique ==
  ASSUME NEW a \in Nat, NEW P \in Nat \ {0}, NEW q \in Int,
         q * P <= a, a < q * P + P
  PROVE  a \div P = q
  OBVIOUS

\* The quotient and its remainder.
LEMMA DivLaw ==
  ASSUME NEW a \in Nat, NEW P \in Nat \ {0}
  PROVE  /\ a \div P \in Nat
         /\ a % P \in 0 .. P - 1
         /\ a = (a \div P) * P + (a % P)
  OBVIOUS

\* Products of naturals.
LEMMA MulType ==
  ASSUME NEW a \in Nat, NEW b \in Nat
  PROVE  a * b \in Nat
  OBVIOUS

\* Multiples of P are at least P apart.
LEMMA MulMono ==
  ASSUME NEW a \in Int, NEW b \in Int, NEW P \in Nat \ {0}, a < b
  PROVE  a * P + P <= b * P
  OBVIOUS

\* A multiple of P and a remainder.
LEMMA DivOfSum ==
  ASSUME NEW q \in Nat, NEW P \in Nat \ {0}, NEW r \in 0 .. P - 1
  PROVE  (q * P + r) \div P = q /\ (q * P + r) % P = r
<1>1. q * P \in Nat
  BY MulType
<1>2. q * P + r \in Nat
  BY <1>1
<1>3. (q * P + r) \div P = q
  BY <1>1, <1>2, DivUnique
<1> QED
  BY <1>1, <1>2, <1>3, DivLaw

\* Dividing in two steps.
LEMMA DivDiv ==
  ASSUME NEW a \in Nat, NEW C \in Nat \ {0}, NEW P \in Nat \ {0}
  PROVE  a \div (C * P) = (a \div C) \div P
<1> DEFINE n == a \div C
           m == n \div P
           s == n % P
           t == a % C
<1>1. n \in Nat /\ t \in 0 .. C - 1 /\ a = n * C + t
  BY DivLaw
<1>2. m \in Nat /\ s \in 0 .. P - 1 /\ n = m * P + s
  BY <1>1, DivLaw
<1> HIDE DEF n, m, s, t
<1>3. C * P \in Nat \ {0}
  OBVIOUS
<1>4. a = m * (C * P) + (s * C + t)
  BY <1>1, <1>2
<1>5. s * C + t \in 0 .. C * P - 1
  <2>1. s * C + C <= P * C
    BY <1>2, MulMono
  <2>2. s * C \in Nat
    BY <1>2, MulType
  <2> QED  BY <1>1, <2>1, <2>2
<1>6. a \div (C * P) = m
  BY <1>2, <1>3, <1>4, <1>5, DivOfSum
<1> QED
  BY <1>6 DEF m, n

\* The remainder of the whole has the same low part.
LEMMA ModDiv ==
  ASSUME NEW a \in Nat, NEW C \in Nat \ {0}, NEW P \in Nat \ {0}
  PROVE  (a % (C * P)) \div C = (a \div C) % P
<1> DEFINE n == a \div C
           m == n \div P
           s == n % P
           t == a % C
<1>1. n \in Nat /\ t \in 0 .. C - 1 /\ a = n * C + t
  BY DivLaw
<1>2. m \in Nat /\ s \in 0 .. P - 1 /\ n = m * P + s
  BY <1>1, DivLaw
<1> HIDE DEF n, m, s, t
<1>3. C * P \in Nat \ {0}
  OBVIOUS
<1>4. a = m * (C * P) + (s * C + t)
  BY <1>1, <1>2
<1>5. s * C + t \in 0 .. C * P - 1
  <2>1. s * C + C <= P * C
    BY <1>2, MulMono
  <2>2. s * C \in Nat
    BY <1>2, MulType
  <2> QED  BY <1>1, <2>1, <2>2
<1>6. a % (C * P) = s * C + t
  BY <1>2, <1>3, <1>4, <1>5, DivOfSum
<1>7. (s * C + t) \div C = s
  BY <1>1, <1>2, DivOfSum
<1> QED
  BY <1>6, <1>7 DEF s, n

-----------------------------------------------------------------------------
\* The geometry of the tables.

\* An entry of one level covers R of the next.
LEMMA Covers ==
  /\ \A l \in Levels : Cover[l] \in Nat \ {0}
  /\ Cover[0] = Cover[1] * R /\ Cover[1] = Cover[2] * R /\ Cover[2] = Cover[3] * R
  /\ Cover[3] = 1
  /\ Space = Cover[0] * R /\ Space \in Nat \ {0}
<1>1. /\ Cover[0] = R * R * R /\ Cover[1] = R * R /\ Cover[2] = R /\ Cover[3] = 1
  BY DEF Cover, Levels
<1>2. R \in Nat \ {0}
  BY PageTablesAssumption
<1>3. R * R \in Nat \ {0} /\ R * R * R \in Nat \ {0} /\ R * R * R * R \in Nat \ {0}
  BY <1>2
<1> QED
  BY <1>1, <1>2, <1>3 DEF Levels, Space

\* Half is a whole number of chunks of every level.
LEMMA Halves ==
  /\ Half \in Nat \ {0} /\ Space = 2 * Half /\ Top = 2 * Space
  /\ \A l \in Levels : \E n \in Nat : Half = n * Cover[l]
<1> DEFINE h == R \div 2
<1>1. R \in Nat \ {0} /\ h \in Nat \ {0} /\ R = 2 * h
  BY PageTablesAssumption
<1> HIDE DEF h
<1>2. Half = Cover[0] * h /\ Space = 2 * Half /\ Half \in Nat \ {0}
  <2>1. Cover[0] \in Nat \ {0} /\ Space = Cover[0] * R
    BY Covers DEF Levels
  <2>2. Cover[0] * R = (Cover[0] * h) * 2 /\ Cover[0] * h \in Nat \ {0}
    BY <1>1, <2>1
  <2> QED  BY <2>1, <2>2 DEF Half
<1>3. \E n \in Nat : Half = n * Cover[0]
  BY <1>1, <1>2, Covers DEF Levels
<1>4. \E n \in Nat : Half = n * Cover[1]
  <2>1. Half = (h * R) * Cover[1] /\ h * R \in Nat
    BY <1>1, <1>2, Covers DEF Levels
  <2> QED  BY <2>1
<1>5. \E n \in Nat : Half = n * Cover[2]
  <2>1. Half = (h * R * R) * Cover[2] /\ h * R * R \in Nat
    BY <1>1, <1>2, Covers DEF Levels
  <2> QED  BY <2>1
<1>6. \E n \in Nat : Half = n * Cover[3]
  BY <1>2, Covers
<1> QED
  BY <1>2, <1>3, <1>4, <1>5, <1>6 DEF Levels, Top

\* A remainder of a remainder.
LEMMA ModMod ==
  ASSUME NEW a \in Nat, NEW C \in Nat \ {0}, NEW P \in Nat \ {0}
  PROVE  (a % (C * P)) % C = a % C
<1> DEFINE D == C * P
           b == a % D
           m == a \div D
           n == b \div C
           t == b % C
<1>1. D \in Nat \ {0}
  OBVIOUS
<1> HIDE DEF D
<1>2. m \in Nat /\ b \in Nat /\ a = m * D + b
  BY <1>1, DivLaw
<1> HIDE DEF b, m
<1>3. n \in Nat /\ t \in 0 .. C - 1 /\ b = n * C + t
  BY <1>2, DivLaw
<1> HIDE DEF n, t
<1>4. a = (m * P + n) * C + t
  <2>1. m * D = (m * P) * C
    BY <1>2 DEF D
  <2>2. (m * P) * C + n * C = (m * P + n) * C
    BY <1>2, <1>3
  <2> QED  BY <1>1, <1>2, <1>3, <2>1, <2>2
<1>5. m * P + n \in Nat
  BY <1>2, <1>3, MulType
<1>6. a % C = t
  BY <1>3, <1>4, <1>5, DivOfSum
<1> QED
  BY <1>6 DEF t, b, D

\* The remainder of a number known to be a multiple and a remainder.
LEMMA ModIs ==
  ASSUME NEW a \in Nat, NEW P \in Nat \ {0}, NEW r \in 0 .. P - 1,
         \E q \in Nat : a = q * P + r
  PROVE  a % P = r
<1>1. PICK q \in Nat : a = q * P + r
  OBVIOUS
<1>2. (q * P + r) % P = r
  BY DivOfSum
<1> QED
  BY <1>1, <1>2

\* Every level's chunks fill the space, an index of them times R.
LEMMA SpaceOf ==
  ASSUME NEW l \in Levels
  PROVE  \E K \in Nat \ {0} : Space = Cover[l] * (R * K)
<1>1. R \in Nat \ {0} /\ \A k \in Levels : Cover[k] \in Nat \ {0}
  BY PageTablesAssumption, Covers
<1>2. CASE l = 0
  BY <1>1, <1>2, Covers DEF Levels
<1>3. CASE l = 1
  BY <1>1, <1>3, Covers DEF Levels
<1>4. CASE l = 2
  <2>1. Space = Cover[2] * (R * (R * R)) /\ R * R \in Nat \ {0}
    BY <1>1, Covers DEF Levels
  <2> QED  BY <1>4, <2>1
<1>5. CASE l = 3
  <2>1. Space = 1 * (R * (R * R * R)) /\ R * R * R \in Nat \ {0}
    BY <1>1, Covers DEF Levels
  <2> QED  BY <1>5, <2>1, Covers
<1> QED
  BY <1>2, <1>3, <1>4, <1>5 DEF Levels

\* A physical address does not depend on how virtual ones wrap.
LEMMA HalfMod ==
  ASSUME NEW a \in Nat
  PROVE  (a % Space) % Half = a % Half
<1>1. PICK P \in Nat \ {0} : P = 2
  OBVIOUS
<1>2. Half \in Nat \ {0} /\ Space = Half * P
  BY <1>1, Halves
<1>3. (a % (Half * P)) % Half = a % Half
  BY <1>2, ModMod
<1> QED
  BY <1>2, <1>3

\* An index is one of a table's entries.
LEMMA IndexIn ==
  ASSUME NEW l \in Levels, NEW v \in Nat
  PROVE  Index(l, v) \in 0 .. R - 1
<1> DEFINE n == v \div Cover[l]
<1>1. n \in Nat
  BY Covers, DivLaw
<1> HIDE DEF n
<1>2. R \in Nat \ {0}
  BY PageTablesAssumption
<1>3. n % R \in 0 .. R - 1
  BY <1>1, <1>2, DivLaw
<1> QED
  BY <1>3 DEF Index, n

\* The higher half is translated like the lower one.
LEMMA IndexWraps ==
  ASSUME NEW l \in Levels, NEW v \in Nat
  PROVE  Index(l, v % Space) = Index(l, v)
<1>1. PICK K \in Nat \ {0} : Space = Cover[l] * (R * K)
  BY SpaceOf
<1>2. R \in Nat \ {0} /\ Cover[l] \in Nat \ {0} /\ R * K \in Nat \ {0}
  BY PageTablesAssumption, Covers
<1>3. (v % Space) \div Cover[l] = (v \div Cover[l]) % (R * K)
  BY <1>1, <1>2, ModDiv
<1>4. v \div Cover[l] \in Nat
  BY <1>2, DivLaw
<1>5. ((v \div Cover[l]) % (R * K)) % R = (v \div Cover[l]) % R
  BY <1>2, <1>4, ModMod
<1> QED
  BY <1>3, <1>5 DEF Index

\* One digit more.
LEMMA NextDigit ==
  ASSUME NEW v \in Nat, NEW k \in {0, 1, 2}
  PROVE  v \div Cover[k + 1] = (v \div Cover[k]) * R + Index(k + 1, v)
<1>1. /\ R \in Nat \ {0} /\ k + 1 \in Levels
      /\ Cover[k + 1] \in Nat \ {0} /\ Cover[k] = Cover[k + 1] * R
  BY PageTablesAssumption, Covers DEF Levels
<1> DEFINE n == v \div Cover[k + 1]
<1>2. n \in Nat
  BY <1>1, DivLaw
<1>3. v \div Cover[k] = n \div R
  BY <1>1, DivDiv
<1> HIDE DEF n
<1>4. n = (n \div R) * R + (n % R)
  BY <1>1, <1>2, DivLaw
<1> QED
  BY <1>3, <1>4 DEF Index, n

\* Virtual pages with the same indices down to a level lie in one chunk of it.
SameIndices(l, u, v) == \A k \in 0 .. l : Index(k, u) = Index(k, v)

LEMMA Digits ==
  ASSUME NEW u \in 0 .. Space - 1, NEW v \in 0 .. Space - 1,
         NEW l \in Levels, SameIndices(l, u, v)
  PROVE  u \div Cover[l] = v \div Cover[l]
<1>1. u \in Nat /\ v \in Nat
  BY Covers
<1>2. ASSUME NEW w \in 0 .. Space - 1
      PROVE  Index(0, w) = w \div Cover[0]
  <2>1. /\ R \in Nat \ {0} /\ Cover[0] \in Nat \ {0} /\ Space = Cover[0] * R
        /\ w \in Nat /\ w < Cover[0] * R
    BY PageTablesAssumption, Covers DEF Levels
  <2> DEFINE C == Cover[0]
             n == w \div C
             r == w % C
  <2>2. C \in Nat \ {0}
    BY <2>1
  <2> HIDE DEF C
  <2>3. n \in Nat /\ r \in 0 .. C - 1 /\ w = n * C + r
    BY <2>1, <2>2, DivLaw
  <2> HIDE DEF n, r
  <2>4. n < R
    <3>1. ~ (R < n) /\ n # R
      <4>1. R < n => R * C + C <= n * C
        BY <2>1, <2>2, <2>3, MulMono
      <4>2. n * C <= w /\ w < C * R /\ C * R = R * C
        BY <2>1, <2>2, <2>3 DEF C
      <4>3. n * C \in Nat /\ R * C \in Nat
        BY <2>1, <2>2, <2>3, MulType
      <4> QED  BY <2>1, <2>2, <4>1, <4>2, <4>3
    <3> QED  BY <2>1, <2>3, <3>1
  <2>5. n % R = n
    BY <2>1, <2>3, <2>4
  <2> QED  BY <2>5 DEF Index, n, C
<1>3. u \div Cover[0] = v \div Cover[0]
  BY <1>2 DEF SameIndices, Levels
<1>4. l >= 1 => u \div Cover[1] = v \div Cover[1]
  BY <1>1, <1>3, NextDigit DEF SameIndices, Levels
<1>5. l >= 2 => u \div Cover[2] = v \div Cover[2]
  BY <1>1, <1>4, NextDigit DEF SameIndices, Levels
<1>6. l >= 3 => u \div Cover[3] = v \div Cover[3]
  BY <1>1, <1>5, NextDigit DEF SameIndices, Levels
<1> QED
  BY <1>3, <1>4, <1>5, <1>6 DEF Levels

\* The end of a chunk that is not the last of the address space.
LEMMA NextChunkIs ==
  ASSUME NEW l \in Levels, NEW b \in Nat, b < Top - Cover[0]
  PROVE  /\ NextChunk(l, b) \in Nat
         /\ NextChunk(l, b) = (b \div Cover[l]) * Cover[l] + Cover[l]
         /\ b < NextChunk(l, b) /\ NextChunk(l, b) <= b + Cover[l]
         /\ l = 3 => NextChunk(l, b) = b + 1
<1> DEFINE C == Cover[l]
           n == b \div C
           r == b % C
<1>1. /\ C \in Nat \ {0} /\ Cover[0] \in Nat /\ Top \in Nat
      /\ C <= Cover[0]
  <2>1. R \in Nat \ {0} /\ \A k \in Levels : Cover[k] \in Nat \ {0}
    BY PageTablesAssumption, Covers
  <2>2. Cover[1] <= Cover[0] /\ Cover[2] <= Cover[1] /\ Cover[3] <= Cover[2]
    BY <2>1, Covers DEF Levels
  <2>3. Top \in Nat
    BY Halves, Covers
  <2> QED  BY <2>1, <2>2, <2>3 DEF Levels
<1>2. l = 3 => C = 1
  BY Covers
<1> HIDE DEF C
<1>3. n \in Nat /\ r \in 0 .. C - 1 /\ b = n * C + r
  BY <1>1, DivLaw
<1> HIDE DEF n, r
<1>4. (n + 1) * C = n * C + C /\ n * C \in Nat
  BY <1>1, <1>3
<1>5. n * C + C < Top
  BY <1>1, <1>3, <1>4
<1>6. (n * C + C) % Top = n * C + C
  BY <1>1, <1>4, <1>5
<1>7. NextChunk(l, b) = n * C + C
  BY <1>4, <1>6 DEF NextChunk, n, C
<1>8. n * C + C \in Nat /\ b < n * C + C /\ n * C + C <= b + C
  BY <1>1, <1>3, <1>4
<1>9. l = 3 => n * C + C = b + 1
  BY <1>2, <1>3, <1>4
<1> QED
  BY <1>7, <1>8, <1>9 DEF n, C

\* The pages up to the end of a chunk share its index.
LEMMA SameChunk ==
  ASSUME NEW l \in Levels, NEW b \in Nat, NEW v \in Nat,
         b <= v, v < (b \div Cover[l]) * Cover[l] + Cover[l]
  PROVE  Index(l, v) = Index(l, b)
<1> DEFINE C == Cover[l]
           n == b \div C
<1>1. C \in Nat \ {0}
  BY Covers
<1> HIDE DEF C
<1>2. n \in Nat /\ n * C <= b
  <2>1. b % C \in 0 .. C - 1 /\ b = n * C + (b % C) /\ n \in Nat
    BY <1>1, DivLaw
  <2> HIDE DEF n
  <2>2. n * C \in Nat
    BY <1>1, <2>1, MulType
  <2> QED  BY <1>1, <2>1, <2>2
<1>3. v < n * C + C
  BY DEF n, C
<1> HIDE DEF n
<1>4. n * C <= v
  BY <1>1, <1>2, MulType
<1>5. v \div C = n
  BY <1>1, <1>2, <1>3, <1>4, DivUnique
<1> QED
  BY <1>5 DEF Index, n, C

\* A virtual page in the chunk of an aligned page b is one of the C pages from b.
LEMMA ChunkPage ==
  ASSUME NEW l \in Levels, NEW b \in Nat, b % Cover[l] = 0,
         NEW v \in 0 .. Space - 1, SameIndices(l, v, b % Space)
  PROVE  \E k \in 0 .. Cover[l] - 1 : v = (b + k) % Space
<1> DEFINE C == Cover[l]
           S == Space
           w == b % S
           m == b \div S
<1>1. PICK Q \in Nat \ {0} : S = C * Q
  <2>1. PICK K \in Nat \ {0} : Space = Cover[l] * (R * K)
    BY SpaceOf
  <2>2. R * K \in Nat \ {0}
    BY PageTablesAssumption
  <2> QED  BY <2>1, <2>2
<1>2. C \in Nat \ {0} /\ S \in Nat \ {0}
  BY Covers
<1>3. v \div C = w \div C
  <2>1. w \in 0 .. Space - 1
    BY <1>2, DivLaw
  <2> QED  BY <2>1, Digits
<1>4. w % C = 0
  BY <1>1, <1>2, ModMod
<1> HIDE DEF C, S
<1>5. w \in 0 .. S - 1 /\ m \in Nat /\ b = m * S + w
  BY <1>2, DivLaw
<1> HIDE DEF w, m
<1>6. v \in 0 .. S - 1
  BY DEF S
<1>7. /\ v % C \in 0 .. C - 1 /\ v = (v \div C) * C + (v % C)
      /\ w = (w \div C) * C + 0
  BY <1>2, <1>4, <1>5, <1>6, DivLaw
<1>8. v = w + (v % C)
  BY <1>3, <1>7, <1>2, <1>5
<1>9. b + (v % C) = m * S + v
  BY <1>2, <1>5, <1>7, <1>8, <1>6
<1>10. (m * S + v) % S = v
  BY <1>2, <1>5, <1>6, ModIs
<1> QED
  BY <1>7, <1>9, <1>10 DEF C, S

\* The pages of an aligned chunk translate to those of the physical chunk of
\* the same name, whichever mode the address was computed in.
LEMMA PhysChunk ==
  ASSUME NEW l \in Levels, NEW b \in Nat, b % Cover[l] = 0,
         NEW k \in 0 .. Cover[l] - 1, NEW mode \in Modes
  PROVE  LET v == (b + k) % Space
             a == PhysOf(mode, b) % Half
         IN (a - (a % Cover[l])) + (v % Cover[l]) = v % Half
<1> DEFINE C == Cover[l]
           H == Half
           j == b \div H
           c == b % H
           v == (b + k) % Space
<1>1. PICK n \in Nat : H = n * C
  BY Halves
<1>2. C \in Nat \ {0} /\ H \in Nat \ {0} /\ Space = H * 2 /\ n # 0
  BY Covers, Halves, <1>1
<1>3. PhysOf(mode, b) % H = c
  <2>1. (b % Half) % Half = b % Half
    <3>1. b % Half \in 0 .. Half - 1
      BY <1>2, DivLaw
    <3> QED  BY <1>2, <3>1
  <2>2. (b % Space) % Half = b % Half
    BY HalfMod
  <2> QED  BY <2>1, <2>2 DEF PhysOf, Modes
<1>4. c % C = 0
  BY <1>1, <1>2, ModMod
<1>5. v % H = (b + k) % H
  <2>1. b + k \in Nat
    BY Covers
  <2> QED  BY <2>1, HalfMod
<1>6. v % C = k
  <2>1. PICK K \in Nat \ {0} : Space = Cover[l] * (R * K)
    BY SpaceOf
  <2>2. R * K \in Nat \ {0}
    BY PageTablesAssumption
  <2>3. v % C = (b + k) % C
    <3>1. b + k \in Nat
      BY Covers
    <3>2. ((b + k) % (C * (R * K))) % C = (b + k) % C
      BY <1>2, <2>2, <3>1, ModMod
    <3> QED  BY <2>1, <3>2
  <2> DEFINE q == b \div C
  <2>4. b = q * C /\ q \in Nat
    <3>1. b = q * C + (b % C) /\ q \in Nat
      BY <1>2, DivLaw
    <3>2. b % C = 0
      OBVIOUS
    <3> HIDE DEF q
    <3> QED  BY <1>2, <3>1, <3>2
  <2> HIDE DEF q
  <2>5. (q * C + k) % C = k
    BY <1>2, <2>4, DivOfSum
  <2> QED  BY <2>3, <2>4, <2>5
<1> HIDE DEF C, H, v
<1>7. c \in 0 .. H - 1 /\ j \in Nat /\ b = j * H + c
  BY <1>2, DivLaw
<1> HIDE DEF c, j
<1>8. c + k \in 0 .. H - 1
  <2> DEFINE i == c \div C
  <2>1. i \in Nat /\ c = i * C
    BY <1>2, <1>4, <1>7, DivLaw
  <2> HIDE DEF i
  <2>2. ~ (n <= i)
    <3> SUFFICES ASSUME n <= i PROVE FALSE
      OBVIOUS
    <3>1. n * C <= i * C
      BY <1>2, <2>1
    <3> QED  BY <1>1, <1>7, <2>1, <3>1
  <2>3. i * C + C <= n * C
    BY <1>2, <2>1, <2>2, MulMono
  <2>4. k \in 0 .. C - 1
    BY DEF C
  <2> QED  BY <1>1, <1>2, <1>7, <2>1, <2>3, <2>4
<1>9. (b + k) % H = c + k
  <2> DEFINE s == c + k
  <2>1. k \in Nat /\ b + k = j * H + s
    <3>1. j * H \in Nat
      BY <1>2, <1>7, MulType
    <3> QED  BY <1>2, <1>7, <3>1 DEF C
  <2>2. s \in 0 .. H - 1
    BY <1>8
  <2> HIDE DEF s
  <2>3. (j * H + s) % H = s
    BY <1>2, <1>7, <2>2, ModIs
  <2> QED  BY <2>1, <2>3 DEF s
<1>10. (c - (c % C)) + k = c + k
  BY <1>4, <1>7
<1> QED
  BY <1>3, <1>4, <1>5, <1>6, <1>9, <1>10 DEF C, H, v

-----------------------------------------------------------------------------
\* The walk, in any memory m of tables: the entries the processor comes to.
EntryIn(m, p, i) == (IF p \in DOMAIN m THEN m[p] ELSE StaleRow)[i]

Entry0(m, v) == EntryIn(m, RootTable, Index(0, v))
Entry1(m, v) == EntryIn(m, Entry0(m, v).addr, Index(1, v))
Entry2(m, v) == EntryIn(m, Entry1(m, v).addr, Index(2, v))
Entry3(m, v) == EntryIn(m, Entry2(m, v).addr, Index(3, v))

TranslateIn(m, v) ==
  IF Entry0(m, v).kind # "next" \/ Entry1(m, v).kind = "fault" THEN Unmapped
  ELSE IF Entry1(m, v).kind = "block" THEN Leaf(Entry1(m, v), 1, v)
  ELSE IF Entry2(m, v).kind = "fault" THEN Unmapped
  ELSE IF Entry2(m, v).kind = "block" THEN Leaf(Entry2(m, v), 2, v)
  ELSE IF Entry3(m, v).kind = "next"  THEN Leaf(Entry3(m, v), 3, v)
  ELSE Unmapped

LEMMA TranslateIsIn ==
  ASSUME NEW v
  PROVE  /\ Translate(v) = TranslateIn(mem, v)
         /\ Translate(v)' = TranslateIn(mem', v)
  BY DEF Translate, TranslateIn, Entry0, Entry1, Entry2, Entry3, EntryIn, Entry, Row

\* The walk of v comes to table p at level l.
Reach(m, l, v, p) ==
  \/ l = 0 /\ p = RootTable
  \/ l = 1 /\ Entry0(m, v).kind = "next" /\ p = Entry0(m, v).addr
  \/ /\ l = 2 /\ p = Entry1(m, v).addr
     /\ Entry0(m, v).kind = "next" /\ Entry1(m, v).kind = "next"
  \/ /\ l = 3 /\ p = Entry2(m, v).addr
     /\ Entry0(m, v).kind = "next" /\ Entry1(m, v).kind = "next"
     /\ Entry2(m, v).kind = "next"

\* What a table may hold.
Attrs       == {NoAttr} \cup Attr
Descriptors == [kind : {"fault", "next", "block"}, addr : 0 .. Half - 1, attr : Attrs]
Rows        == [0 .. R - 1 -> Descriptors]

\* An entry of table p points to a table of the next level that serves the
\* virtual pages of the entry, or it is a block or a page at its level.
EntryOk(m, lev, zone, p, i) ==
  LET d == m[p][i] IN
  \/ d.kind = "fault"
  \/ /\ d.kind = "next" /\ d.attr = NoAttr /\ lev[p] < 3
     /\ d.addr \in DOMAIN m /\ lev[d.addr] = lev[p] + 1
     /\ \A v \in zone[p] : Index(lev[p], v) = i => v \in zone[d.addr]
  \/ d.kind = "block" /\ d.attr # NoAttr /\ lev[p] \in {1, 2}
  \/ d.kind = "next" /\ d.attr # NoAttr /\ lev[p] = 3

\* The tables form a tree: lev is the level of each, zone the virtual pages it
\* serves, which have the same indices above its level.
Tree(m, lev, zone) ==
  /\ RootTable \in DOMAIN m
  /\ \A p \in DOMAIN m : m[p] \in Rows
  /\ \A p \in DOMAIN m : lev[p] \in Levels
  /\ lev[RootTable] = 0 /\ zone[RootTable] = 0 .. Space - 1
  /\ \A p \in DOMAIN m : \A u, v \in zone[p], k \in Levels :
       k < lev[p] => Index(k, u) = Index(k, v)
  /\ \A p \in DOMAIN m : \A i \in 0 .. R - 1 : EntryOk(m, lev, zone, p, i)

\* The walk comes to tables of the tree, at their level and in their zone.
LEMMA ReachInTree ==
  ASSUME NEW m, NEW lev, NEW zone, Tree(m, lev, zone),
         NEW v \in 0 .. Space - 1, NEW l \in Levels, NEW p, Reach(m, l, v, p)
  PROVE  p \in DOMAIN m /\ lev[p] = l /\ v \in zone[p]
<1>1. \A k \in Levels : Index(k, v) \in 0 .. R - 1
  BY IndexIn, Covers
<1>2. ASSUME NEW q \in DOMAIN m, NEW k \in Levels, lev[q] = k, k < 3, v \in zone[q],
             EntryIn(m, q, Index(k, v)).kind = "next"
      PROVE  LET c == EntryIn(m, q, Index(k, v)).addr
             IN c \in DOMAIN m /\ lev[c] = k + 1 /\ v \in zone[c]
  <2>1. EntryOk(m, lev, zone, q, Index(k, v))
    BY <1>1, <1>2 DEF Tree
  <2> QED  BY <1>2, <2>1 DEF EntryOk, EntryIn, Levels
<1>3. CASE l = 0
  <2>1. p = RootTable
    BY <1>3 DEF Reach
  <2>2. RootTable \in DOMAIN m /\ lev[RootTable] = 0 /\ v \in zone[RootTable]
    BY DEF Tree
  <2> QED  BY <1>3, <2>1, <2>2
<1>4. ASSUME Entry0(m, v).kind = "next"
      PROVE  LET c == Entry0(m, v).addr
             IN c \in DOMAIN m /\ lev[c] = 1 /\ v \in zone[c]
  <2>1. RootTable \in DOMAIN m /\ lev[RootTable] = 0 /\ v \in zone[RootTable]
    BY DEF Tree
  <2> QED  BY <1>2, <1>4, <2>1 DEF Entry0, Levels
<1>5. ASSUME Entry0(m, v).kind = "next", Entry1(m, v).kind = "next"
      PROVE  LET c == Entry1(m, v).addr
             IN c \in DOMAIN m /\ lev[c] = 2 /\ v \in zone[c]
  BY <1>2, <1>4, <1>5 DEF Entry1, Levels
<1>6. ASSUME Entry0(m, v).kind = "next", Entry1(m, v).kind = "next",
             Entry2(m, v).kind = "next"
      PROVE  LET c == Entry2(m, v).addr
             IN c \in DOMAIN m /\ lev[c] = 3 /\ v \in zone[c]
  BY <1>2, <1>5, <1>6 DEF Entry2, Levels
<1> QED
  BY <1>3, <1>4, <1>5, <1>6 DEF Reach, Levels

\* The walk goes on to the table an entry points to.
LEMMA ReachNext ==
  ASSUME NEW m, NEW l \in {0, 1, 2}, NEW v, NEW p, Reach(m, l, v, p),
         EntryIn(m, p, Index(l, v)).kind = "next"
  PROVE  Reach(m, l + 1, v, EntryIn(m, p, Index(l, v)).addr)
<1>1. CASE l = 0
  BY <1>1 DEF Reach, Entry0
<1>2. CASE l = 1
  BY <1>2 DEF Reach, Entry1
<1>3. CASE l = 2
  BY <1>3 DEF Reach, Entry2
<1> QED
  BY <1>1, <1>2, <1>3

\* What it finds is decided by the first entry that does not go on.
LEMMA TranslateAt ==
  ASSUME NEW m, NEW lev, NEW zone, Tree(m, lev, zone),
         NEW v \in 0 .. Space - 1, NEW l \in Levels, NEW p, Reach(m, l, v, p)
  PROVE  LET d == EntryIn(m, p, Index(l, v)) IN
         /\ d.kind = "fault" => TranslateIn(m, v) = Unmapped
         /\ d.kind = "block" => TranslateIn(m, v) = Leaf(d, l, v) /\ l \in {1, 2}
         /\ d.kind = "next" /\ l = 3 => TranslateIn(m, v) = Leaf(d, l, v)
         /\ d \in Descriptors
<1> DEFINE d == EntryIn(m, p, Index(l, v))
<1>1. p \in DOMAIN m /\ lev[p] = l
  BY ReachInTree
<1>2. Index(l, v) \in 0 .. R - 1
  BY IndexIn, Covers
<1>3. EntryOk(m, lev, zone, p, Index(l, v)) /\ d = m[p][Index(l, v)] /\ d \in Descriptors
  BY <1>1, <1>2 DEF Tree, EntryIn, Rows
<1>4. d.kind = "block" => l \in {1, 2}
  BY <1>1, <1>3 DEF EntryOk
<1>5. CASE l = 0
  <2>1. d = Entry0(m, v)
    BY <1>5 DEF Reach, Entry0
  <2> QED  BY <1>3, <1>4, <1>5, <2>1 DEF TranslateIn
<1>6. CASE l = 1
  <2>1. d = Entry1(m, v) /\ Entry0(m, v).kind = "next"
    BY <1>6 DEF Reach, Entry1
  <2> QED  BY <1>3, <1>4, <1>6, <2>1 DEF TranslateIn
<1>7. CASE l = 2
  <2>1. d = Entry2(m, v) /\ Entry0(m, v).kind = "next" /\ Entry1(m, v).kind = "next"
    BY <1>7 DEF Reach, Entry2
  <2> QED  BY <1>3, <1>4, <1>7, <2>1 DEF TranslateIn
<1>8. CASE l = 3
  <2>1. /\ d = Entry3(m, v) /\ Entry0(m, v).kind = "next"
        /\ Entry1(m, v).kind = "next" /\ Entry2(m, v).kind = "next"
    BY <1>8 DEF Reach, Entry3
  <2> QED  BY <1>3, <1>4, <1>8, <2>1 DEF TranslateIn
<1> QED
  BY <1>3, <1>4, <1>5, <1>6, <1>7, <1>8 DEF Levels

\* Every walk comes to an entry that does not go on.
Ends(m, l, v, p) ==
  LET d == EntryIn(m, p, Index(l, v)) IN Reach(m, l, v, p) /\ (d.kind = "next" => l = 3)

LEMMA WalkEnds ==
  ASSUME NEW m, NEW v
  PROVE  \E l \in Levels : \E p : Ends(m, l, v, p)
<1>1. Reach(m, 0, v, RootTable)
  BY DEF Reach
<1>2. CASE Entry0(m, v).kind # "next"
  BY <1>1, <1>2 DEF Ends, Entry0, Levels
<1>3. CASE Entry0(m, v).kind = "next" /\ Entry1(m, v).kind # "next"
  <2>1. Ends(m, 1, v, Entry0(m, v).addr)
    BY <1>3 DEF Ends, Reach, Entry1
  <2> QED  BY <2>1 DEF Levels
<1>4. CASE /\ Entry0(m, v).kind = "next" /\ Entry1(m, v).kind = "next"
           /\ Entry2(m, v).kind # "next"
  <2>1. Ends(m, 2, v, Entry1(m, v).addr)
    BY <1>4 DEF Ends, Reach, Entry2
  <2> QED  BY <2>1 DEF Levels
<1>5. CASE /\ Entry0(m, v).kind = "next" /\ Entry1(m, v).kind = "next"
           /\ Entry2(m, v).kind = "next"
  <2>1. Ends(m, 3, v, Entry2(m, v).addr)
    BY <1>5 DEF Ends, Reach
  <2> QED  BY <2>1 DEF Levels
<1> QED
  BY <1>2, <1>3, <1>4, <1>5

\* Only a walk that ends at a fault finds nothing.
LEMMA MappedAt ==
  ASSUME NEW m, NEW lev, NEW zone, Tree(m, lev, zone),
         NEW v \in 0 .. Space - 1, NEW l \in Levels, NEW p, Ends(m, l, v, p)
  PROVE  (TranslateIn(m, v) = Unmapped) <=> (EntryIn(m, p, Index(l, v)).kind = "fault")
<1> DEFINE d == EntryIn(m, p, Index(l, v))
<1>1. Reach(m, l, v, p) /\ (d.kind = "next" => l = 3)
  BY DEF Ends
<1>2. /\ d.kind = "fault" => TranslateIn(m, v) = Unmapped
      /\ d.kind # "fault" => TranslateIn(m, v) = Leaf(d, l, v)
      /\ d \in Descriptors
  BY <1>1, TranslateAt DEF Descriptors
<1>3. ASSUME d.kind # "fault" PROVE d.attr # NoAttr
  <2>1. p \in DOMAIN m /\ lev[p] = l
    BY <1>1, ReachInTree
  <2>2. EntryOk(m, lev, zone, p, Index(l, v)) /\ d = m[p][Index(l, v)]
    <3>1. Index(l, v) \in 0 .. R - 1
      BY IndexIn, Covers
    <3> QED  BY <2>1, <3>1 DEF Tree, EntryIn
  <2> QED  BY <1>1, <1>3, <2>1, <2>2 DEF EntryOk
<1>4. ASSUME d.kind # "fault" PROVE Leaf(d, l, v).attr # NoAttr
  BY <1>3, <1>4 DEF Leaf
<1>5. Unmapped.attr = NoAttr
  BY DEF Unmapped
<1> QED
  BY <1>2, <1>4, <1>5

-----------------------------------------------------------------------------
\* Writing an entry that was invalid.

CleanRow == [i \in 0 .. R - 1 |-> Invalid]

\* m2 is m with entry i of table t set to d, and with empty new tables N.
Writes(m, m2, t, i, d, N) ==
  /\ t \in DOMAIN m /\ i \in 0 .. R - 1 /\ m[t][i].kind = "fault"
  /\ N \cap DOMAIN m = {}
  /\ m2 = [p \in DOMAIN m \cup N |->
             IF p = t THEN [m[t] EXCEPT ![i] = d] ELSE IF p \in N THEN CleanRow ELSE m[p]]

\* What is then read.
Wrote(m, m2, t, i, d, N) ==
  /\ DOMAIN m2 = DOMAIN m \cup N
  /\ EntryIn(m2, t, i) = d
  /\ \A p \in DOMAIN m : \A j \in 0 .. R - 1 :
       p # t \/ j # i => EntryIn(m2, p, j) = EntryIn(m, p, j)
  /\ \A p \in N : \A j \in 0 .. R - 1 : EntryIn(m2, p, j) = Invalid

LEMMA WrittenEntries ==
  ASSUME NEW m, NEW m2, NEW t, NEW i, NEW d, NEW N, Writes(m, m2, t, i, d, N),
         m[t] \in Rows
  PROVE  Wrote(m, m2, t, i, d, N)
<1>2. DOMAIN m2 = DOMAIN m \cup N
  BY DEF Writes
<1>3. EntryIn(m2, t, i) = d
  BY <1>2 DEF Writes, EntryIn, Rows
<1>4. ASSUME NEW p \in DOMAIN m, NEW j \in 0 .. R - 1, p # t \/ j # i
      PROVE  EntryIn(m2, p, j) = EntryIn(m, p, j)
  <2>1. CASE p = t
    BY <1>2, <1>4, <2>1 DEF Writes, EntryIn, Rows
  <2>2. CASE p # t
    BY <1>2, <1>4, <2>2 DEF Writes, EntryIn
  <2> QED  BY <2>1, <2>2
<1>5. ASSUME NEW p \in N, NEW j \in 0 .. R - 1
      PROVE  EntryIn(m2, p, j) = Invalid
  BY <1>2, <1>5 DEF Writes, EntryIn, CleanRow
<1> QED
  BY <1>2, <1>3, <1>4, <1>5 DEF Wrote

\* Walks come to the tables they came to before.
LEMMA ReachStays ==
  ASSUME NEW m, NEW m2, NEW t, NEW i, NEW d, NEW N, Writes(m, m2, t, i, d, N),
         NEW lev, NEW zone, Tree(m, lev, zone),
         NEW v \in 0 .. Space - 1, NEW l \in Levels, NEW p, Reach(m, l, v, p)
  PROVE  Reach(m2, l, v, p)
<1>0. Wrote(m, m2, t, i, d, N)
  <2>1. m[t] \in Rows
    BY DEF Tree, Writes
  <2> QED  BY <2>1, WrittenEntries
<1>1. \A k \in Levels : Index(k, v) \in 0 .. R - 1
  BY IndexIn, Covers
<1>2. ASSUME NEW q \in DOMAIN m, NEW k \in Levels,
             EntryIn(m, q, Index(k, v)).kind = "next"
      PROVE  EntryIn(m2, q, Index(k, v)) = EntryIn(m, q, Index(k, v))
  <2>1. q # t \/ Index(k, v) # i
    BY <1>2 DEF Writes, EntryIn
  <2> QED  BY <1>1, <2>1, <1>0 DEF Wrote
<1>3. ASSUME Entry0(m, v).kind = "next"
      PROVE  Entry0(m2, v) = Entry0(m, v) /\ Entry0(m, v).addr \in DOMAIN m
  <2>1. RootTable \in DOMAIN m
    BY DEF Tree
  <2>2. Entry0(m2, v) = Entry0(m, v)
    BY <1>2, <1>3, <2>1 DEF Entry0, Levels
  <2>3. Reach(m, 1, v, Entry0(m, v).addr)
    BY <1>3 DEF Reach
  <2> QED  BY <2>2, <2>3, ReachInTree DEF Levels
<1>4. ASSUME Entry0(m, v).kind = "next", Entry1(m, v).kind = "next"
      PROVE  Entry1(m2, v) = Entry1(m, v) /\ Entry1(m, v).addr \in DOMAIN m
  <2>1. Entry1(m2, v) = Entry1(m, v)
    BY <1>2, <1>3, <1>4 DEF Entry1, Levels
  <2>2. Reach(m, 2, v, Entry1(m, v).addr)
    BY <1>4 DEF Reach
  <2> QED  BY <2>1, <2>2, ReachInTree DEF Levels
<1>5. ASSUME Entry0(m, v).kind = "next", Entry1(m, v).kind = "next",
             Entry2(m, v).kind = "next"
      PROVE  Entry2(m2, v) = Entry2(m, v)
  BY <1>2, <1>4, <1>5 DEF Entry2, Levels
<1> QED
  BY <1>3, <1>4, <1>5 DEF Reach

\* What a walk found it still finds; only walks that come to the entry written
\* can find something new.
LEMMA TranslateStays ==
  ASSUME NEW m, NEW m2, NEW t, NEW i, NEW d, NEW N, Writes(m, m2, t, i, d, N),
         NEW lev, NEW zone, Tree(m, lev, zone),
         NEW lev2, NEW zone2, Tree(m2, lev2, zone2),
         NEW v \in 0 .. Space - 1
  PROVE  \/ TranslateIn(m2, v) = TranslateIn(m, v)
         \/ /\ TranslateIn(m, v) = Unmapped
            /\ Reach(m, lev[t], v, t) /\ Index(lev[t], v) = i
<1>0. Wrote(m, m2, t, i, d, N)
  <2>1. m[t] \in Rows
    BY DEF Tree, Writes
  <2> QED  BY <2>1, WrittenEntries
<1>a. PICK l \in Levels : \E p : Ends(m, l, v, p)
  BY WalkEnds
<1>1. PICK p : Ends(m, l, v, p)
  BY <1>a
<1> DEFINE e == EntryIn(m, p, Index(l, v))
<1>2. Reach(m, l, v, p) /\ (e.kind = "next" => l = 3)
  BY <1>1 DEF Ends
<1>3. p \in DOMAIN m /\ lev[p] = l /\ Index(l, v) \in 0 .. R - 1
  BY <1>2, ReachInTree, IndexIn, Covers
<1>4. CASE p = t /\ Index(l, v) = i
  <2>1. e.kind = "fault"
    BY <1>4 DEF Writes, EntryIn
  <2> QED  BY <1>2, <1>3, <1>4, <2>1, TranslateAt
<1>5. CASE p # t \/ Index(l, v) # i
  <2>1. EntryIn(m2, p, Index(l, v)) = e
    BY <1>3, <1>5, <1>0 DEF Wrote
  <2>2. Reach(m2, l, v, p)
    BY <1>2, ReachStays
  <2>3. e \in Descriptors
    BY <1>2, TranslateAt
  <2>4. /\ e.kind = "fault" => TranslateIn(m, v) = Unmapped
        /\ e.kind = "block" => TranslateIn(m, v) = Leaf(e, l, v)
        /\ e.kind = "next" /\ l = 3 => TranslateIn(m, v) = Leaf(e, l, v)
    BY <1>2, TranslateAt
  <2>5. /\ e.kind = "fault" => TranslateIn(m2, v) = Unmapped
        /\ e.kind = "block" => TranslateIn(m2, v) = Leaf(e, l, v)
        /\ e.kind = "next" /\ l = 3 => TranslateIn(m2, v) = Leaf(e, l, v)
    BY <2>1, <2>2, TranslateAt
  <2> QED  BY <1>2, <2>3, <2>4, <2>5 DEF Descriptors
<1> QED
  BY <1>4, <1>5

\* A leaf keeps the tree.
LEMMA LeafKeepsTree ==
  ASSUME NEW m, NEW m2, NEW t, NEW i, NEW d, Writes(m, m2, t, i, d, {}),
         NEW lev, NEW zone, Tree(m, lev, zone),
         d \in Descriptors, d.attr # NoAttr,
         \/ d.kind = "block" /\ lev[t] \in {1, 2}
         \/ d.kind = "next" /\ lev[t] = 3
  PROVE  Tree(m2, lev, zone)
<1>0. Wrote(m, m2, t, i, d, {})
  <2>1. m[t] \in Rows
    BY DEF Tree, Writes
  <2> QED  BY <2>1, WrittenEntries
<1>1. DOMAIN m2 = DOMAIN m
  BY <1>0 DEF Wrote
<1>2. \A p \in DOMAIN m2 : m2[p] \in Rows
  BY <1>1 DEF Tree, Rows, Writes
<1>3. ASSUME NEW p \in DOMAIN m2, NEW j \in 0 .. R - 1
      PROVE  EntryOk(m2, lev, zone, p, j)
  <2>1. EntryOk(m, lev, zone, p, j)
    BY <1>1 DEF Tree
  <2>2. CASE p = t /\ j = i
    <3>1. m2[p][j] = d
      BY <1>1, <2>2, <1>0 DEF EntryIn, Wrote
    <3> QED  BY <2>2, <3>1 DEF EntryOk
  <2>3. CASE p # t \/ j # i
    <3>1. m2[p][j] = m[p][j]
      BY <1>1, <2>3, <1>0 DEF EntryIn, Wrote
    <3> QED  BY <1>1, <2>1, <3>1 DEF EntryOk
  <2> QED  BY <2>2, <2>3
<1> QED
  BY <1>1, <1>2, <1>3 DEF Tree

\* So does an empty table below an entry.
LEMMA TableKeepsTree ==
  ASSUME NEW m, NEW m2, NEW t, NEW i, NEW c \in 0 .. Half - 1,
         Writes(m, m2, t, i, make_table(c), {c}),
         NEW lev, NEW zone, Tree(m, lev, zone), lev[t] \in {0, 1, 2}
  PROVE  \E lev2, zone2 : Tree(m2, lev2, zone2) /\ \A p \in DOMAIN m : lev2[p] = lev[p]
<1>0. Wrote(m, m2, t, i, make_table(c), {c})
  <2>1. m[t] \in Rows
    BY DEF Tree, Writes
  <2> QED  BY <2>1, WrittenEntries
<1> DEFINE d == make_table(c)
           lev2 == [p \in DOMAIN m2 |-> IF p = c THEN lev[t] + 1 ELSE lev[p]]
           zone2 == [p \in DOMAIN m2 |->
                       IF p = c THEN {v \in zone[t] : Index(lev[t], v) = i} ELSE zone[p]]
<1>1. DOMAIN m2 = DOMAIN m \cup {c} /\ c \notin DOMAIN m /\ t \in DOMAIN m /\ t # c
  BY <1>0 DEF Writes, Wrote
<1>2. d = [kind |-> "next", addr |-> c, attr |-> NoAttr] /\ d \in Descriptors
  <2>1. c % Half = c
    BY Halves
  <2> QED  BY <2>1 DEF make_table, Descriptors, Attrs
<1>3. Invalid \in Descriptors
  BY Halves DEF Invalid, Descriptors, Attrs
<1> HIDE DEF d
<1>4. \A p \in DOMAIN m2 : m2[p] \in Rows
  <2>1. CleanRow \in Rows
    BY <1>3 DEF CleanRow, Rows
  <2>2. [m[t] EXCEPT ![i] = d] \in Rows
    BY <1>1, <1>2 DEF Tree, Rows
  <2>3. m2 = [p \in DOMAIN m \cup {c} |->
               IF p = t THEN [m[t] EXCEPT ![i] = d]
               ELSE IF p \in {c} THEN CleanRow ELSE m[p]]
    BY DEF Writes, d
  <2>4. \A p \in DOMAIN m : m[p] \in Rows
    BY DEF Tree
  <2> QED  BY <2>1, <2>2, <2>3, <2>4
<1>5. \A p \in DOMAIN m : lev2[p] = lev[p] /\ zone2[p] = zone[p]
  BY <1>1
<1>6. lev2[c] = lev[t] + 1 /\ zone2[c] = {v \in zone[t] : Index(lev[t], v) = i}
  BY <1>1
<1> HIDE DEF lev2, zone2
<1>7. RootTable \in DOMAIN m2 /\ lev2[RootTable] = 0 /\ zone2[RootTable] = 0 .. Space - 1
  BY <1>1, <1>5 DEF Tree
<1>8. \A p \in DOMAIN m2 : lev2[p] \in Levels
  BY <1>1, <1>5, <1>6 DEF Tree, Levels
<1>9. ASSUME NEW p \in DOMAIN m2, NEW u \in zone2[p], NEW v \in zone2[p],
             NEW k \in Levels, k < lev2[p]
      PROVE  Index(k, u) = Index(k, v)
  <2>1. CASE p \in DOMAIN m
    BY <1>5, <1>9, <2>1 DEF Tree
  <2>2. CASE p = c
    <3>1. u \in zone[t] /\ v \in zone[t] /\ Index(lev[t], u) = i /\ Index(lev[t], v) = i
      BY <1>6, <2>2
    <3>2. k < lev[t] \/ k = lev[t]
      BY <1>6, <1>9, <2>2 DEF Levels
    <3> QED  BY <1>1, <3>1, <3>2 DEF Tree
  <2> QED  BY <1>1, <2>1, <2>2
<1>10. ASSUME NEW p \in DOMAIN m2, NEW j \in 0 .. R - 1
       PROVE  EntryOk(m2, lev2, zone2, p, j)
  <2>1. CASE p = c
    <3>1. m2[p][j] = Invalid
      BY <1>1, <2>1, <1>0 DEF EntryIn, Wrote
    <3> QED  BY <3>1 DEF EntryOk, Invalid
  <2>2. CASE p = t /\ j = i
    <3>1. m2[p][j] = d
      BY <1>1, <2>2, <1>0 DEF EntryIn, d, Wrote
    <3> QED  BY <1>1, <1>2, <1>5, <1>6, <2>2, <3>1 DEF EntryOk
  <2>3. CASE p # c /\ (p # t \/ j # i)
    <3>1. p \in DOMAIN m
      BY <1>1, <2>3
    <3>2. m2[p][j] = m[p][j]
      BY <1>1, <2>3, <3>1, <1>0 DEF EntryIn, Wrote
    <3>3. EntryOk(m, lev, zone, p, j)
      BY <3>1 DEF Tree
    <3> QED  BY <1>1, <1>5, <3>1, <3>2, <3>3 DEF EntryOk
  <2> QED  BY <2>1, <2>2, <2>3
<1>11. Tree(m2, lev2, zone2)
  BY <1>4, <1>7, <1>8, <1>9, <1>10 DEF Tree
<1> QED
  BY <1>5, <1>11

-----------------------------------------------------------------------------
\* The inductive invariant.

Frames == [level : Levels, table : 0 .. Half - 1, base : Nat, end : Nat]

\* The pending calls lie on the path to the page being mapped: each serves the
\* chunk that its caller has already counted as done, and the walks of all its
\* pages come to its table.
StackOk(m, st) ==
  /\ st \in Seq(Frames)
  /\ \A k \in 1 .. Len(st) :
       /\ st[k].level = k - 1
       /\ st[k].base <= st[k].end /\ st[k].end <= Top - Cover[0]
       /\ \A u \in st[k].base .. st[k].end - 1 : Reach(m, k - 1, u % Space, st[k].table)
  /\ \A k \in 1 .. Len(st) - 1 : st[k + 1].end = st[k].base
  /\ st # <<>> => st[1].end - st[Len(st)].base <= Space

\* The pages of the call being served that are still to be mapped.
Left(st) == IF st = <<>> THEN {} ELSE st[Len(st)].base .. st[1].end - 1

\* What the variables may hold.
Shape ==
  /\ free \subseteq Ram
  /\ DOMAIN mem \subseteq {RootTable} \cup (Ram \ free)
  /\ want \in [0 .. Space - 1 -> [addr : Int, attr : Attrs]]
  /\ count \in 0 .. MaxMaps
  /\ panicked \in BOOLEAN
  /\ stack # <<>> => Callable(cur)

\* What is mapped was asked for, and is mapped as it was asked for.
MapsAsWanted ==
  \A v \in 0 .. Space - 1 :
    Translate(v) # Unmapped => want[v] # Unmapped /\ Matches(Translate(v), want[v])

\* What the call has not come to is not mapped yet, and wanted by this call.
LeftUnmapped ==
  \A u \in Left(stack) :
    Translate(u % Space) = Unmapped /\ want[u % Space] = Wanted(cur, u % Space)

\* What is asked for and not mapped is what the call has not come to.
MissingIsLeft ==
  \A v \in 0 .. Space - 1 :
    want[v] # Unmapped /\ Translate(v) = Unmapped => \E u \in Left(stack) : v = u % Space

\* No table hangs below two entries.
OneParent ==
  \A k, l \in TableLinks : mem[k[1]][k[2]].addr = mem[l[1]][l[2]].addr => k = l

\* No page handed to a New mapping is a table, or behind another one.
NewApart ==
  /\ \A v \in NewPages : Translate(v).addr \notin DOMAIN mem
  /\ \A u, v \in NewPages : Translate(u).addr = Translate(v).addr => u = v

IInv ==
  /\ Shape
  /\ \E lev, zone : Tree(mem, lev, zone)
  /\ StackOk(mem, stack)
  /\ MapsAsWanted /\ LeftUnmapped /\ MissingIsLeft
  /\ OneParent /\ NewApart

-----------------------------------------------------------------------------
\* The pages of a call.

\* Rounding up, and rounding down.
LEMMA CeilLess ==
  ASSUME NEW s \in Nat, NEW P \in Nat \ {0}, NEW v \in Nat
  PROVE  v * P < s <=> v < (s + P - 1) \div P
<1> DEFINE a == s + P - 1
           e == a \div P
           r == a % P
<1>1. a \in Nat
  OBVIOUS
<1> HIDE DEF a
<1>2. e \in Nat /\ r \in 0 .. P - 1 /\ a = e * P + r
  BY <1>1, DivLaw
<1> HIDE DEF e, r
<1>3. v * P \in Nat /\ e * P \in Nat
  BY <1>2, MulType
<1>4. a = s + P - 1
  BY DEF a
<1>5. v < e => v * P < s
  <2>1. v < e => v * P + P <= e * P
    BY <1>2, MulMono
  <2> QED  BY <1>2, <1>3, <1>4, <2>1
<1>6. e <= v => s <= v * P
  <2>1. e < v => e * P + P <= v * P
    BY <1>2, MulMono
  <2> QED  BY <1>2, <1>3, <1>4, <2>1
<1> QED
  BY <1>2, <1>3, <1>5, <1>6 DEF e, a

LEMMA FloorLess ==
  ASSUME NEW b \in Nat, NEW P \in Nat \ {0}, NEW v \in Nat
  PROVE  b < (v + 1) * P <=> b \div P <= v
<1> DEFINE n == b \div P
           r == b % P
           w == v + 1
<1>1. n \in Nat /\ r \in 0 .. P - 1 /\ b = n * P + r
  BY DivLaw
<1>2. w \in Nat /\ (n < w <=> n <= v)
  BY <1>1
<1> HIDE DEF n, r, w
<1>3. n * P \in Nat /\ w * P \in Nat
  BY <1>1, <1>2, MulType
<1>4. n < w => n * P + P <= w * P
  BY <1>1, <1>2, MulMono
<1>5. w <= n => w * P <= n * P
  <2>1. w < n => w * P + P <= n * P
    BY <1>1, <1>2, MulMono
  <2> QED  BY <1>1, <1>2, <1>3, <2>1
<1>6. b < w * P <=> n < w
  BY <1>1, <1>2, <1>3, <1>4, <1>5
<1> QED
  BY <1>2, <1>6 DEF n, w

\* A call names at least one page, and the loops go over the pages it names.
LEMMA CallPages ==
  ASSUME NEW q, Callable(q)
  PROVE  /\ FirstPage(q) \in Nat /\ EndPage(q) \in Nat
         /\ FirstPage(q) < EndPage(q) /\ EndPage(q) - FirstPage(q) <= Space
         /\ EndPage(q) <= Top - Cover[0] /\ EndPage(q) % Top = EndPage(q)
         /\ Touched(q) = PagesOf(q)
<1> DEFINE b == q.base
           s == q.base + q.size
           P == PageSize
<1>1. b \in Nat /\ s \in Nat /\ b < s /\ P \in Nat \ {0}
  BY PageTablesAssumption DEF Callable
<1>2. EndPage(q) = (s + P - 1) \div P /\ FirstPage(q) = b \div P
  BY DEF EndPage, FirstPage
<1> HIDE DEF b, s, P
<1>3. FirstPage(q) \in Nat /\ EndPage(q) \in Nat
  <2>1. s + P - 1 \in Nat
    BY <1>1
  <2> QED  BY <1>1, <1>2, <2>1, DivLaw
<1>4. EndPage(q) <= Top - Cover[0] /\ EndPage(q) - FirstPage(q) <= Space
  BY DEF Callable
<1>5. Top \in Nat /\ Cover[0] \in Nat \ {0}
  BY Halves, Covers DEF Levels
<1>6. EndPage(q) % Top = EndPage(q)
  BY <1>3, <1>4, <1>5
<1>7. FirstPage(q) < EndPage(q)
  <2>1. FirstPage(q) * P <= b
    <3> DEFINE n == b \div P
               r == b % P
    <3>1. n \in Nat /\ r \in 0 .. P - 1 /\ b = n * P + r
      BY <1>1, DivLaw
    <3> HIDE DEF n, r
    <3>2. n * P \in Nat
      BY <1>1, <3>1, MulType
    <3>3. n * P <= b
      BY <1>1, <3>1, <3>2
    <3> QED  BY <1>2, <3>3 DEF n
  <2>2. FirstPage(q) * P < s
    BY <1>1, <1>3, <2>1, MulType
  <2> QED  BY <1>1, <1>2, <1>3, <2>2, CeilLess
<1>8. ASSUME NEW v \in Nat
      PROVE  (v * P < s /\ b < (v + 1) * P) <=> (FirstPage(q) <= v /\ v < EndPage(q))
  BY <1>1, <1>2, CeilLess, FloorLess
<1>9. Touched(q) = {v \in 0 .. Top - 1 : v * P < s /\ b < (v + 1) * P}
  BY DEF Touched, P, s, b
<1>10. Touched(q) = {v \in 0 .. Top - 1 : FirstPage(q) <= v /\ v < EndPage(q)}
  BY <1>8, <1>9
<1>11. Touched(q) = PagesOf(q)
  BY <1>3, <1>4, <1>5, <1>10 DEF PagesOf
<1> QED
  BY <1>3, <1>4, <1>6, <1>7, <1>11

-----------------------------------------------------------------------------
\* The stack.

\* Changing and removing the last element, and adding one.
LEMMA FrontIs ==
  ASSUME NEW S, NEW s \in Seq(S), s # <<>>
  PROVE  /\ Len(s) \in Nat \ {0}
         /\ Front(s) \in Seq(S) /\ Len(Front(s)) = Len(s) - 1
         /\ \A k \in 1 .. Len(s) - 1 : Front(s)[k] = s[k]
<1>1. Len(s) \in Nat \ {0}
  BY EmptySeq, LenProperties
<1> DEFINE n == Len(s) - 1
<1>2. n \in Int /\ 1 \in Int /\ \A i \in 1 .. n : s[i] \in S
  BY <1>1
<1> HIDE DEF n
<1>3. /\ SubSeq(s, 1, n) \in Seq(S)
      /\ Len(SubSeq(s, 1, n)) = IF 1 <= n THEN n - 1 + 1 ELSE 0
      /\ \A k \in 1 .. n - 1 + 1 : SubSeq(s, 1, n)[k] = s[1 + k - 1]
  BY <1>2, SubSeqProperties
<1>4. n \in Nat /\ Front(s) = SubSeq(s, 1, n)
  BY <1>1 DEF n, Front
<1>5. n - 1 + 1 = n /\ \A k \in 1 .. n : 1 + k - 1 = k
  BY <1>4
<1>6. Len(Front(s)) = n /\ \A k \in 1 .. n : Front(s)[k] = s[k]
  BY <1>3, <1>4, <1>5
<1> QED
  BY <1>1, <1>3, <1>4, <1>6 DEF n

LEMMA LastReplaced ==
  ASSUME NEW S, NEW s \in Seq(S), s # <<>>, NEW x \in S, NEW y \in S
  PROVE  /\ Append(Front(s), x) \in Seq(S)
         /\ Len(Append(Front(s), x)) = Len(s)
         /\ \A k \in 1 .. Len(s) :
              Append(Front(s), x)[k] = IF k = Len(s) THEN x ELSE s[k]
         /\ Append(Append(Front(s), x), y) \in Seq(S)
         /\ Len(Append(Append(Front(s), x), y)) = Len(s) + 1
         /\ \A k \in 1 .. Len(s) + 1 :
              Append(Append(Front(s), x), y)[k] =
                IF k = Len(s) + 1 THEN y ELSE IF k = Len(s) THEN x ELSE s[k]
<1>1. /\ Len(s) \in Nat \ {0} /\ Front(s) \in Seq(S) /\ Len(Front(s)) = Len(s) - 1
      /\ \A k \in 1 .. Len(s) - 1 : Front(s)[k] = s[k]
  BY FrontIs
<1> DEFINE f == Front(s)
           a == Append(f, x)
<1> HIDE DEF f
<1>2. a \in Seq(S) /\ Len(a) = Len(s)
  BY <1>1 DEF f
<1>3. \A k \in 1 .. Len(s) : a[k] = IF k = Len(s) THEN x ELSE s[k]
  BY <1>1 DEF f
<1>4. \A k \in 1 .. Len(s) : Append(a, y)[k] = a[k]
  BY <1>1, <1>2
<1>5. Append(a, y) \in Seq(S) /\ Len(Append(a, y)) = Len(s) + 1
      /\ Append(a, y)[Len(s) + 1] = y
  BY <1>1, <1>2
<1> HIDE DEF a
<1>6. ASSUME NEW k \in 1 .. Len(s) + 1
      PROVE  Append(a, y)[k] = IF k = Len(s) + 1 THEN y ELSE IF k = Len(s) THEN x ELSE s[k]
  <2>1. CASE k = Len(s) + 1
    BY <1>5, <2>1, <1>1
  <2>2. CASE k # Len(s) + 1
    <3>1. k \in 1 .. Len(s)
      BY <1>1, <2>2
    <3> QED  BY <1>3, <1>4, <2>2, <3>1
  <2> QED  BY <2>1, <2>2
<1> QED
  BY <1>2, <1>3, <1>5, <1>6 DEF a, f

\* The least of a nonempty set.
LEMMA LeastElement ==
  ASSUME NEW T \in SUBSET Nat, T # {}
  PROVE  Min(T) \in T /\ \A y \in T : Min(T) <= y
<1>1. PICK x \in T : \A y \in T : ~ (<<y, x>> \in OpToRel(<, Nat))
  BY WFMin, NatLessThanWellFounded
<1>2. \A y \in T : ~ (y < x)
  BY <1>1 DEF OpToRel
<1>3. \A y \in T : x <= y
  BY <1>2
<1> QED
  BY <1>1, <1>3 DEF Min

-----------------------------------------------------------------------------
\* A turn of the innermost loop.

\* No more calls than levels, none beyond the range of the first.
LEMMA StackTop ==
  ASSUME NEW m, NEW st, StackOk(m, st), st # <<>>
  PROVE  /\ Len(st) \in 1 .. 4
         /\ \A k \in 1 .. Len(st) : st[k] \in Frames
         /\ st[Len(st)].end <= st[1].end
<1>1. st \in Seq(Frames) /\ Len(st) \in Nat \ {0}
  BY FrontIs DEF StackOk
<1>2. \A k \in 1 .. Len(st) : st[k] \in Frames
  BY <1>1
<1>3. st[Len(st)].level = Len(st) - 1 /\ st[Len(st)].level \in Levels
  BY <1>1, <1>2 DEF StackOk, Frames
<1>4. Len(st) \in 1 .. 4
  BY <1>1, <1>3 DEF Levels
<1>5. \A k \in 1 .. Len(st) : st[k].base \in Nat /\ st[k].end \in Nat /\ st[k].base <= st[k].end
  BY <1>2 DEF StackOk, Frames
<1>6. \A k \in 1 .. Len(st) - 1 : st[k + 1].end = st[k].base
  BY DEF StackOk
<1>7. \A k \in 1 .. Len(st) - 1 : st[k + 1].end <= st[k].end
  BY <1>1, <1>5, <1>6
<1>8. st[Len(st)].end <= st[1].end
  <2>1. CASE Len(st) = 1
    BY <1>5, <2>1
  <2>2. CASE Len(st) = 2
    BY <1>7, <2>2
  <2>3. CASE Len(st) = 3
    BY <1>5, <1>7, <2>3
  <2>4. CASE Len(st) = 4
    BY <1>5, <1>7, <2>4
  <2> QED  BY <1>4, <2>1, <2>2, <2>3, <2>4
<1> QED
  BY <1>2, <1>4, <1>8

\* The entry this turn is about.
Slot == Index(Active.level, Active.base)

\* The chunk of this turn: the pages from base to its end share the entry.
Turn ==
  /\ Active = stack[Len(stack)] /\ Active \in Frames /\ Active.level = Len(stack) - 1
  /\ ChunkEnd \in Nat /\ Active.base < ChunkEnd
  /\ ChunkEnd <= Active.end /\ Active.end <= stack[1].end
  /\ ChunkEnd <= Active.base + Cover[Active.level]
  /\ Active.table \in DOMAIN mem /\ mem[Active.table] \in Rows
  /\ Slot \in 0 .. R - 1
  /\ Here = mem[Active.table][Slot] /\ Here = EntryIn(mem, Active.table, Slot)
  /\ \A u \in Active.base .. ChunkEnd - 1 :
       /\ u % Space \in 0 .. Space - 1
       /\ Reach(mem, Active.level, u % Space, Active.table)
       /\ Index(Active.level, u % Space) = Slot

LEMMA TurnIs ==
  ASSUME NEW lev, NEW zone, Tree(mem, lev, zone), StackOk(mem, stack), InLoop
  PROVE  Turn /\ lev[Active.table] = Active.level
<1> DEFINE l == Active.level
           b == Active.base
           n == NextChunk(l, b)
<1>1. stack # <<>> /\ b < Active.end
  BY DEF InLoop
<1>2. /\ Len(stack) \in 1 .. 4 /\ Active = stack[Len(stack)] /\ Active \in Frames
      /\ Active.end <= stack[1].end
  BY <1>1, StackTop DEF Last, Active
<1>3. /\ l = Len(stack) - 1 /\ l \in Levels /\ b \in Nat /\ Active.end \in Nat
      /\ Active.end <= Top - Cover[0]
      /\ \A u \in b .. Active.end - 1 : Reach(mem, l, u % Space, Active.table)
  BY <1>2 DEF StackOk, Frames
<1>4. Top \in Nat /\ Cover[0] \in Nat \ {0} /\ Cover[l] \in Nat \ {0} /\ Space \in Nat \ {0}
  <2>1. 0 \in Levels
    BY DEF Levels
  <2>2. Space \in Nat \ {0} /\ Top = 2 * Space
    BY Halves, Covers
  <2> QED  BY <1>3, <2>1, <2>2, Covers
<1>5. b < Top - Cover[0]
  BY <1>1, <1>3, <1>4
<1>6. /\ n \in Nat /\ n = (b \div Cover[l]) * Cover[l] + Cover[l]
      /\ b < n /\ n <= b + Cover[l] /\ (l = 3 => n = b + 1)
  BY <1>3, <1>5, NextChunkIs
<1> HIDE DEF n
<1>7. ChunkEnd \in Nat /\ b < ChunkEnd /\ ChunkEnd <= Active.end /\ ChunkEnd <= n
  <2>1. CASE l = 3
    <3>1. ChunkEnd = n
      BY <2>1 DEF ChunkEnd, n
    <3>2. n = b + 1 /\ n \in Nat /\ b < n
      BY <1>6, <2>1
    <3> QED  BY <1>1, <1>3, <3>1, <3>2
  <2>2. CASE l # 3
    <3>1. ChunkEnd = Min({n, Active.end})
      BY <2>2 DEF ChunkEnd, n
    <3>2. {n, Active.end} \in SUBSET Nat /\ {n, Active.end} # {}
      BY <1>3, <1>6
    <3>3. /\ Min({n, Active.end}) \in {n, Active.end}
          /\ \A y \in {n, Active.end} : Min({n, Active.end}) <= y
      BY <3>2, LeastElement
    <3> QED  BY <1>1, <1>3, <1>6, <3>1, <3>3
  <2> QED  BY <2>1, <2>2
<1>8. ASSUME NEW u \in b .. ChunkEnd - 1
      PROVE  /\ u % Space \in 0 .. Space - 1
             /\ Reach(mem, l, u % Space, Active.table)
             /\ Index(l, u % Space) = Slot
  <2>1. u \in Nat /\ b <= u /\ u < n /\ u \in b .. Active.end - 1
    BY <1>3, <1>6, <1>7
  <2>2. u % Space \in 0 .. Space - 1
    BY <1>4, <2>1, DivLaw
  <2>3. Index(l, u) = Index(l, b)
    BY <1>3, <1>6, <2>1, SameChunk
  <2>4. Index(l, u % Space) = Index(l, u)
    BY <1>3, <2>1, IndexWraps
  <2> QED  BY <1>3, <2>1, <2>2, <2>3, <2>4 DEF Slot
<1>9. Active.table \in DOMAIN mem /\ lev[Active.table] = l
  <2>1. b \in b .. ChunkEnd - 1
    BY <1>3, <1>7
  <2>2. Reach(mem, l, b % Space, Active.table) /\ b % Space \in 0 .. Space - 1
    BY <1>8, <2>1
  <2> QED  BY <1>3, <2>2, ReachInTree
<1>10. Slot \in 0 .. R - 1
  BY <1>3, IndexIn DEF Slot
<1>11. mem[Active.table] \in Rows
  BY <1>9 DEF Tree
<1>12. Here = mem[Active.table][Slot] /\ Here = EntryIn(mem, Active.table, Slot)
  BY <1>9 DEF Here, Entry, Row, EntryIn, Slot
<1>13. ChunkEnd <= b + Cover[l]
  BY <1>3, <1>4, <1>6, <1>7
<1> QED
  BY <1>2, <1>3, <1>7, <1>8, <1>9, <1>10, <1>11, <1>12, <1>13 DEF Turn

\* Walks that came to a table still do.
KeepsReach(m, m2) ==
  \A p : \A l \in Levels, v \in 0 .. Space - 1 : Reach(m, l, v, p) => Reach(m2, l, v, p)

\* The next turn of the same loop.
LEMMA AdvanceOk ==
  ASSUME StackOk(mem, stack), stack # <<>>, Turn, NEW m2, KeepsReach(mem, m2)
  PROVE  /\ StackOk(m2, Advance)
         /\ Left(stack) = Active.base .. stack[1].end - 1
         /\ Left(Advance) = ChunkEnd .. stack[1].end - 1
<1> DEFINE N == Len(stack)
           x == [Active EXCEPT !.base = ChunkEnd]
           s2 == Advance
<1>1. /\ stack \in Seq(Frames) /\ N \in 1 .. 4 /\ \A k \in 1 .. N : stack[k] \in Frames
  BY StackTop DEF StackOk
<1>2. /\ Active = stack[N] /\ x \in Frames /\ x.level = Active.level
      /\ x.table = Active.table /\ x.base = ChunkEnd /\ x.end = Active.end
  BY DEF Turn, Frames
<1>3. s2 = Append(Front(stack), x)
  BY DEF Advance, Callers
<1> HIDE DEF x, s2
<1>4. /\ s2 \in Seq(Frames) /\ Len(s2) = N
      /\ \A k \in 1 .. N : s2[k] = IF k = N THEN x ELSE stack[k]
  BY <1>1, <1>2, <1>3, LastReplaced
<1> HIDE DEF N
<1>5. Active.base < ChunkEnd /\ ChunkEnd <= Active.end /\ ChunkEnd \in Nat
      /\ Active.base \in Nat /\ Active.end \in Nat
  BY DEF Turn, Frames
<1>a. /\ stack[1].end - Active.base <= Space /\ stack[1].end \in Nat
      /\ \A k \in 1 .. N :
           /\ stack[k].level = k - 1
           /\ stack[k].base <= stack[k].end /\ stack[k].end <= Top - Cover[0]
           /\ stack[k].base \in Nat /\ stack[k].end \in Nat
  <2>1. /\ \A k \in 1 .. N :
             /\ stack[k].level = k - 1
             /\ stack[k].base <= stack[k].end /\ stack[k].end <= Top - Cover[0]
        /\ stack[1].end - Active.base <= Space
    BY <1>2 DEF StackOk, N
  <2>2. \A k \in 1 .. N : stack[k].base \in Nat /\ stack[k].end \in Nat
    BY <1>1 DEF Frames
  <2>3. 1 \in 1 .. N
    BY <1>1
  <2> QED  BY <2>1, <2>2, <2>3
<1>6. ASSUME NEW k \in 1 .. N
      PROVE  /\ s2[k].level = k - 1
             /\ s2[k].base <= s2[k].end /\ s2[k].end <= Top - Cover[0]
             /\ s2[k].end = stack[k].end /\ s2[k].table = stack[k].table
             /\ stack[k].base <= s2[k].base /\ s2[k].base \in Nat
  <2>1. CASE k = N
    BY <1>2, <1>4, <1>5, <1>a, <2>1
  <2>2. CASE k # N
    BY <1>4, <1>a, <2>2
  <2> QED  BY <2>1, <2>2
<1>7. ASSUME NEW k \in 1 .. N, NEW u \in s2[k].base .. s2[k].end - 1
      PROVE  Reach(m2, k - 1, u % Space, s2[k].table)
  <2>1. stack[k].base \in Nat /\ stack[k].end \in Nat
    BY <1>1 DEF Frames
  <2>2. u \in stack[k].base .. stack[k].end - 1 /\ u \in Nat
    BY <1>6, <2>1
  <2>3. Reach(mem, k - 1, u % Space, stack[k].table)
    BY <2>2 DEF StackOk, N
  <2>4. u % Space \in 0 .. Space - 1 /\ k - 1 \in Levels
    <3>1. Space \in Nat \ {0}
      BY Covers
    <3>2. u % Space \in 0 .. Space - 1
      BY <2>2, <3>1, DivLaw
    <3> QED  BY <1>1, <3>2 DEF Levels
  <2> QED  BY <1>6, <2>3, <2>4 DEF KeepsReach
<1>8. ASSUME NEW k \in 1 .. N - 1
      PROVE  s2[k + 1].end = s2[k].base
  <2>1. k \in 1 .. N /\ k + 1 \in 1 .. N /\ k # N
    BY <1>1
  <2>2. s2[k + 1].end = stack[k + 1].end /\ s2[k] = stack[k]
    BY <1>4, <1>6, <2>1
  <2>3. stack[k + 1].end = stack[k].base
    BY DEF StackOk, N
  <2> QED  BY <2>2, <2>3
<1>9. s2[1].end = stack[1].end /\ s2[N].base = ChunkEnd
  BY <1>1, <1>2, <1>4, <1>6
<1>10. s2[1].end - s2[N].base <= Space
  <2>1. Space \in Nat
    BY Covers
  <2> QED  BY <1>5, <1>9, <1>a, <2>1
<1>11. StackOk(m2, s2)
  BY <1>4, <1>6, <1>7, <1>8, <1>10 DEF StackOk
<1>12. s2 # <<>>
  BY <1>1, <1>4, EmptySeq
<1> QED
  BY <1>2, <1>4, <1>9, <1>11, <1>12 DEF Left, N, s2

\* A call of the next level's loop.
LEMMA PushOk ==
  ASSUME NEW m, NEW st, StackOk(m, st), st # <<>>,
         NEW y \in Frames, y.level = Len(st), y.base <= y.end,
         y.end = st[Len(st)].base, st[1].end - y.base <= Space,
         \A u \in y.base .. y.end - 1 : Reach(m, y.level, u % Space, y.table)
  PROVE  /\ StackOk(m, Append(st, y))
         /\ Left(Append(st, y)) = y.base .. st[1].end - 1
<1> DEFINE N == Len(st)
           s2 == Append(st, y)
<1>1. /\ st \in Seq(Frames) /\ N \in 1 .. 4 /\ \A k \in 1 .. N : st[k] \in Frames
  BY StackTop DEF StackOk
<1>2. /\ s2 \in Seq(Frames) /\ Len(s2) = N + 1 /\ s2 # <<>>
      /\ \A k \in 1 .. N : s2[k] = st[k]
      /\ s2[N + 1] = y
  BY <1>1, AppendProperties
<1>3. /\ \A k \in 1 .. N :
           /\ st[k].level = k - 1
           /\ st[k].base <= st[k].end /\ st[k].end <= Top - Cover[0]
           /\ \A u \in st[k].base .. st[k].end - 1 : Reach(m, k - 1, u % Space, st[k].table)
      /\ \A k \in 1 .. N - 1 : st[k + 1].end = st[k].base
  BY DEF StackOk, N
<1>4. y.level = N /\ y.end = st[N].base
  OBVIOUS
<1> HIDE DEF N, s2
<1>5. y.end <= Top - Cover[0]
  <2>1. N \in 1 .. N
    BY <1>1
  <2>2. st[N].base <= st[N].end /\ st[N].end <= Top - Cover[0]
    BY <1>3, <2>1
  <2>3. st[N].base \in Nat /\ st[N].end \in Nat
    BY <1>1, <2>1 DEF Frames
  <2>4. Top \in Nat /\ Cover[0] \in Nat
    BY Halves, Covers DEF Levels
  <2> QED  BY <1>4, <2>2, <2>3, <2>4
<1>6. ASSUME NEW k \in 1 .. N + 1
      PROVE  /\ s2[k].level = k - 1
             /\ s2[k].base <= s2[k].end /\ s2[k].end <= Top - Cover[0]
             /\ \A u \in s2[k].base .. s2[k].end - 1 : Reach(m, k - 1, u % Space, s2[k].table)
  <2>1. CASE k = N + 1
    <3>1. s2[k] = y /\ y.level = k - 1
      BY <1>1, <1>2, <1>4, <2>1
    <3> QED  BY <1>5, <3>1
  <2>2. CASE k \in 1 .. N
    BY <1>2, <1>3, <2>2
  <2> QED  BY <1>1, <2>1, <2>2
<1>7. ASSUME NEW k \in 1 .. N
      PROVE  s2[k + 1].end = s2[k].base
  <2>1. CASE k = N
    BY <1>1, <1>2, <1>4, <2>1
  <2>2. CASE k # N
    <3>1. k \in 1 .. N - 1 /\ k + 1 \in 1 .. N
      BY <1>1, <2>2
    <3> QED  BY <1>2, <1>3, <3>1
  <2> QED  BY <2>1, <2>2
<1>8. s2[1].end = st[1].end /\ s2[Len(s2)].base = y.base
  BY <1>1, <1>2
<1>9. Len(s2) - 1 = N
  BY <1>1, <1>2
<1>10. StackOk(m, s2)
  BY <1>2, <1>6, <1>7, <1>8, <1>9 DEF StackOk
<1> QED
  BY <1>2, <1>8, <1>10 DEF Left, s2

\* The return of a loop that is done.
LEMMA PopOk ==
  ASSUME NEW m, NEW st, StackOk(m, st), st # <<>>, st[Len(st)].base >= st[Len(st)].end
  PROVE  StackOk(m, Front(st)) /\ Left(Front(st)) = Left(st)
<1> DEFINE N == Len(st)
           s2 == Front(st)
<1>1. /\ st \in Seq(Frames) /\ N \in 1 .. 4 /\ \A k \in 1 .. N : st[k] \in Frames
  BY StackTop DEF StackOk
<1>2. /\ s2 \in Seq(Frames) /\ Len(s2) = N - 1
      /\ \A k \in 1 .. N - 1 : s2[k] = st[k]
  BY <1>1, FrontIs
<1>3. /\ \A k \in 1 .. N :
           /\ st[k].level = k - 1
           /\ st[k].base <= st[k].end /\ st[k].end <= Top - Cover[0]
           /\ \A u \in st[k].base .. st[k].end - 1 : Reach(m, k - 1, u % Space, st[k].table)
      /\ \A k \in 1 .. N - 1 : st[k + 1].end = st[k].base
      /\ st[1].end - st[N].base <= Space
  BY DEF StackOk, N
<1>4. /\ Left(st) = st[N].base .. st[1].end - 1
      /\ Left(s2) = IF s2 = <<>> THEN {} ELSE s2[Len(s2)].base .. s2[1].end - 1
      /\ st[N].base >= st[N].end
  BY DEF Left, N
<1> HIDE DEF N, s2
<1>5. \A k \in 1 .. N : st[k].base \in Nat /\ st[k].end \in Nat
  BY <1>1 DEF Frames
<1>6. st[N].base = st[N].end
  <2>1. N \in 1 .. N
    BY <1>1
  <2> QED  BY <1>3, <1>4, <1>5, <2>1
<1>7. \A k \in 1 .. Len(s2) :
        /\ s2[k].level = k - 1
        /\ s2[k].base <= s2[k].end /\ s2[k].end <= Top - Cover[0]
        /\ \A u \in s2[k].base .. s2[k].end - 1 : Reach(m, k - 1, u % Space, s2[k].table)
  <2>1. \A k \in 1 .. N - 1 : k \in 1 .. N
    BY <1>1
  <2> QED  BY <1>2, <1>3, <2>1
<1>8. \A k \in 1 .. Len(s2) - 1 : s2[k + 1].end = s2[k].base
  <2>1. \A k \in 1 .. N - 1 - 1 : k \in 1 .. N - 1 /\ k + 1 \in 1 .. N - 1
    BY <1>1
  <2> QED  BY <1>2, <1>3, <2>1
<1>9. CASE N = 1
  <2>1. s2 = <<>>
    BY <1>2, <1>9, EmptySeq
  <2>2. Left(st) = {}
    BY <1>1, <1>4, <1>5, <1>6, <1>9
  <2>3. StackOk(m, s2)
    BY <1>2, <1>7, <1>8, <2>1 DEF StackOk
  <2> QED  BY <1>4, <2>1, <2>2, <2>3 DEF s2
<1>10. CASE N # 1
  <2>1. N - 1 \in 1 .. N - 1 /\ 1 \in 1 .. N - 1 /\ (N - 1) + 1 = N
    BY <1>1, <1>10
  <2>2. s2 # <<>>
    BY <1>2, <2>1, EmptySeq
  <2>3. s2[1] = st[1] /\ s2[N - 1] = st[N - 1] /\ st[N - 1].base = st[N].end
    BY <1>2, <1>3, <2>1
  <2>4. s2[Len(s2)].base = st[N].base /\ s2[1].end = st[1].end
    BY <1>2, <1>6, <2>3
  <2>5. StackOk(m, s2)
    BY <1>2, <1>3, <1>7, <1>8, <2>4 DEF StackOk
  <2> QED  BY <1>4, <2>2, <2>4, <2>5 DEF s2
<1> QED
  BY <1>9, <1>10

\* Two pages less than a space apart differ when the space wraps.
LEMMA ModApart ==
  ASSUME NEW a \in Nat, NEW b \in Nat, NEW P \in Nat \ {0}, a < b, b - a < P
  PROVE  a % P # b % P
<1> DEFINE n == a \div P
           r == a % P
           k == b \div P
           s == b % P
<1>1. n \in Nat /\ r \in 0 .. P - 1 /\ a = n * P + r
  BY DivLaw
<1>2. k \in Nat /\ s \in 0 .. P - 1 /\ b = k * P + s
  BY DivLaw
<1> SUFFICES ASSUME r = s PROVE FALSE
  OBVIOUS
<1> HIDE DEF n, r, k, s
<1>3. n * P \in Nat /\ k * P \in Nat
  BY <1>1, <1>2, MulType
<1>4. k < n => k * P + P <= n * P
  BY <1>1, <1>2, MulMono
<1>5. n < k => n * P + P <= k * P
  BY <1>1, <1>2, MulMono
<1>6. n = k => n * P = k * P
  OBVIOUS
<1> QED
  BY <1>1, <1>2, <1>3, <1>4, <1>5, <1>6

\* The pages of this turn and those after it.
LEMMA LeftApart ==
  ASSUME StackOk(mem, stack), stack # <<>>, Turn,
         NEW u \in Active.base .. ChunkEnd - 1, NEW w \in ChunkEnd .. stack[1].end - 1
  PROVE  u % Space # w % Space
<1>1. /\ Active.base \in Nat /\ ChunkEnd \in Nat
      /\ stack[1].end - Active.base <= Space
  BY DEF StackOk, Turn, Frames
<1>2. stack[1] \in Frames
  BY StackTop
<1>3. stack[1].end \in Nat /\ Space \in Nat \ {0}
  BY <1>2, Covers DEF Frames
<1>4. u \in Nat /\ w \in Nat /\ u < w /\ w - u < Space
  BY <1>1, <1>3
<1> QED
  BY <1>3, <1>4, ModApart

-----------------------------------------------------------------------------
\* A leaf written for the whole chunk of a turn.

Whole ==
  /\ Active.base % Cover[Active.level] = 0
  /\ ChunkEnd = Active.base + Cover[Active.level]

\* The virtual pages whose walks come to the entry are those of the chunk.
LEMMA ChunkIs ==
  ASSUME NEW lev, NEW zone, Tree(mem, lev, zone), StackOk(mem, stack), InLoop, Whole,
         NEW v \in 0 .. Space - 1, Reach(mem, Active.level, v, Active.table),
         Index(Active.level, v) = Slot
  PROVE  \E u \in Active.base .. ChunkEnd - 1 : v = u % Space
<1> DEFINE l == Active.level
           b == Active.base
           w == b % Space
<1>1. Turn /\ lev[Active.table] = l
  BY TurnIs
<1>2. l \in Levels /\ b \in Nat /\ ChunkEnd \in Nat /\ b < ChunkEnd
  BY <1>1 DEF Turn, Frames
<1>3. b \in b .. ChunkEnd - 1
  BY <1>2
<1>4. w \in 0 .. Space - 1 /\ Reach(mem, l, w, Active.table) /\ Index(l, w) = Slot
  BY <1>1, <1>3 DEF Turn
<1>5. Active.table \in DOMAIN mem /\ v \in zone[Active.table] /\ w \in zone[Active.table]
  BY <1>2, <1>4, ReachInTree
<1>6. SameIndices(l, v, w)
  <2> SUFFICES ASSUME NEW k \in 0 .. l PROVE Index(k, v) = Index(k, w)
    BY DEF SameIndices
  <2>1. CASE k = l
    BY <1>4, <2>1
  <2>2. CASE k # l
    <3>1. k \in Levels /\ k < l
      BY <1>2, <2>2 DEF Levels
    <3> QED  BY <1>1, <1>5, <3>1 DEF Tree
  <2> QED  BY <2>1, <2>2
<1>7. PICK k \in 0 .. Cover[l] - 1 : v = (b + k) % Space
  BY <1>2, <1>6, ChunkPage DEF Whole
<1>8. Cover[l] \in Nat \ {0}
  BY <1>2, Covers
<1>9. b + k \in b .. ChunkEnd - 1
  BY <1>2, <1>8 DEF Whole
<1> QED
  BY <1>7, <1>9

\* What is read after the leaf is written.
Effect(m2, d) ==
  /\ DOMAIN m2 = DOMAIN mem
  /\ \A p \in DOMAIN mem : \A j \in 0 .. R - 1 :
       \/ m2[p][j] = mem[p][j]
       \/ mem[p][j].kind = "fault" /\ m2[p][j].attr # NoAttr
  /\ \A v \in 0 .. Space - 1 :
       \/ TranslateIn(m2, v) = TranslateIn(mem, v)
       \/ /\ TranslateIn(mem, v) = Unmapped
          /\ \E u \in Active.base .. ChunkEnd - 1 : v = u % Space
  /\ \A u \in Active.base .. ChunkEnd - 1 :
       TranslateIn(m2, u % Space) = Leaf(d, Active.level, u % Space)

LEMMA LeafEffect ==
  ASSUME NEW lev, NEW zone, Tree(mem, lev, zone), StackOk(mem, stack), InLoop, Whole,
         NEW d \in Descriptors, d.attr # NoAttr,
         \/ d.kind = "block" /\ Active.level \in {1, 2}
         \/ d.kind = "next" /\ Active.level = 3,
         NEW m2, Writes(mem, m2, Active.table, Slot, d, {})
  PROVE  Tree(m2, lev, zone) /\ KeepsReach(mem, m2) /\ Effect(m2, d)
<1> DEFINE l == Active.level
           t == Active.table
<1>1. Turn /\ lev[t] = l
  BY TurnIs
<1>2. l \in Levels /\ t \in DOMAIN mem /\ mem[t] \in Rows
  BY <1>1 DEF Turn, Frames
<1>3. Wrote(mem, m2, t, Slot, d, {})
  BY <1>2, WrittenEntries
<1>4. Tree(m2, lev, zone)
  BY <1>1, LeafKeepsTree
<1>5. KeepsReach(mem, m2)
  BY ReachStays DEF KeepsReach
<1>6. DOMAIN m2 = DOMAIN mem
  BY <1>3 DEF Wrote
<1>7. ASSUME NEW p \in DOMAIN mem, NEW j \in 0 .. R - 1
      PROVE  \/ m2[p][j] = mem[p][j]
             \/ mem[p][j].kind = "fault" /\ m2[p][j].attr # NoAttr
  <2>1. EntryIn(m2, p, j) = m2[p][j] /\ EntryIn(mem, p, j) = mem[p][j]
    BY <1>6 DEF EntryIn
  <2>2. CASE p = t /\ j = Slot
    BY <1>3, <2>1, <2>2 DEF Wrote, Writes
  <2>3. CASE p # t \/ j # Slot
    BY <1>3, <2>1, <2>3 DEF Wrote
  <2> QED  BY <2>2, <2>3
<1>8. ASSUME NEW v \in 0 .. Space - 1
      PROVE  \/ TranslateIn(m2, v) = TranslateIn(mem, v)
             \/ /\ TranslateIn(mem, v) = Unmapped
                /\ \E u \in Active.base .. ChunkEnd - 1 : v = u % Space
  <2>1. \/ TranslateIn(m2, v) = TranslateIn(mem, v)
        \/ /\ TranslateIn(mem, v) = Unmapped
           /\ Reach(mem, lev[t], v, t) /\ Index(lev[t], v) = Slot
    BY <1>4, TranslateStays
  <2> QED  BY <1>1, <2>1, ChunkIs
<1>9. ASSUME NEW u \in Active.base .. ChunkEnd - 1
      PROVE  TranslateIn(m2, u % Space) = Leaf(d, l, u % Space)
  <2>1. /\ u % Space \in 0 .. Space - 1 /\ Reach(mem, l, u % Space, t)
        /\ Index(l, u % Space) = Slot
    BY <1>1 DEF Turn
  <2>2. Reach(m2, l, u % Space, t)
    BY <1>2, <1>5, <2>1 DEF KeepsReach
  <2>3. EntryIn(m2, t, Index(l, u % Space)) = d
    BY <1>3, <2>1 DEF Wrote
  <2> QED  BY <1>2, <1>4, <2>1, <2>2, <2>3, TranslateAt
<1> QED
  BY <1>4, <1>5, <1>6, <1>7, <1>8, <1>9 DEF Effect

-----------------------------------------------------------------------------
\* An empty table put below an entry: nothing is mapped or unmapped by it, and
\* the pages of the chunk now come to it.
TableEffect(m2, c) ==
  /\ DOMAIN m2 = DOMAIN mem \cup {c}
  /\ \A p \in DOMAIN mem : \A j \in 0 .. R - 1 :
       \/ m2[p][j] = mem[p][j]
       \/ p = Active.table /\ j = Slot /\ m2[p][j].addr = c
  /\ \A j \in 0 .. R - 1 : m2[c][j].kind = "fault"
  /\ \A v \in 0 .. Space - 1 : TranslateIn(m2, v) = TranslateIn(mem, v)
  /\ \A u \in Active.base .. ChunkEnd - 1 : Reach(m2, Active.level + 1, u % Space, c)

LEMMA TableIsEmpty ==
  ASSUME NEW lev, NEW zone, Tree(mem, lev, zone), StackOk(mem, stack), InLoop,
         Active.level < 3, NEW c \in 0 .. Half - 1,
         NEW m2, Writes(mem, m2, Active.table, Slot, make_table(c), {c})
  PROVE  /\ \E lev2, zone2 : Tree(m2, lev2, zone2)
         /\ KeepsReach(mem, m2) /\ TableEffect(m2, c)
<1> DEFINE l == Active.level
           t == Active.table
           d == make_table(c)
<1>1. Turn /\ lev[t] = l
  BY TurnIs
<1>2. l \in {0, 1, 2} /\ l \in Levels /\ t \in DOMAIN mem /\ mem[t] \in Rows
  <2>1. l \in Levels /\ t \in DOMAIN mem /\ mem[t] \in Rows
    BY <1>1 DEF Turn, Frames
  <2>2. l \in {0, 1, 2}
    BY <2>1 DEF Levels
  <2> QED  BY <2>1, <2>2
<1>3. Wrote(mem, m2, t, Slot, d, {c})
  BY <1>2, WrittenEntries
<1>a. \E lev2, zone2 : Tree(m2, lev2, zone2)
  BY <1>1, <1>2, TableKeepsTree
<1>4. PICK lev2, zone2 : Tree(m2, lev2, zone2)
  BY <1>a
<1>5. KeepsReach(mem, m2)
  BY ReachStays DEF KeepsReach
<1>6. DOMAIN m2 = DOMAIN mem \cup {c}
  BY <1>3 DEF Wrote
<1>7. d.kind = "next" /\ d.addr = c
  <2>1. c % Half = c
    BY Halves
  <2> QED  BY <2>1 DEF make_table
<1>8. ASSUME NEW p \in DOMAIN mem, NEW j \in 0 .. R - 1
      PROVE  \/ m2[p][j] = mem[p][j]
             \/ p = t /\ j = Slot /\ m2[p][j].addr = c
  <2>1. EntryIn(m2, p, j) = m2[p][j] /\ EntryIn(mem, p, j) = mem[p][j]
    BY <1>6 DEF EntryIn
  <2>2. CASE p = t /\ j = Slot
    BY <1>3, <1>7, <2>1, <2>2 DEF Wrote
  <2>3. CASE p # t \/ j # Slot
    <3>1. EntryIn(m2, p, j) = EntryIn(mem, p, j)
      BY <1>3, <2>3 DEF Wrote
    <3> QED  BY <2>1, <3>1
  <2> QED  BY <2>2, <2>3
<1>9. ASSUME NEW j \in 0 .. R - 1
      PROVE  m2[c][j].kind = "fault" /\ EntryIn(m2, c, j).kind = "fault"
  <2>1. EntryIn(m2, c, j) = m2[c][j]
    BY <1>6 DEF EntryIn
  <2>2. EntryIn(m2, c, j) = Invalid
    BY <1>3 DEF Wrote
  <2> QED  BY <2>1, <2>2 DEF Invalid
<1>10. ASSUME NEW v \in 0 .. Space - 1, Reach(mem, l, v, t), Index(l, v) = Slot
       PROVE  Reach(m2, l + 1, v, c) /\ TranslateIn(m2, v) = Unmapped
  <2>1. Reach(m2, l, v, t)
    BY <1>2, <1>5, <1>10 DEF KeepsReach
  <2>2. EntryIn(m2, t, Index(l, v)) = d
    BY <1>3, <1>10 DEF Wrote
  <2>3. Reach(m2, l + 1, v, c)
    BY <1>2, <1>7, <2>1, <2>2, ReachNext
  <2>4. l + 1 \in Levels
    BY <1>2 DEF Levels
  <2>5. Index(l + 1, v) \in 0 .. R - 1
    BY <2>4, IndexIn, Covers
  <2>6. EntryIn(m2, c, Index(l + 1, v)).kind = "fault"
    BY <1>9, <2>5
  <2> QED  BY <1>4, <2>3, <2>4, <2>6, TranslateAt
<1>11. ASSUME NEW v \in 0 .. Space - 1
       PROVE  TranslateIn(m2, v) = TranslateIn(mem, v)
  <2>1. \/ TranslateIn(m2, v) = TranslateIn(mem, v)
        \/ /\ TranslateIn(mem, v) = Unmapped
           /\ Reach(mem, lev[t], v, t) /\ Index(lev[t], v) = Slot
    BY <1>4, TranslateStays
  <2> QED  BY <1>1, <1>10, <2>1
<1>12. ASSUME NEW u \in Active.base .. ChunkEnd - 1
       PROVE  Reach(m2, l + 1, u % Space, c)
  BY <1>1, <1>10 DEF Turn
<1> QED
  BY <1>4, <1>5, <1>6, <1>8, <1>9, <1>11, <1>12 DEF TableEffect

\* Going down to a table: no page is left out, and none is taken up twice.
LEMMA DescendOk ==
  ASSUME StackOk(mem, stack), stack # <<>>, Turn, Active.level < 3,
         NEW m2, KeepsReach(mem, m2), NEW c \in 0 .. Half - 1,
         \A u \in Active.base .. ChunkEnd - 1 : Reach(m2, Active.level + 1, u % Space, c)
  PROVE  StackOk(m2, Descend(c)) /\ Left(Descend(c)) = Left(stack)
<1> DEFINE N == Len(stack)
           x == [Active EXCEPT !.base = ChunkEnd]
           y == Frame(Active.level + 1, c, Active.base, ChunkEnd)
           s2 == Advance
<1>1. /\ stack \in Seq(Frames) /\ N \in 1 .. 4 /\ \A k \in 1 .. N : stack[k] \in Frames
  BY StackTop DEF StackOk
<1>2. /\ Active = stack[N] /\ x \in Frames /\ x.base = ChunkEnd /\ x.end = Active.end
      /\ Active.level = N - 1 /\ Active \in Frames
      /\ Active.base \in Nat /\ ChunkEnd \in Nat /\ Active.base < ChunkEnd
  BY DEF Turn, Frames
<1>3. s2 = Append(Front(stack), x)
  BY DEF Advance, Callers
<1>4. /\ StackOk(m2, s2) /\ Left(stack) = Active.base .. stack[1].end - 1
  BY AdvanceOk
<1>5. y \in Frames /\ y.level = N /\ y.base = Active.base /\ y.end = ChunkEnd /\ y.table = c
  <2>1. Active.level + 1 \in Levels /\ Active.level + 1 = N
    <3>1. Active.level \in Levels
      BY <1>2 DEF Frames
    <3>2. Active.level + 1 \in Levels
      BY <3>1 DEF Levels
    <3> QED  BY <1>1, <1>2, <3>2
  <2> QED  BY <1>2, <2>1 DEF Frame, Frames
<1>6. Descend(c) = Append(s2, y)
  BY DEF Descend
<1>7. stack[1].end - Active.base <= Space
  BY <1>2 DEF StackOk, N
<1> HIDE DEF x, y, s2
<1>8. /\ s2 \in Seq(Frames) /\ Len(s2) = N
      /\ \A k \in 1 .. N : s2[k] = IF k = N THEN x ELSE stack[k]
  BY <1>1, <1>2, <1>3, LastReplaced
<1> HIDE DEF N
<1>9. s2 # <<>> /\ s2[N] = x /\ s2[1].end = stack[1].end
  BY <1>1, <1>2, <1>8, EmptySeq
<1>10. \A u \in y.base .. y.end - 1 : Reach(m2, y.level, u % Space, y.table)
  <2>1. y.level = Active.level + 1
    BY <1>1, <1>2, <1>5
  <2> QED  BY <1>5, <2>1
<1>11. /\ y.level = Len(s2) /\ y.base <= y.end /\ y.end = s2[Len(s2)].base
       /\ s2[1].end - y.base <= Space
  BY <1>2, <1>5, <1>7, <1>8, <1>9
<1>12. /\ StackOk(m2, Append(s2, y))
       /\ Left(Append(s2, y)) = y.base .. s2[1].end - 1
  BY <1>4, <1>5, <1>9, <1>10, <1>11, PushOk
<1> QED
  BY <1>4, <1>5, <1>6, <1>9, <1>12

-----------------------------------------------------------------------------
\* The invariant holds at first.

MappingsKept ==
  \A v \in 0 .. Space - 1 : Translate(v) # Unmapped => Translate(v)' = Translate(v)

\* Before the first call, whatever pages the allocator has.
NoCalls ==
  /\ mem = [p \in {RootTable} |-> [i \in 0 .. R - 1 |-> Invalid]]
  /\ stack = <<>> /\ count = 0 /\ panicked = FALSE
  /\ want = [v \in 0 .. Space - 1 |-> Unmapped]

LEMMA NoCallsIInv == NoCalls /\ free \subseteq Ram => IInv
<1> SUFFICES ASSUME NoCalls, free \subseteq Ram PROVE IInv
  OBVIOUS
<1>1. /\ mem = [p \in {RootTable} |-> [i \in 0 .. R - 1 |-> Invalid]]
      /\ free \subseteq Ram /\ stack = <<>> /\ count = 0 /\ panicked = FALSE
      /\ want = [v \in 0 .. Space - 1 |-> Unmapped]
  BY DEF NoCalls
<1>2. Invalid \in Descriptors /\ Invalid.kind = "fault" /\ Unmapped \in [addr : Int,
   attr : Attrs]
  BY Halves DEF Invalid, Descriptors, Attrs, Unmapped
<1>3. DOMAIN mem = {RootTable} /\ mem[RootTable] = [i \in 0 .. R - 1 |-> Invalid]
  BY <1>1
<1>4. Tree(mem, [p \in {RootTable} |-> 0], [p \in {RootTable} |-> 0 .. Space - 1])
  <2> DEFINE lev == [p \in {RootTable} |-> 0]
             zone == [p \in {RootTable} |-> 0 .. Space - 1]
  <2>1. lev[RootTable] = 0 /\ zone[RootTable] = 0 .. Space - 1
    OBVIOUS
  <2> HIDE DEF lev, zone
  <2>2. mem[RootTable] \in Rows
    BY <1>2, <1>3 DEF Rows
  <2>3. \A p \in DOMAIN mem : \A i \in 0 .. R - 1 : EntryOk(mem, lev, zone, p, i)
    BY <1>2, <1>3 DEF EntryOk
  <2>4. \A p \in DOMAIN mem : lev[p] \in Levels
    BY <1>3, <2>1 DEF Levels
  <2>5. \A p \in DOMAIN mem : \A u, v \in zone[p], k \in Levels :
          k < lev[p] => Index(k, u) = Index(k, v)
    BY <1>3, <2>1 DEF Levels
  <2>6. Tree(mem, lev, zone)
    BY <1>3, <2>1, <2>2, <2>3, <2>4, <2>5 DEF Tree
  <2> QED  BY <2>6 DEF lev, zone
<1>5. ASSUME NEW v \in 0 .. Space - 1
      PROVE  Translate(v) = Unmapped
  <2>1. Index(0, v) \in 0 .. R - 1
    BY IndexIn, Covers DEF Levels
  <2>2. Entry0(mem, v).kind = "fault"
    BY <1>2, <1>3, <2>1 DEF Entry0, EntryIn
  <2>3. TranslateIn(mem, v) = Unmapped
    BY <2>2 DEF TranslateIn
  <2> QED  BY <2>3, TranslateIsIn
<1>6. StackOk(mem, stack) /\ Left(stack) = {}
  <2>1. stack \in Seq(Frames) /\ Len(stack) = 0
    BY <1>1, EmptySeq
  <2> QED  BY <1>1, <2>1 DEF StackOk, Left
<1>7. Shape
  <2>1. want \in [0 .. Space - 1 -> [addr : Int, attr : Attrs]]
    BY <1>1, <1>2
  <2>2. count \in 0 .. MaxMaps
    BY <1>1, PageTablesAssumption
  <2>3. panicked \in BOOLEAN /\ (stack # <<>> => Callable(cur)) /\ free \subseteq Ram
    BY <1>1
  <2>4. DOMAIN mem \subseteq {RootTable} \cup (Ram \ free)
    BY <1>3
  <2> QED  BY <2>1, <2>2, <2>3, <2>4 DEF Shape
<1>8. MapsAsWanted /\ LeftUnmapped /\ MissingIsLeft
  BY <1>1, <1>5, <1>6 DEF MapsAsWanted, LeftUnmapped, MissingIsLeft
<1>9. TableLinks = {}
  BY <1>1, <1>3 DEF TableLinks, Invalid
<1>10. NewPages = {}
  BY <1>5 DEF NewPages
<1>11. OneParent /\ NewApart
  BY <1>9, <1>10 DEF OneParent, NewApart
<1> QED
  BY <1>4, <1>6, <1>7, <1>8, <1>11 DEF IInv

LEMMA InitIInv == Init => IInv
  BY NoCallsIInv DEF Init, NoCalls

\* Pages that somebody else takes from the allocator.
LEMMA OthersTakeKeeps ==
  ASSUME IInv, free' \subseteq free, UNCHANGED <<mem, stack, cur, want, count, panicked>>
  PROVE  IInv' /\ MappingsKept
<1>1. \A v : Translate(v)' = Translate(v)
  BY TranslateIsIn
<1>2. Shape'
  BY DEF IInv, Shape
<1>3. MapsAsWanted'
  BY <1>1 DEF IInv, MapsAsWanted, Matches
<1>4. LeftUnmapped' /\ MissingIsLeft'
  BY <1>1 DEF IInv, LeftUnmapped, MissingIsLeft, Wanted
<1>5. OneParent'
  BY DEF IInv, OneParent, TableLinks
<1>6. NewApart'
  BY <1>1 DEF IInv, NewApart, NewPages
<1>7. StackOk(mem', stack') /\ \E lev, zone : Tree(mem', lev, zone)
  BY DEF IInv
<1> QED
  BY <1>1, <1>2, <1>3, <1>4, <1>5, <1>6, <1>7 DEF IInv, MappingsKept

-----------------------------------------------------------------------------
\* What a turn finds in its entry: nothing, or a table of the next level.  A
\* block or a page would be a mapping of a page that is still to be mapped.
LEMMA HereIs ==
  ASSUME IInv, InLoop
  PROVE  \/ Here.kind = "fault"
         \/ /\ Here.kind = "next" /\ Active.level < 3
            /\ \A u \in Active.base .. ChunkEnd - 1 :
                 Reach(mem, Active.level + 1, u % Space, Here.addr)
            /\ Here.addr \in 0 .. Half - 1
<1> DEFINE l == Active.level
           t == Active.table
           v == Active.base % Space
<1>1. StackOk(mem, stack) /\ stack # <<>> /\ \E lev, zone : Tree(mem, lev, zone)
  BY DEF IInv, InLoop
<1>2. PICK lev, zone : Tree(mem, lev, zone)
  BY <1>1
<1>3. Turn /\ lev[t] = l
  BY <1>1, <1>2, TurnIs
<1>4. /\ l \in Levels /\ Active.base \in Nat /\ ChunkEnd \in Nat /\ Active.base < ChunkEnd
      /\ ChunkEnd <= stack[1].end /\ Active = stack[Len(stack)]
      /\ Here = EntryIn(mem, t, Slot)
  <2>1. stack[1].end \in Nat /\ Active.end \in Nat
    BY <1>1, <1>3, StackTop DEF Turn, Frames
  <2> QED  BY <1>3, <2>1 DEF Turn, Frames
<1>5. stack[1].end \in Nat
  BY <1>1, StackTop DEF Frames
<1>6. Active.base \in Active.base .. ChunkEnd - 1 /\ Active.base \in Left(stack)
  BY <1>1, <1>4, <1>5 DEF Left
<1>7. v \in 0 .. Space - 1 /\ Reach(mem, l, v, t) /\ Index(l, v) = Slot
  BY <1>3, <1>6 DEF Turn
<1>8. TranslateIn(mem, v) = Unmapped
  BY <1>6, TranslateIsIn DEF IInv, LeftUnmapped
<1>9. /\ Here \in Descriptors
      /\ Here.kind = "block" => l \in {1, 2}
  BY <1>2, <1>4, <1>7, TranslateAt
<1>10. Here.kind # "fault" => Here.kind = "next" /\ l # 3
  <2> SUFFICES ASSUME Here.kind # "fault", ~ (Here.kind = "next" /\ l # 3) PROVE FALSE
    OBVIOUS
  <2>1. Ends(mem, l, v, t)
    BY <1>4, <1>7 DEF Ends
  <2> QED  BY <1>2, <1>4, <1>7, <1>8, <2>1, MappedAt
<1>11. ASSUME Here.kind = "next", l # 3,
              NEW u \in Active.base .. ChunkEnd - 1
       PROVE  Reach(mem, l + 1, u % Space, Here.addr)
  <2>1. Reach(mem, l, u % Space, t) /\ Index(l, u % Space) = Slot
    BY <1>3 DEF Turn
  <2>2. l \in {0, 1, 2}
    BY <1>4, <1>11 DEF Levels
  <2> QED  BY <1>4, <1>11, <2>1, <2>2, ReachNext
<1>12. Here.addr \in 0 .. Half - 1
  BY <1>9 DEF Descriptors
<1>13. l # 3 => l < 3
  BY <1>4 DEF Levels
<1> QED
  BY <1>10, <1>11, <1>12, <1>13

\* The physical page behind a virtual page of the chunk of a leaf.
LEMMA LeafIs ==
  ASSUME Turn, Whole, cur.mode \in Modes, NEW d,
         d.addr = PhysOf(cur.mode, Active.base) % Half,
         NEW u \in Active.base .. ChunkEnd - 1
  PROVE  Leaf(d, Active.level, u % Space) = [addr |-> (u % Space) % Half, attr |-> d.attr]
<1> DEFINE l == Active.level
           b == Active.base
           k == u - b
           a == PhysOf(cur.mode, b) % Half
           v == u % Space
<1>1. l \in Levels /\ b \in Nat /\ Cover[l] \in Nat \ {0} /\ ChunkEnd = b + Cover[l]
  BY Covers DEF Turn, Frames, Whole
<1>2. k \in 0 .. Cover[l] - 1 /\ b + k = u
  BY <1>1
<1> HIDE DEF k
<1>3. (a - (a % Cover[l])) + (((b + k) % Space) % Cover[l]) = ((b + k) % Space) % Half
  BY <1>1, <1>2, PhysChunk DEF Whole
<1>4. (a - (a % Cover[l])) + (v % Cover[l]) = v % Half
  BY <1>2, <1>3
<1> QED
  BY <1>4 DEF Leaf

-----------------------------------------------------------------------------
\* Each action keeps the invariant, and what is mapped.

\* An address is never the mark of an address that does not matter.
LEMMA HalfOf ==
  ASSUME NEW v \in 0 .. Space - 1
  PROVE  v % Half \in 0 .. Half - 1 /\ v % Half # Anywhere
<1>1. v \in Nat /\ Half \in Nat \ {0}
  BY Covers, Halves
<1>2. v % Half \in 0 .. Half - 1
  BY <1>1, DivLaw
<1> QED
  BY <1>1, <1>2 DEF Anywhere

\* The pages the allocator still has.
LEMMA FreeIs ==
  ASSUME IInv
  PROVE  /\ free \in SUBSET Nat /\ free \subseteq Ram /\ Ram \subseteq 0 .. Half - 1
         /\ free \subseteq 0 .. Half - 1
         /\ DOMAIN mem \subseteq {RootTable} \cup (Ram \ free)
<1>1. free \subseteq Ram /\ DOMAIN mem \subseteq {RootTable} \cup (Ram \ free)
  BY DEF IInv, Shape
<1>2. Ram \subseteq 0 .. Half - 1
  BY PageTablesAssumption
<1>3. 0 .. Half - 1 \subseteq Nat
  BY Halves
<1> QED
  BY <1>1, <1>2, <1>3

\* The level-0 table is not the next page the allocator would hand out.
RootSpared == free # {} => Min(free) # RootTable

LEMMA PhysOfType ==
  ASSUME NEW v \in Nat, NEW mode
  PROVE  PhysOf(mode, v) \in Nat
<1>1. v % Half \in 0 .. Half - 1 /\ Half \in Nat
  BY Halves, DivLaw
<1>2. v % Space \in 0 .. Space - 1 /\ Space \in Nat
  BY Covers, DivLaw
<1> QED
  BY <1>1, <1>2 DEF PhysOf

\* A leaf for the whole chunk, whether a block or a page.
LEMMA LeafKeeps ==
  ASSUME cur.mode = "New" => RootSpared, IInv, InLoop, Whole, Here.kind = "fault",
         NEW d \in Descriptors, d.attr = cur.attr,
         \/ d.kind = "block" /\ Active.level \in {1, 2}
         \/ d.kind = "next" /\ Active.level = 3,
         \/ /\ cur.mode # "New" /\ free' = free
            /\ d.addr = PhysOf(cur.mode, Active.base) % Half
         \/ /\ cur.mode = "New" /\ Active.level = 3 /\ free # {}
            /\ d.addr = Min(free) /\ free' = free \ {Min(free)},
         WriteEntry(d), stack' = Advance, UNCHANGED <<cur, want, count, panicked>>
  PROVE  IInv' /\ MappingsKept
<1> DEFINE l == Active.level
           t == Active.table
           chunk == Active.base .. ChunkEnd - 1
           rest == ChunkEnd .. stack[1].end - 1
<1>1. StackOk(mem, stack) /\ stack # <<>> /\ \E lev, zone : Tree(mem, lev, zone)
  BY DEF IInv, InLoop
<1>2. PICK lev, zone : Tree(mem, lev, zone)
  BY <1>1
<1>3. Turn
  BY <1>1, <1>2, TurnIs
<1>4. Callable(cur) /\ d.attr # NoAttr /\ cur.mode \in Modes
  BY <1>1, PageTablesAssumption DEF IInv, Shape, Callable
<1>5. Writes(mem, mem', t, Slot, d, {})
  <2>1. t \in DOMAIN mem /\ Slot \in 0 .. R - 1 /\ mem[t][Slot].kind = "fault"
    BY <1>3 DEF Turn
  <2>2. mem' = [p \in DOMAIN mem |-> IF p = t THEN [mem[t] EXCEPT ![Slot] = d] ELSE mem[p]]
    BY <2>1 DEF WriteEntry, Row, Slot
  <2> QED  BY <2>1, <2>2 DEF Writes
<1>6. Tree(mem', lev, zone) /\ KeepsReach(mem, mem') /\ Effect(mem', d)
  BY <1>1, <1>2, <1>4, <1>5, LeafEffect
<1>7. /\ StackOk(mem', stack')
      /\ Left(stack) = Active.base .. stack[1].end - 1
      /\ Left(stack') = rest
  BY <1>1, <1>3, <1>6, AdvanceOk
<1>8. /\ Active.base \in Nat /\ ChunkEnd \in Nat /\ stack[1].end \in Nat
      /\ Active.base < ChunkEnd /\ ChunkEnd <= stack[1].end /\ l \in Levels
  <2>1. stack[1].end \in Nat /\ Active.end \in Nat
    BY <1>1, <1>3, StackTop DEF Turn, Frames
  <2> QED  BY <1>3, <2>1 DEF Turn, Frames
<1>9. chunk \subseteq Left(stack) /\ rest \subseteq Left(stack) /\ Left(stack) = chunk \cup rest
  BY <1>7, <1>8
<1>10. \A u \in chunk : u % Space \in 0 .. Space - 1
  BY <1>3 DEF Turn
<1> HIDE DEF chunk, rest
\* What the pages of the chunk now map to.
<1>11. ASSUME NEW u \in chunk
       PROVE  /\ Translate(u % Space)' = Leaf(d, l, u % Space)
              /\ Translate(u % Space)' # Unmapped
              /\ want[u % Space] = Wanted(cur, u % Space)
              /\ want[u % Space] # Unmapped
              /\ (Matches(Translate(u % Space), want[u % Space]))'
              /\ cur.mode = "New" => Translate(u % Space)'.addr = Min(free) /\ u = Active.base
  <2> DEFINE v == u % Space
  <2>1. Translate(v)' = Leaf(d, l, v)
    BY <1>6, TranslateIsIn DEF Effect, chunk
  <2>2. want[v] = Wanted(cur, v) /\ v \in 0 .. Space - 1
    BY <1>9, <1>10 DEF IInv, LeftUnmapped
  <2>3. Leaf(d, l, v).attr = cur.attr /\ Wanted(cur,
     v).attr = cur.attr /\ Unmapped.attr = NoAttr
    BY DEF Leaf, Wanted, Unmapped
  <2>4. Translate(v)' # Unmapped /\ want[v] # Unmapped
    BY <1>4, <2>1, <2>2, <2>3
  <2>5. CASE cur.mode # "New"
    <3>1. Leaf(d, l, v).addr = v % Half
      <4>1. d.addr = PhysOf(cur.mode, Active.base) % Half
        BY <2>5
      <4>2. u \in Active.base .. ChunkEnd - 1
        BY DEF chunk
      <4>3. Leaf(d, l, v) = [addr |-> v % Half, attr |-> d.attr]
        BY <1>3, <1>4, <4>1, <4>2, LeafIs
      <4> QED  BY <4>3
    <3>2. Wanted(cur, v).addr = v % Half /\ v % Half # Anywhere
      <4>1. v % Half # Anywhere
        BY <2>2, HalfOf
      <4> QED  BY <2>5, <4>1 DEF Wanted
    <3> QED  BY <2>1, <2>2, <2>3, <2>4, <2>5, <3>1, <3>2 DEF Matches
  <2>6. CASE cur.mode = "New"
    <3>1. free \in SUBSET Nat /\ free \subseteq Ram /\ free # {}
      BY <2>6, FreeIs
    <3>2. Min(free) \in free
      BY <3>1, LeastElement
    <3>3. Leaf(d, l, v).addr = Min(free) /\ ChunkEnd = Active.base + 1
      <4>1. l = 3 /\ d.addr = Min(free) /\ Cover[3] = 1 /\ Min(free) \in Nat /\ v \in Nat
        <5>1. Min(free) \in Nat
          BY <3>1, <3>2
        <5>2. v \in Nat /\ Cover[3] = 1
          BY <2>2, Covers
        <5> QED  BY <2>6, <5>1, <5>2
      <4> QED  BY <4>1 DEF Leaf, Whole
    <3>4. Min(free) \in Ram \ free'
      BY <2>6, <3>1, <3>2
    <3>5. u = Active.base
      BY <1>8, <3>3 DEF chunk
    <3>6. Wanted(cur, v).addr = Anywhere
      BY <2>6 DEF Wanted
    <3> QED  BY <2>1, <2>2, <2>3, <2>4, <2>6, <3>3, <3>4, <3>5, <3>6 DEF Matches
  <2> QED  BY <2>5, <2>6
\* All others map to what they mapped to.
<1>12. ASSUME NEW v \in 0 .. Space - 1
       PROVE  \/ Translate(v)' = Translate(v)
              \/ Translate(v) = Unmapped /\ \E u \in chunk : v = u % Space
  BY <1>6, TranslateIsIn DEF Effect, chunk
<1>13. free' \subseteq free
  OBVIOUS
<1>14. Shape'
  <2>1. DOMAIN mem' = DOMAIN mem
    BY <1>6 DEF Effect
  <2> QED  BY <1>4, <1>13, <2>1 DEF IInv, Shape
<1>15. MapsAsWanted'
  <2> SUFFICES ASSUME NEW v \in 0 .. Space - 1, Translate(v)' # Unmapped
               PROVE  want[v] # Unmapped /\ (Matches(Translate(v), want[v]))'
    BY DEF MapsAsWanted
  <2>1. CASE Translate(v)' = Translate(v)
    <3>1. want[v] # Unmapped /\ Matches(Translate(v), want[v])
      BY <2>1 DEF IInv, MapsAsWanted
    <3> QED  BY <1>13, <2>1, <3>1 DEF Matches
  <2>2. CASE \E u \in chunk : v = u % Space
    BY <1>11, <2>2
  <2> QED  BY <1>12, <2>1, <2>2
<1>16. LeftUnmapped'
  <2> SUFFICES ASSUME NEW w \in rest
               PROVE  Translate(w % Space)' = Unmapped /\ want[w % Space] = Wanted(cur, w % Space)
    BY <1>7 DEF LeftUnmapped, Wanted
  <2>1. Translate(w % Space) = Unmapped /\ want[w % Space] = Wanted(cur, w % Space)
    BY <1>9 DEF IInv, LeftUnmapped
  <2>2. w % Space \in 0 .. Space - 1
    <3>1. w \in Nat
      BY <1>8 DEF rest
    <3> QED  BY <3>1, Covers, DivLaw
  <2>3. ~ \E u \in chunk : w % Space = u % Space
    BY <1>1, <1>3, LeftApart DEF chunk, rest
  <2> QED  BY <1>12, <2>1, <2>2, <2>3
<1>17. MissingIsLeft'
  <2> SUFFICES ASSUME NEW v \in 0 .. Space - 1, want[v] # Unmapped, Translate(v)' = Unmapped
               PROVE  \E u \in rest : v = u % Space
    BY <1>7 DEF MissingIsLeft
  <2>1. Translate(v) = Unmapped
    BY <1>12
  <2>2. PICK u \in Left(stack) : v = u % Space
    BY <2>1 DEF IInv, MissingIsLeft
  <2>3. u \notin chunk
    BY <1>11, <2>2
  <2> QED  BY <1>9, <2>2, <2>3
<1>18. OneParent'
  <2>1. /\ DOMAIN mem' = DOMAIN mem
        /\ \A p \in DOMAIN mem : \A j \in 0 .. R - 1 :
             \/ mem'[p][j] = mem[p][j]
             \/ mem[p][j].kind = "fault" /\ mem'[p][j].attr # NoAttr
    BY <1>6 DEF Effect
  <2>2. ASSUME NEW k \in TableLinks'
        PROVE  k \in TableLinks /\ mem'[k[1]][k[2]] = mem[k[1]][k[2]]
    <3>1. /\ k \in (DOMAIN mem) \X (0 .. R - 1)
          /\ mem'[k[1]][k[2]].kind = "next" /\ mem'[k[1]][k[2]].attr = NoAttr
      BY <2>1 DEF TableLinks
    <3>2. mem'[k[1]][k[2]] = mem[k[1]][k[2]]
      BY <2>1, <3>1
    <3> QED  BY <3>1, <3>2 DEF TableLinks
  <2>3. \A k, m \in TableLinks : mem[k[1]][k[2]].addr = mem[m[1]][m[2]].addr => k = m
    BY DEF IInv, OneParent
  <2> QED  BY <2>2, <2>3 DEF OneParent
<1>19. NewApart'
  <2>1. DOMAIN mem' = DOMAIN mem /\ DOMAIN mem \subseteq {RootTable} \cup (Ram \ free)
    BY <1>6 DEF Effect, IInv, Shape
  <2>2. ASSUME NEW v \in NewPages'
        PROVE  /\ v \in 0 .. Space - 1
               /\ \/ Translate(v)' = Translate(v) /\ v \in NewPages /\ Translate(v).addr \notin free
                  \/ /\ cur.mode = "New" /\ free # {} /\ v = Active.base % Space
                     /\ Translate(v)'.addr = Min(free)
    <3>1. v \in 0 .. Space - 1 /\ want[v].addr = Anywhere /\ Translate(v)' # Unmapped
      BY DEF NewPages
    <3>2. CASE Translate(v)' = Translate(v)
      <4>1. v \in NewPages
        BY <3>1, <3>2 DEF NewPages
      <4>2. Matches(Translate(v), want[v])
        BY <3>1, <3>2 DEF IInv, MapsAsWanted
      <4> QED  BY <3>1, <3>2, <4>1, <4>2 DEF Matches
    <3>3. CASE \E u \in chunk : v = u % Space
      <4>1. PICK u \in chunk : v = u % Space
        BY <3>3
      <4>2. Wanted(cur, v).addr = Anywhere
        BY <1>11, <3>1, <4>1
      <4>3. cur.mode = "New"
        <5>1. v % Half # Anywhere
          BY <3>1, HalfOf
        <5> QED  BY <4>2, <5>1 DEF Wanted
      <4> QED  BY <1>11, <3>1, <4>1, <4>3
    <3> QED  BY <1>12, <3>1, <3>2, <3>3
  <2>3. cur.mode = "New" /\ free # {} => Min(free) \in free /\ Min(free) \notin DOMAIN mem
    <3>1. free \in SUBSET Nat
      BY FreeIs
    <3>2. free # {} => Min(free) \in free
      BY <3>1, LeastElement
    <3> QED  BY <2>1, <3>1, <3>2 DEF RootSpared
  <2>4. ASSUME NEW v \in NewPages'
        PROVE  Translate(v)'.addr \notin DOMAIN mem'
    <3>1. v \in NewPages => Translate(v).addr \notin DOMAIN mem
      BY DEF IInv, NewApart
    <3> QED  BY <2>1, <2>2, <2>3, <3>1
  <2>5. ASSUME NEW u \in NewPages', NEW v \in NewPages',
               Translate(u)'.addr = Translate(v)'.addr
        PROVE  u = v
    <3>1. u \in NewPages /\ v \in NewPages /\ Translate(u).addr = Translate(v).addr => u = v
      BY DEF IInv, NewApart
    <3> QED  BY <2>2, <2>3, <2>5, <3>1
  <2> QED  BY <2>4, <2>5 DEF NewApart
<1>20. IInv'
  BY <1>6, <1>7, <1>14, <1>15, <1>16, <1>17, <1>18, <1>19 DEF IInv
<1> QED
  BY <1>12, <1>20 DEF MappingsKept

\* The leaves of the two actions that write one.
LEMMA MapBlockKeeps ==
  ASSUME IInv, MapBlock
  PROVE  IInv' /\ MappingsKept
<1> DEFINE d == make_block(PhysOf(cur.mode, Active.base), cur.attr)
<1>1. StackOk(mem, stack) /\ stack # <<>> /\ \E lev, zone : Tree(mem, lev, zone)
  BY DEF IInv, InLoop, MapBlock
<1>2. Turn
  BY <1>1, TurnIs DEF MapBlock
<1>3. /\ Active.level \in {1, 2} /\ cur.mode # "New" /\ Here.kind = "fault"
      /\ Active.base % Cover[Active.level] = 0
      /\ ChunkEnd - Active.base = Cover[Active.level]
  BY DEF MapBlock, BlockFits, IsValid
<1>4. Active.base \in Nat /\ ChunkEnd \in Nat /\ Active.level \in Levels
  BY <1>2 DEF Turn, Frames
<1>5. Whole
  <2>1. Cover[Active.level] \in Nat
    BY <1>4, Covers
  <2> QED  BY <1>3, <1>4, <2>1 DEF Whole
<1>6. Callable(cur) /\ cur.attr \in Attrs
  BY <1>1 DEF IInv, Shape, Attrs, Callable
<1>7. /\ d.kind = "block" /\ d.attr = cur.attr /\ d \in Descriptors
      /\ d.addr = PhysOf(cur.mode, Active.base) % Half
  <2>1. PhysOf(cur.mode, Active.base) \in Nat
    BY <1>4, PhysOfType
  <2>2. PhysOf(cur.mode, Active.base) % Half \in 0 .. Half - 1
    BY <2>1, Halves, DivLaw
  <2> QED  BY <1>6, <2>2 DEF make_block, Descriptors
<1>8. /\ WriteEntry(d) /\ stack' = Advance /\ free' = free
      /\ UNCHANGED <<cur, want, count, panicked>> /\ InLoop
  BY DEF MapBlock
<1> HIDE DEF d
<1> QED
  BY <1>3, <1>5, <1>7, <1>8, LeafKeeps

LEMMA MapPageKeeps ==
  ASSUME cur.mode = "New" => RootSpared, IInv, MapPage
  PROVE  IInv' /\ MappingsKept
<1>1. StackOk(mem, stack) /\ stack # <<>> /\ \E lev, zone : Tree(mem, lev, zone)
  BY DEF IInv, InLoop, MapPage
<1>2. Turn
  BY <1>1, TurnIs DEF MapPage
<1>3. Active.level = 3 /\ Active.base \in Nat /\ ChunkEnd \in Nat
  BY <1>2 DEF Turn, Frames, MapPage
<1>4. Whole
  <2>1. Cover[3] = 1
    BY Covers
  <2>2. Active.base < ChunkEnd /\ ChunkEnd <= Active.base + Cover[Active.level]
    BY <1>2 DEF Turn
  <2> QED  BY <1>3, <2>1, <2>2 DEF Whole
<1>5. Here.kind = "fault"
  BY <1>3, HereIs DEF MapPage
<1>6. Callable(cur) /\ cur.attr \in Attrs
  BY <1>1 DEF IInv, Shape, Attrs, Callable
<1>7. ASSUME NEW a \in Nat
      PROVE  LET d == make_page(a, cur.attr)
             IN /\ d.kind = "next" /\ d.attr = cur.attr /\ d \in Descriptors
                /\ d.addr = a % Half
  <2>1. a % Half \in 0 .. Half - 1
    BY Halves, DivLaw
  <2> QED  BY <1>6, <2>1 DEF make_page, Descriptors
<1>8. /\ stack' = Advance /\ UNCHANGED <<cur, want, count, panicked>> /\ InLoop
  BY DEF MapPage
<1>9. CASE cur.mode # "New"
  <2> DEFINE d == make_page(PhysOf(cur.mode, Active.base), cur.attr)
  <2>1. PhysOf(cur.mode, Active.base) \in Nat
    BY <1>3, PhysOfType
  <2>2. /\ d.kind = "next" /\ d.attr = cur.attr /\ d \in Descriptors
        /\ d.addr = PhysOf(cur.mode, Active.base) % Half
    BY <1>7, <2>1
  <2>3. WriteEntry(d) /\ free' = free
    BY <1>9 DEF MapPage
  <2> HIDE DEF d
  <2> QED  BY <1>3, <1>4, <1>5, <1>8, <1>9, <2>2, <2>3, LeafKeeps
<1>10. CASE cur.mode = "New"
  <2> DEFINE d == make_page(Min(free), cur.attr)
  <2>1. WriteEntry(d) /\ free # {} /\ free' = free \ {Min(free)}
    BY <1>10 DEF MapPage, Taken
  <2>2. Min(free) \in 0 .. Half - 1
    <3>1. free \in SUBSET Nat /\ free \subseteq 0 .. Half - 1
      BY FreeIs
    <3> QED  BY <2>1, <3>1, LeastElement
  <2>3. Min(free) \in Nat /\ Min(free) % Half = Min(free)
    BY <2>2, Halves
  <2>4. /\ d.kind = "next" /\ d.attr = cur.attr /\ d \in Descriptors
        /\ d.addr = Min(free)
    BY <1>7, <2>3
  <2> HIDE DEF d
  <2> QED  BY <1>3, <1>4, <1>5, <1>8, <1>10, <2>1, <2>4, LeafKeeps
<1> QED
  BY <1>9, <1>10

\* A turn that only changes the stack.
LEMMA StackKeeps ==
  ASSUME IInv, StackOk(mem, stack'), Left(stack') = Left(stack),
         stack' # <<>> => stack # <<>>,
         panicked' \in BOOLEAN, UNCHANGED <<mem, free, cur, want, count>>
  PROVE  IInv' /\ MappingsKept
<1>1. \A v : Translate(v)' = Translate(v)
  BY TranslateIsIn
<1>2. Shape'
  BY DEF IInv, Shape
<1>3. MapsAsWanted'
  BY <1>1 DEF IInv, MapsAsWanted, Matches
<1>4. LeftUnmapped'
  BY <1>1 DEF IInv, LeftUnmapped, Wanted
<1>5. MissingIsLeft'
  BY <1>1 DEF IInv, MissingIsLeft
<1>6. OneParent'
  BY DEF IInv, OneParent, TableLinks
<1>7. NewApart'
  BY <1>1 DEF IInv, NewApart, NewPages
<1>8. StackOk(mem', stack')
  OBVIOUS
<1>9. \E lev, zone : Tree(mem', lev, zone)
  BY DEF IInv
<1>10. IInv'
  BY <1>2, <1>3, <1>4, <1>5, <1>6, <1>7, <1>8, <1>9 DEF IInv
<1> QED
  BY <1>1, <1>10 DEF MappingsKept

LEMMA FollowKeeps ==
  ASSUME IInv, FollowEntry
  PROVE  IInv' /\ MappingsKept
<1>1. StackOk(mem, stack) /\ stack # <<>> /\ \E lev, zone : Tree(mem, lev, zone)
  BY DEF IInv, InLoop, FollowEntry
<1>2. Turn
  BY <1>1, TurnIs DEF FollowEntry
<1>3. /\ Active.level < 3 /\ Here.addr \in 0 .. Half - 1
      /\ \A u \in Active.base .. ChunkEnd - 1 :
           Reach(mem, Active.level + 1, u % Space, Here.addr)
  BY HereIs DEF FollowEntry, IsValid
<1>4. KeepsReach(mem, mem)
  BY DEF KeepsReach
<1>5. StackOk(mem, stack') /\ Left(stack') = Left(stack)
  BY <1>1, <1>2, <1>3, <1>4, DescendOk DEF FollowEntry
<1>6. panicked \in BOOLEAN
  BY DEF IInv, Shape
<1> QED
  BY <1>1, <1>5, <1>6, StackKeeps DEF FollowEntry

LEMMA ReturnKeeps ==
  ASSUME IInv, Return
  PROVE  IInv' /\ MappingsKept
<1>1. StackOk(mem, stack) /\ stack # <<>> /\ stack[Len(stack)].base >= stack[Len(stack)].end
  BY DEF IInv, Return, Active, Last
<1>2. StackOk(mem, stack') /\ Left(stack') = Left(stack)
  BY <1>1, PopOk DEF Return, Callers
<1>3. panicked \in BOOLEAN
  BY DEF IInv, Shape
<1> QED
  BY <1>1, <1>2, <1>3, StackKeeps DEF Return

LEMMA PanicKeeps ==
  ASSUME IInv, Panic
  PROVE  IInv' /\ MappingsKept
<1>1. StackOk(mem, stack') /\ Left(stack') = Left(stack)
  BY DEF IInv, Panic
<1> QED
  BY <1>1, StackKeeps DEF Panic

\* RAM that nobody has written is as clear as memset promises.
CleanRam == StaleRow = CleanRow

\* A new table: it is an unused page, so nothing else leads to it.
LEMMA NewTableKeeps ==
  ASSUME CleanRam, RootSpared, IInv, NewTable
  PROVE  IInv' /\ MappingsKept
<1> DEFINE t == Active.table
           c == Min(free)
<1>1. StackOk(mem, stack) /\ stack # <<>> /\ \E lev, zone : Tree(mem, lev, zone)
  BY DEF IInv, InLoop, NewTable
<1>2. PICK lev, zone : Tree(mem, lev, zone)
  BY <1>1
<1>3. Turn
  BY <1>1, <1>2, TurnIs DEF NewTable
<1>4. /\ InLoop /\ Active.level < 3 /\ Here.kind = "fault" /\ free # {}
      /\ free' = free \ {c} /\ stack' = Descend(c)
      /\ UNCHANGED <<cur, want, count, panicked>>
  BY DEF NewTable, IsValid, Taken
<1>5. /\ free \in SUBSET Nat /\ free \subseteq Ram /\ Ram \subseteq 0 .. Half - 1
      /\ DOMAIN mem \subseteq {RootTable} \cup (Ram \ free)
  BY FreeIs
<1>6. c \in free
  BY <1>4, <1>5, LeastElement
<1>7. c \in Ram /\ c \in 0 .. Half - 1 /\ c \notin DOMAIN mem
  BY <1>4, <1>5, <1>6 DEF RootSpared
<1>8. Memset(Row(c)) = {CleanRow}
  <2>1. 0 \in 0 .. R - 1
    BY PageTablesAssumption
  <2>2. [CleanRow EXCEPT ![0] = Invalid] = CleanRow
    BY <2>1 DEF CleanRow
  <2>3. Row(c) = CleanRow
    BY <1>7 DEF Row, CleanRam
  <2> QED  BY <2>2, <2>3 DEF Memset
<1>9. Writes(mem, mem', t, Slot, make_table(c), {c})
  <2>1. t \in DOMAIN mem /\ Slot \in 0 .. R - 1 /\ mem[t][Slot].kind = "fault" /\ t # c
    BY <1>3, <1>4, <1>7 DEF Turn
  <2>2. mem' = [p \in DOMAIN mem \cup {t, c} |->
                  IF p = t THEN [Row(p) EXCEPT ![Slot] = make_table(c)]
                  ELSE IF p = c THEN CleanRow ELSE mem[p]]
    BY <1>8 DEF NewTable, Slot
  <2>3. DOMAIN mem \cup {t, c} = DOMAIN mem \cup {c} /\ Row(t) = mem[t]
    BY <2>1 DEF Row
  <2>4. mem' = [p \in DOMAIN mem \cup {c} |->
                  IF p = t THEN [mem[t] EXCEPT ![Slot] = make_table(c)]
                  ELSE IF p \in {c} THEN CleanRow ELSE mem[p]]
    BY <2>2, <2>3
  <2> QED  BY <1>7, <2>1, <2>4 DEF Writes
<1>10. /\ \E lev2, zone2 : Tree(mem', lev2, zone2)
       /\ KeepsReach(mem, mem') /\ TableEffect(mem', c)
  BY <1>1, <1>2, <1>4, <1>7, <1>9, TableIsEmpty
<1>11. StackOk(mem', stack') /\ Left(stack') = Left(stack)
  BY <1>1, <1>3, <1>4, <1>7, <1>10, DescendOk DEF TableEffect
<1> HIDE DEF c
<1>12. \A v \in 0 .. Space - 1 : Translate(v)' = Translate(v)
  BY <1>10, TranslateIsIn DEF TableEffect
<1>13. free' \subseteq free /\ c \notin free'
  BY <1>4
<1>14. DOMAIN mem' = DOMAIN mem \cup {c}
  BY <1>10 DEF TableEffect
<1>15. Shape'
  BY <1>1, <1>4, <1>5, <1>7, <1>13, <1>14 DEF IInv, Shape
<1>16. MapsAsWanted'
  BY <1>4, <1>12, <1>13 DEF IInv, MapsAsWanted, Matches
<1>17. LeftUnmapped'
  <2> SUFFICES ASSUME NEW u \in Left(stack)
               PROVE  Translate(u % Space)' = Unmapped /\ want[u % Space] = Wanted(cur, u % Space)
    BY <1>4, <1>11 DEF LeftUnmapped, Wanted
  <2>1. u % Space \in 0 .. Space - 1
    <3>1. u \in Nat
      <4>1. Active.base \in Nat /\ Active = stack[Len(stack)] /\ stack[1].end \in Nat
        BY <1>1, <1>3, StackTop DEF Turn, Frames
      <4> QED  BY <1>1, <4>1 DEF Left
    <3> QED  BY <3>1, Covers, DivLaw
  <2> QED  BY <1>12, <2>1 DEF IInv, LeftUnmapped
<1>18. MissingIsLeft'
  BY <1>4, <1>11, <1>12 DEF IInv, MissingIsLeft
<1>19. OneParent'
  <2>1. ASSUME NEW k \in TableLinks'
        PROVE  \/ /\ k \in TableLinks /\ mem'[k[1]][k[2]] = mem[k[1]][k[2]]
                  /\ mem[k[1]][k[2]].addr \in DOMAIN mem
               \/ k = <<t, Slot>> /\ mem'[k[1]][k[2]].addr = c
    <3>1. /\ k \in (DOMAIN mem \cup {c}) \X (0 .. R - 1)
          /\ mem'[k[1]][k[2]].kind = "next" /\ mem'[k[1]][k[2]].attr = NoAttr
      BY <1>14 DEF TableLinks
    <3>2. k[1] \in DOMAIN mem /\ k[2] \in 0 .. R - 1
      BY <1>10, <3>1 DEF TableEffect
    <3>3. CASE mem'[k[1]][k[2]] = mem[k[1]][k[2]]
      <4>1. EntryOk(mem, lev, zone, k[1], k[2])
        BY <1>2, <3>2 DEF Tree
      <4>2. mem[k[1]][k[2]].addr \in DOMAIN mem
        BY <3>1, <3>3, <4>1 DEF EntryOk
      <4> QED  BY <3>1, <3>2, <3>3, <4>2 DEF TableLinks
    <3>4. CASE k[1] = t /\ k[2] = Slot /\ mem'[k[1]][k[2]].addr = c
      BY <3>1, <3>4
    <3> QED  BY <1>10, <3>2, <3>3, <3>4 DEF TableEffect
  <2>2. \A k, m \in TableLinks : mem[k[1]][k[2]].addr = mem[m[1]][m[2]].addr => k = m
    BY DEF IInv, OneParent
  <2>3. ASSUME NEW k \in TableLinks', NEW m \in TableLinks',
               mem'[k[1]][k[2]].addr = mem'[m[1]][m[2]].addr
        PROVE  k = m
    BY <1>7, <2>1, <2>2, <2>3
  <2> QED  BY <2>3 DEF OneParent
<1>20. NewApart'
  <2>1. \A v \in NewPages' : v \in NewPages /\ Translate(v)' = Translate(v)
    BY <1>4, <1>12 DEF NewPages
  <2>2. \A v \in NewPages : Translate(v).addr \notin free
    BY DEF NewPages, IInv, MapsAsWanted, Matches
  <2>3. \A v \in NewPages' : Translate(v)'.addr \notin DOMAIN mem'
    BY <1>6, <1>14, <2>1, <2>2 DEF IInv, NewApart
  <2>4. \A u, v \in NewPages' : Translate(u)'.addr = Translate(v)'.addr => u = v
    BY <2>1 DEF IInv, NewApart
  <2> QED  BY <2>3, <2>4 DEF NewApart
<1>21. IInv'
  BY <1>10, <1>11, <1>15, <1>16, <1>17, <1>18, <1>19, <1>20 DEF IInv
<1> QED
  BY <1>12, <1>21 DEF MappingsKept

\* A new call: none of its pages is mapped yet.
LEMMA MapKeeps ==
  ASSUME IInv, NEW q, Callable(q), Map(q)
  PROVE  IInv' /\ MappingsKept
<1> DEFINE y == Frame(0, RootTable, FirstPage(q), EndPage(q) % Top)
<1>1. /\ stack = <<>> /\ count < MaxMaps /\ count' = count + 1 /\ cur' = q
      /\ free' \subseteq free /\ mem' = mem /\ panicked' = panicked
      /\ stack' = <<y>>
      /\ \A v \in PagesOf(q) : want[v % Space] = Unmapped
  BY DEF Map, Idle
<1>2. /\ FirstPage(q) \in Nat /\ EndPage(q) \in Nat
      /\ FirstPage(q) < EndPage(q) /\ EndPage(q) - FirstPage(q) <= Space
      /\ EndPage(q) <= Top - Cover[0] /\ EndPage(q) % Top = EndPage(q)
      /\ Touched(q) = PagesOf(q)
  BY CallPages
<1>3. /\ y \in Frames /\ y.level = 0 /\ y.table = RootTable
      /\ y.base = FirstPage(q) /\ y.end = EndPage(q)
  <2>1. RootTable \in 0 .. Half - 1
    BY PageTablesAssumption
  <2> QED  BY <1>2, <2>1 DEF Frame, Frames, Levels
<1> HIDE DEF y
<1>4. /\ stack' \in Seq(Frames) /\ Len(stack') = 1 /\ stack'[1] = y /\ stack' # <<>>
  BY <1>1, <1>3
<1>5. StackOk(mem', stack') /\ Left(stack') = PagesOf(q)
  <2>1. \A u \in y.base .. y.end - 1 : Reach(mem', 0, u % Space, y.table)
    BY <1>3 DEF Reach
  <2>2. y.base <= y.end /\ y.end <= Top - Cover[0] /\ y.end - y.base <= Space
    BY <1>2, <1>3
  <2>3. StackOk(mem', stack')
    BY <1>3, <1>4, <2>1, <2>2 DEF StackOk
  <2> QED  BY <1>3, <1>4, <2>3 DEF Left, PagesOf
<1>6. \A v : Translate(v)' = Translate(v)
  BY <1>1, TranslateIsIn
<1>7. /\ want \in [0 .. Space - 1 -> [addr : Int, attr : Attrs]]
      /\ want' = [v \in 0 .. Space - 1 |->
                    IF \E u \in PagesOf(q) : u % Space = v THEN Wanted(q, v) ELSE want[v]]
  BY <1>2 DEF Map, IInv, Shape
<1>8. ASSUME NEW v \in 0 .. Space - 1
      PROVE  Wanted(q, v) \in [addr : Int, attr : Attrs]
  <2>1. v % Half \in Int
    BY HalfOf
  <2> QED  BY <2>1 DEF Wanted, Anywhere, Attrs, Callable
<1>9. Shape'
  <2>1. want' \in [0 .. Space - 1 -> [addr : Int, attr : Attrs]]
    BY <1>7, <1>8
  <2>2. count' \in 0 .. MaxMaps
    BY <1>1, PageTablesAssumption DEF IInv, Shape
  <2>3. panicked' \in BOOLEAN
    BY <1>1 DEF IInv, Shape
  <2>4. free' \subseteq Ram /\ DOMAIN mem' \subseteq {RootTable} \cup (Ram \ free')
    BY <1>1 DEF IInv, Shape
  <2> QED  BY <1>1, <2>1, <2>2, <2>3, <2>4 DEF Shape
\* A page that is mapped is not one of this call.
<1>10. ASSUME NEW v \in 0 .. Space - 1, Translate(v) # Unmapped
       PROVE  want'[v] = want[v] /\ want[v] # Unmapped /\ Matches(Translate(v), want[v])
  <2>1. want[v] # Unmapped /\ Matches(Translate(v), want[v])
    BY <1>10 DEF IInv, MapsAsWanted
  <2> QED  BY <1>1, <1>7, <2>1
<1>11. MapsAsWanted'
  BY <1>1, <1>6, <1>10 DEF MapsAsWanted, Matches
<1>12. LeftUnmapped'
  <2> SUFFICES ASSUME NEW u \in PagesOf(q)
               PROVE  Translate(u % Space) = Unmapped /\ want'[u % Space] = Wanted(q, u % Space)
    BY <1>1, <1>5, <1>6 DEF LeftUnmapped, Wanted
  <2>1. u % Space \in 0 .. Space - 1
    <3>1. u \in Nat
      BY <1>2 DEF PagesOf
    <3> QED  BY <3>1, Covers, DivLaw
  <2> QED  BY <1>1, <1>7, <1>10, <2>1
<1>13. MissingIsLeft'
  <2> SUFFICES ASSUME NEW v \in 0 .. Space - 1, want'[v] # Unmapped, Translate(v) = Unmapped
               PROVE  \E u \in PagesOf(q) : v = u % Space
    BY <1>5, <1>6 DEF MissingIsLeft
  <2>1. want[v] = Unmapped
    BY <1>1 DEF IInv, MissingIsLeft, Left
  <2> QED  BY <1>7, <2>1
<1>14. OneParent'
  BY <1>1 DEF IInv, OneParent, TableLinks
<1>15. NewApart'
  <2>1. \A v \in NewPages' : v \in NewPages
    BY <1>6, <1>10 DEF NewPages
  <2> QED  BY <1>1, <1>6, <2>1 DEF IInv, NewApart
<1>16. \E lev, zone : Tree(mem', lev, zone)
  BY <1>1 DEF IInv
<1>17. IInv'
  BY <1>5, <1>9, <1>11, <1>12, <1>13, <1>14, <1>15, <1>16 DEF IInv
<1> QED
  BY <1>6, <1>17 DEF MappingsKept

\* The tables there are after a turn, which always has one of them to write.
LEMMA TablesAfter ==
  ASSUME IInv
  PROVE  /\ MapBlock \/ MapPage => DOMAIN mem' = DOMAIN mem
         /\ NewTable => /\ Min(free) \in free /\ free' = free \ {Min(free)}
                        /\ DOMAIN mem' = DOMAIN mem \cup {Min(free)}
<1>1. \E lev, zone : Tree(mem, lev, zone) /\ StackOk(mem, stack)
  BY DEF IInv
<1>2. InLoop => Active.table \in DOMAIN mem
  BY <1>1, TurnIs DEF Turn
<1>3. MapBlock \/ MapPage => DOMAIN mem' = DOMAIN mem
  BY <1>2 DEF MapBlock, MapPage, WriteEntry
<1>4. NewTable => DOMAIN mem' = DOMAIN mem \cup {Min(free)}
  BY <1>2 DEF NewTable
<1>5. NewTable => Min(free) \in free /\ free' = free \ {Min(free)}
  BY FreeIs, LeastElement DEF NewTable, Taken
<1> QED
  BY <1>3, <1>4, <1>5

LEMMA NextKeeps ==
  CleanRam /\ RootSpared /\ IInv /\ [Next]_vars => IInv' /\ MappingsKept
<1> SUFFICES ASSUME CleanRam, RootSpared, IInv, [Next]_vars PROVE IInv' /\ MappingsKept
  OBVIOUS
<1>1. CASE \E q \in Requests : Map(q)
  BY <1>1, MapKeeps, CallsAssumption
<1>2. CASE MapBlock
  BY <1>2, MapBlockKeeps
<1>3. CASE NewTable
  BY <1>3, NewTableKeeps
<1>4. CASE FollowEntry
  BY <1>4, FollowKeeps
<1>5. CASE MapPage
  BY <1>5, MapPageKeeps
<1>6. CASE Panic
  BY <1>6, PanicKeeps
<1>7. CASE Return
  BY <1>7, ReturnKeeps
<1>8. CASE UNCHANGED vars
  <2>1. StackOk(mem, stack') /\ Left(stack') = Left(stack) /\ panicked' \in BOOLEAN
    BY <1>8 DEF vars, IInv, Shape
  <2> QED  BY <1>8, <2>1, StackKeeps DEF vars
<1> QED
  BY <1>1, <1>2, <1>3, <1>4, <1>5, <1>6, <1>7, <1>8 DEF Next, Step, Rest

-----------------------------------------------------------------------------
\* What follows from the invariant.

LEMMA IInvTypes == IInv => TypeOK
<1> SUFFICES ASSUME IInv PROVE TypeOK
  OBVIOUS
<1>1. \A p \in DOMAIN mem : DOMAIN mem[p] = 0 .. R - 1
  BY DEF IInv, Tree, Rows
<1>2. StackOk(mem, stack) /\ Len(stack) \in Nat
  <2>1. stack \in Seq(Frames)
    BY DEF IInv, StackOk
  <2> QED  BY <2>1, LenProperties DEF IInv
<1>3. ASSUME stack # <<>> PROVE Len(stack) <= 4
  BY <1>2, <1>3, StackTop
<1>4. ASSUME NEW k \in 1 .. Len(stack)
      PROVE  stack[k].level = k - 1 /\ stack[k].base \in 0 .. Top - 1
  <2>1. stack # <<>>
    BY <1>2, EmptySeq
  <2>2. stack[k].base \in Nat /\ stack[k].end \in Nat
    BY <1>2, <2>1, StackTop DEF Frames
  <2>3. /\ stack[k].level = k - 1
        /\ stack[k].base <= stack[k].end /\ stack[k].end <= Top - Cover[0]
    BY <1>2 DEF StackOk
  <2>4. Top \in Nat /\ Cover[0] \in Nat \ {0}
    BY Halves, Covers DEF Levels
  <2> QED  BY <2>2, <2>3, <2>4
<1>5. Len(stack) <= 4
  BY <1>3, EmptySeq
<1> QED
  BY <1>1, <1>4, <1>5 DEF TypeOK, IInv, Shape

LEMMA IInvMapsAsked == IInv => NoStrayMapping
  BY DEF IInv, MapsAsWanted, NoStrayMapping

LEMMA IInvMapsAll == IInv => AllMappedWhenDone
  BY DEF IInv, MissingIsLeft, AllMappedWhenDone, Idle, Left

LEMMA IInvOneUse == IInv => PagesHaveOneUse
  BY IInvTypes DEF IInv, OneParent, NewApart, PagesHaveOneUse

-----------------------------------------------------------------------------
\* The level-0 table, which is part of the kernel's image, is not in the pages
\* the allocator has.
RootApart == RootTable \notin Ram

LEMMA ApartIsSpared == RootApart /\ IInv => RootSpared
<1> SUFFICES ASSUME RootApart, IInv, free # {} PROVE Min(free) \in free
  BY DEF IInv, Shape, RootApart, RootSpared
<1> QED
  BY FreeIs, LeastElement

\* IInv is an inductive invariant of the calls of map on clean RAM.
THEOREM PageTablesInductive ==
  ASSUME CleanRam, RootApart
  PROVE  Spec => []IInv
<1>1. IInv /\ [Next]_vars => IInv'
  BY NextKeeps, ApartIsSpared
<1> QED
  BY InitIInv, <1>1, PTL DEF Spec

\* A virtual page maps to nothing or to what was asked for it, at every moment
\* of every call, whatever the calls are and wherever memory runs out
\* (page.cpp:76-236).
THEOREM MapsWhatIsAsked ==
  ASSUME CleanRam, RootApart
  PROVE  Spec => []NoStrayMapping
<1> QED
  BY PageTablesInductive, IInvMapsAsked, PTL

\* When map has returned nothing that was asked for is left unmapped
\* (page.cpp:76-236).
THEOREM MapsAllThatIsAsked ==
  ASSUME CleanRam, RootApart
  PROVE  Spec => []AllMappedWhenDone
<1> QED
  BY PageTablesInductive, IInvMapsAll, PTL

\* No page is below two entries, or both a table and the target of a New
\* mapping (page.cpp:98-111, 230-231); TypeOK is part of it.
THEOREM TablesAreATree ==
  ASSUME CleanRam, RootApart
  PROVE  Spec => []PagesHaveOneUse
<1> QED
  BY PageTablesInductive, IInvOneUse, PTL

\* No step of any call changes the translation of a mapped page
\* (page.cpp:98-111, 126-159, 172-205).
THEOREM MappingsAreKept ==
  ASSUME CleanRam, RootApart
  PROVE  Spec => MappingsStay
<1>1. IInv /\ [Next]_vars =>
        [\A v \in 0 .. Space - 1 : Translate(v) # Unmapped => Translate(v)' = Translate(v)]_vars
  BY NextKeeps, ApartIsSpared DEF MappingsKept
<1> QED
  BY PageTablesInductive, <1>1, PTL DEF Spec, MappingsStay
=============================================================================
