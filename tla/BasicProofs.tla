---------------------------- MODULE BasicProofs -----------------------------
(***************************************************************************)
(* The facts the proofs about the components cite.  What byte order does   *)
(* to the arithmetic of the elements, for a byte of any size, so that none *)
(* of them has to look inside Htons.  And what is left of a list when      *)
(* items are erased from it: its type, its length, which items it holds    *)
(* and that no item is held twice for one.  Retain is recursive, so this   *)
(* takes induction, which is stated for sets of numbers: a set that holds  *)
(* 0 and, with each number, the next one holds all of them.                *)
(***************************************************************************)
EXTENDS Wire, Lists, WellFoundedInduction, TLAPS

(***************************************************************************)
(* A word holds at least two bytes' worth of values.                       *)
(***************************************************************************)
LEMMA WordSize == Word \in Nat /\ Word >= 2 * Byte /\ Byte > 0
<1>1. ASSUME NEW b \in Nat, b >= 2
      PROVE  b * b \in Nat /\ b * b >= 2 * b
  BY <1>1
<1> QED
  BY <1>1, ByteAssumption DEF Word

(***************************************************************************)
(* Dividing a number of fewer seconds than a byte holds by the byte.       *)
(***************************************************************************)
LEMMA OneByteDivision ==
    ASSUME NEW s \in 0 .. (Byte - 1)
    PROVE  s % Byte = s /\ s \div Byte = 0
BY ByteAssumption

(***************************************************************************)
(* Dividing a raw value whose low byte is zero by the byte.                *)
(***************************************************************************)
LEMMA HighByteDivision ==
    ASSUME NEW s \in 0 .. (Byte - 1)
    PROVE  (s * Byte) % Byte = 0 /\ (s * Byte) \div Byte = s
BY ByteAssumption

(***************************************************************************)
(* htons of fewer seconds than a byte holds puts them in the high byte.    *)
(***************************************************************************)
LEMMA HtonsOfByte ==
    ASSUME NEW s \in 0 .. (Byte - 1)
    PROVE  Htons(s) = s * Byte
BY OneByteDivision, ByteAssumption DEF Htons

(***************************************************************************)
(* ntohs undoes htons on fewer seconds than a byte holds.                  *)
(***************************************************************************)
LEMMA NtohsOfHtons ==
    ASSUME NEW s \in 0 .. (Byte - 1)
    PROVE  Ntohs(Htons(s)) = s
<1>1. Htons(s) = s * Byte
  BY HtonsOfByte, Zenon
<1>2. Htons(s * Byte) = 0 * Byte + s
  BY HighByteDivision, Zenon DEF Htons
<1> QED
  BY <1>1, <1>2, ByteAssumption DEF Ntohs

(***************************************************************************)
(* htons of fewer seconds than a byte holds is a uint16_t, and it is zero  *)
(* for zero seconds only.                                                  *)
(***************************************************************************)
LEMMA HtonsRange ==
    ASSUME NEW s \in 0 .. (Byte - 1)
    PROVE  /\ Htons(s) \in Uint16
           /\ Htons(s) = 0 <=> s = 0
<1>1. Htons(s) = s * Byte
  BY HtonsOfByte
<1>2. ASSUME NEW b \in Nat, b >= 2, NEW t \in 0 .. (b - 1)
      PROVE  /\ t * b \in 0 .. (b * b - 1)
             /\ t * b = 0 <=> t = 0
  <2>1. t * b <= (b - 1) * b
    BY <1>2
  <2>2. (b - 1) * b = b * b - b
    BY <1>2
  <2>3. t * b \in Nat /\ (t > 0 => t * b > 0)
    BY <1>2
  <2> QED
    BY <1>2, <2>1, <2>2, <2>3
<1> QED
  BY <1>1, <1>2, ByteAssumption, Zenon DEF Uint16, Word

(***************************************************************************)
(* Subtracting htons(1) from htons(s) gives htons(s - 1): counting seconds *)
(* in network byte order is right as long as they fit in one byte.         *)
(***************************************************************************)
LEMMA OneSecondLessOfHtons ==
    ASSUME NEW s \in 1 .. (Byte - 1)
    PROVE  OneSecondLess(Htons(s)) = Htons(s - 1)
<1>1. /\ Htons(s) = s * Byte
      /\ Htons(1) = 1 * Byte
      /\ Htons(s - 1) = (s - 1) * Byte
  BY HtonsOfByte, ByteAssumption
<1>2. ASSUME NEW b \in Nat, b >= 2, NEW t \in 1 .. (b - 1)
      PROVE  t * b >= b /\ t * b - b = (t - 1) * b
  BY <1>2
<1> QED
  BY <1>1, <1>2, ByteAssumption DEF OneSecondLess, Sub16

(***************************************************************************)
(* The difference of two uint16_t, assigned to one, is one.                *)
(***************************************************************************)
LEMMA Sub16Type ==
    ASSUME NEW a \in Uint16, NEW b \in Uint16
    PROVE  Sub16(a, b) \in Uint16
BY WordSize DEF Sub16, Uint16

(***************************************************************************)
(* Zero, which is its own network byte order, is a uint16_t.               *)
(***************************************************************************)
LEMMA ZeroType == 0 \in Uint16
<1>1. ASSUME NEW w \in Nat, w >= 1
      PROVE  0 \in 0 .. (w - 1)
  BY <1>1
<1> QED
  BY <1>1, WordSize, ByteAssumption DEF Uint16

(***************************************************************************)
(* The two bytes of a uint16_t, and the uint16_t with two bytes given.     *)
(***************************************************************************)
LEMMA BytesOfWord ==
    ASSUME NEW x \in Uint16
    PROVE  /\ x % Byte \in 0 .. (Byte - 1)
           /\ x \div Byte \in 0 .. (Byte - 1)
           /\ x = (x \div Byte) * Byte + (x % Byte)
<1>1. ASSUME NEW b \in Nat, b >= 2, NEW y \in 0 .. (b * b - 1)
      PROVE  /\ y % b \in 0 .. (b - 1)
             /\ y = (y \div b) * b + (y % b)
             /\ y \div b \in Nat
  BY <1>1
<1>2. ASSUME NEW b \in Nat, b >= 2, NEW h \in Nat, NEW l \in 0 .. (b - 1),
             h * b + l <= b * b - 1
      PROVE  h <= b - 1
  <2>1. SUFFICES ASSUME h >= b PROVE FALSE
    OBVIOUS
  <2>2. h * b >= b * b
    BY <1>2, <2>1
  <2> QED
    BY <1>2, <2>2
<1>3. /\ x % Byte \in 0 .. (Byte - 1)
      /\ x = (x \div Byte) * Byte + (x % Byte)
      /\ x \div Byte \in Nat
  BY <1>1, ByteAssumption, Zenon DEF Uint16, Word
<1>4. x \div Byte <= Byte - 1
  BY <1>2, <1>3, ByteAssumption DEF Uint16, Word
<1> QED
  BY <1>3, <1>4, ByteAssumption

(***************************************************************************)
(* The two bytes of a word are found again in it.                          *)
(***************************************************************************)
LEMMA WordOfBytes ==
    ASSUME NEW h \in 0 .. (Byte - 1), NEW l \in 0 .. (Byte - 1)
    PROVE  /\ h * Byte + l \in Uint16
           /\ (h * Byte + l) % Byte = l
           /\ (h * Byte + l) \div Byte = h
<1>1. ASSUME NEW b \in Nat, b >= 2, NEW i \in 0 .. (b - 1),
             NEW j \in 0 .. (b - 1)
      PROVE  i * b + j \in 0 .. (b * b - 1)
  <2>1. i * b <= (b - 1) * b /\ (b - 1) * b = b * b - b
    BY <1>1
  <2>2. i * b \in Nat
    BY <1>1
  <2> QED
    BY <1>1, <2>1, <2>2
<1>2. (h * Byte + l) % Byte = l /\ (h * Byte + l) \div Byte = h
  BY ByteAssumption
<1> QED
  BY <1>1, <1>2, ByteAssumption, Zenon DEF Uint16, Word

(***************************************************************************)
(* htons of a uint16_t is one, and htons undoes itself.                    *)
(***************************************************************************)
LEMMA HtonsTwice ==
    ASSUME NEW x \in Uint16
    PROVE  Htons(x) \in Uint16 /\ Htons(Htons(x)) = x
<1>1. PICK h \in 0 .. (Byte - 1), l \in 0 .. (Byte - 1) :
        x = h * Byte + l /\ x % Byte = l /\ x \div Byte = h
  BY BytesOfWord, Zenon
<1>2. Htons(x) = l * Byte + h
  BY <1>1, Zenon DEF Htons
<1>3. /\ l * Byte + h \in Uint16
      /\ Htons(l * Byte + h) = h * Byte + l
  BY WordOfBytes, Zenon DEF Htons
<1> QED
  BY <1>1, <1>2, <1>3, Zenon

(***************************************************************************)
(* Below one byte, raw values are ordered and differ as the seconds do.    *)
(***************************************************************************)
LEMMA HtonsOrder ==
    ASSUME NEW s \in 0 .. (Byte - 1), NEW t \in 0 .. (Byte - 1)
    PROVE  Htons(s) < Htons(t) <=> s < t
<1>1. Htons(s) = s * Byte /\ Htons(t) = t * Byte
  BY HtonsOfByte, Zenon
<1>2. ASSUME NEW b \in Nat, b >= 2, NEW i \in Nat, NEW j \in Nat
      PROVE  i * b < j * b <=> i < j
  BY <1>2
<1> QED
  BY <1>1, <1>2, ByteAssumption

(***************************************************************************)
(* Lifetimes of less than a byte of seconds may be subtracted in network   *)
(* order.                                                                  *)
(***************************************************************************)
LEMMA HtonsDifference ==
    ASSUME NEW s \in 0 .. (Byte - 1), NEW t \in 0 .. s
    PROVE  Htons(s) - Htons(t) = Htons(s - t)
<1>1. /\ Htons(s) = s * Byte
      /\ Htons(t) = t * Byte
      /\ Htons(s - t) = (s - t) * Byte
  BY HtonsOfByte, ByteAssumption
<1>2. ASSUME NEW b \in Nat, NEW i \in Nat, NEW j \in Nat
      PROVE  i * b - j * b = (i - j) * b
  BY <1>2
<1> QED
  BY <1>1, <1>2, ByteAssumption

-----------------------------------------------------------------------------
(***************************************************************************)
(* A set of natural numbers that is not empty has a least element, which   *)
(* is what the loops that stop at the first match find.                    *)
(***************************************************************************)
LEMMA LeastOfSet ==
    ASSUME NEW S \in SUBSET Nat, S # {}
    PROVE  \E m \in S : \A k \in S : m <= k
<1>1. PICK m \in S : \A k \in S : ~ (<<k, m>> \in OpToRel(<, Nat))
  BY NatLessThanWellFounded, WFMin, Zenon
<1>2. \A k \in S : ~ (k < m)
  BY <1>1, Zenon DEF OpToRel
<1> QED
  BY <1>2

(***************************************************************************)
(* The same of Min, which picks that element.                              *)
(***************************************************************************)
LEMMA MinOfSet ==
    ASSUME NEW S \in SUBSET Nat, S # {}
    PROVE  Min(S) \in S /\ \A k \in S : Min(S) <= k
BY LeastOfSet, Zenon DEF Min

(***************************************************************************)
(* Induction over the natural numbers.                                     *)
(***************************************************************************)
LEMMA InductionInSet ==
    ASSUME NEW S, 0 \in S, \A n \in Nat : n \in S => n + 1 \in S
    PROVE  Nat \subseteq S
<1> SUFFICES ASSUME Nat \ S # {}
             PROVE  FALSE
  BY Zenon
<1>1. PICK m \in Nat \ S : \A k \in Nat \ S : m <= k
  BY LeastOfSet, Zenon
<1>2. m - 1 \in Nat /\ m - 1 \in S
  BY <1>1
<1> QED
  BY <1>1, <1>2

(***************************************************************************)
(* The prefixes that Retain computes, one after the other: its recursive   *)
(* function for the prefix of length n.                                    *)
(***************************************************************************)
Body(s, S, f, i) ==
    IF i = 0 THEN <<>>
    ELSE IF s[i] \in S THEN Append(f[i - 1], s[i])
    ELSE f[i - 1]

RetainedPrefixes(s, S, n, f) == f = [i \in 0 .. n |-> Body(s, S, f, i)]

(***************************************************************************)
(* There is such a function, so that CHOOSE finds one.                     *)
(***************************************************************************)
LEMMA PrefixesExist ==
    ASSUME NEW s, NEW S, NEW n \in Nat
    PROVE  \E f : RetainedPrefixes(s, S, n, f)
<1> DEFINE P == {m \in Nat : \E f : RetainedPrefixes(s, S, m, f)}
<1>1. 0 \in P
  <2> DEFINE g == [i \in 0 .. 0 |-> <<>>]
  <2>1. RetainedPrefixes(s, S, 0, g)
    BY DEF RetainedPrefixes, Body
  <2> QED
    BY <2>1, Zenon
<1>2. ASSUME NEW m \in Nat, m \in P
      PROVE  m + 1 \in P
  <2>1. PICK f : RetainedPrefixes(s, S, m, f)
    BY <1>2, Zenon
  <2> DEFINE g == [i \in 0 .. (m + 1) |-> Body(s, S, f, i)]
  <2>2. \A i \in 0 .. m : g[i] = f[i]
    BY <2>1 DEF RetainedPrefixes
  <2>3. \A i \in 0 .. (m + 1) : Body(s, S, g, i) = Body(s, S, f, i)
    <3> SUFFICES ASSUME NEW i \in 0 .. (m + 1)
                 PROVE  Body(s, S, g, i) = Body(s, S, f, i)
      BY Zenon
    <3>1. i # 0 => g[i - 1] = f[i - 1]
      BY <2>2
    <3> HIDE DEF g
    <3> QED
      BY <3>1, Zenon DEF Body
  <2>4. RetainedPrefixes(s, S, m + 1, g)
    BY <2>3, Zenon DEF RetainedPrefixes
  <2> QED
    BY <2>4
<1>3. Nat \subseteq P
  BY <1>1, <1>2, InductionInSet, Zenon
<1> QED
  BY <1>3, Zenon

(***************************************************************************)
(* r is what is left of the first n items of s when those outside S are    *)
(* erased: ix tells from which place of s each item of r comes.            *)
(***************************************************************************)
LeftOf(s, S, n, r, ix) ==
    /\ ix \in [1 .. Len(r) -> 1 .. n]
    /\ \A j, k \in 1 .. Len(r) : j < k => ix[j] < ix[k]
    /\ \A k \in 1 .. Len(r) : r[k] = s[ix[k]] /\ s[ix[k]] \in S
    /\ \A j \in 1 .. n : s[j] \in S => \E k \in 1 .. Len(r) : ix[k] = j

(***************************************************************************)
(* One more item that is kept, and one more that is erased.                *)
(***************************************************************************)
LEMMA OneMoreKept ==
    ASSUME NEW T, NEW s \in Seq(T), NEW S, NEW m \in Nat, m + 1 <= Len(s),
           NEW r \in Seq(T), Len(r) <= m, NEW ix, LeftOf(s, S, m, r, ix),
           s[m + 1] \in S
    PROVE  /\ Append(r, s[m + 1]) \in Seq(T)
           /\ Len(Append(r, s[m + 1])) <= m + 1
           /\ \E jx : LeftOf(s, S, m + 1, Append(r, s[m + 1]), jx)
<1> DEFINE t == Append(r, s[m + 1])
           L == Len(r)
           jx == [k \in 1 .. (L + 1) |-> IF k <= L THEN ix[k] ELSE m + 1]
<1>1. s[m + 1] \in T
  OBVIOUS
<1>2. /\ t \in Seq(T)
      /\ Len(t) = L + 1
      /\ \A k \in 1 .. L : t[k] = r[k]
      /\ t[L + 1] = s[m + 1]
      /\ L \in Nat
  BY <1>1
<1>3. jx \in [1 .. (L + 1) -> 1 .. (m + 1)]
  BY <1>2 DEF LeftOf
<1>4. \A j, k \in 1 .. (L + 1) : j < k => jx[j] < jx[k]
  BY <1>2 DEF LeftOf
<1>5. \A k \in 1 .. (L + 1) : t[k] = s[jx[k]] /\ s[jx[k]] \in S
  <2> SUFFICES ASSUME NEW k \in 1 .. (L + 1)
               PROVE  t[k] = s[jx[k]] /\ s[jx[k]] \in S
    BY Zenon
  <2>1. CASE k <= L
    <3>1. jx[k] = ix[k] /\ t[k] = r[k] /\ k \in 1 .. L
      BY <1>2, <2>1
    <3> HIDE DEF jx, t
    <3> QED
      BY <3>1, Zenon DEF LeftOf
  <2>2. CASE k = L + 1
    <3>1. jx[k] = m + 1
      BY <1>2, <2>2
    <3> HIDE DEF jx, t
    <3> QED
      BY <3>1, <1>2, <2>2, Zenon
  <2> QED
    BY <1>2, <2>1, <2>2
<1>6. \A j \in 1 .. (m + 1) : s[j] \in S => \E k \in 1 .. (L + 1) : jx[k] = j
  <2> SUFFICES ASSUME NEW j \in 1 .. (m + 1), s[j] \in S
               PROVE  \E k \in 1 .. (L + 1) : jx[k] = j
    BY Zenon
  <2>1. CASE j = m + 1
    <3>1. L + 1 \in 1 .. (L + 1) /\ jx[L + 1] = m + 1
      BY <1>2
    <3> QED
      BY <2>1, <3>1, Zenon
  <2>2. CASE j \in 1 .. m
    <3>1. PICK k \in 1 .. L : ix[k] = j
      BY <2>2, Zenon DEF LeftOf
    <3>2. k \in 1 .. (L + 1) /\ jx[k] = j
      BY <1>2, <3>1
    <3> QED
      BY <3>2, Zenon
  <2> QED
    BY <2>1, <2>2
<1>7. LeftOf(s, S, m + 1, t, jx)
  <2> HIDE DEF jx, t
  <2> QED
    BY <1>2, <1>3, <1>4, <1>5, <1>6, Zenon DEF LeftOf
<1> QED
  BY <1>2, <1>7

(***************************************************************************)
(* An item that is not retained leaves the result as it is.                *)
(***************************************************************************)
LEMMA OneMoreErased ==
    ASSUME NEW s, NEW S, NEW m \in Nat, NEW r, NEW ix,
           LeftOf(s, S, m, r, ix), s[m + 1] \notin S
    PROVE  LeftOf(s, S, m + 1, r, ix)
<1>1. ix \in [1 .. Len(r) -> 1 .. (m + 1)]
  BY DEF LeftOf
<1>2. \A j \in 1 .. (m + 1) : s[j] \in S => j \in 1 .. m
  OBVIOUS
<1> QED
  BY <1>1, <1>2, Zenon DEF LeftOf

(***************************************************************************)
(* What Retain returns: the items of s that are in S, each of them, and in *)
(* the order they have in s.                                               *)
(***************************************************************************)
LEMMA RetainLeaves ==
    ASSUME NEW T, NEW s \in Seq(T), NEW S
    PROVE  /\ Retain(s, S) \in Seq(T)
           /\ Len(Retain(s, S)) <= Len(s)
           /\ \E ix : LeftOf(s, S, Len(s), Retain(s, S), ix)
<1> DEFINE N == Len(s)
           f == CHOOSE g : RetainedPrefixes(s, S, N, g)
<1>1. N \in Nat
  OBVIOUS
<1>2. RetainedPrefixes(s, S, N, f)
  BY <1>1, PrefixesExist, Zenon
<1>3. Retain(s, S) = f[N]
  BY Zenon DEF Retain, RetainedPrefixes, Body
<1> DEFINE Good(m) == /\ f[m] \in Seq(T)
                      /\ Len(f[m]) <= m
                      /\ \E ix : LeftOf(s, S, m, f[m], ix)
           P == {m \in Nat : m <= N => Good(m)}
<1> HIDE DEF f
<1>4. f[0] = <<>> /\ \A m \in Nat : m + 1 <= N =>
        f[m + 1] = IF s[m + 1] \in S THEN Append(f[m], s[m + 1]) ELSE f[m]
  <2>1. \A i \in 0 .. N : f[i] = Body(s, S, f, i)
    BY <1>2, Zenon DEF RetainedPrefixes
  <2>2. f[0] = <<>>
    BY <1>1, <2>1 DEF Body
  <2>3. ASSUME NEW m \in Nat, m + 1 <= N
        PROVE  f[m + 1] = IF s[m + 1] \in S THEN Append(f[m], s[m + 1]) ELSE f[m]
    <3>1. f[m + 1] = Body(s, S, f, m + 1)
      BY <1>1, <2>1, <2>3
    <3>2. m + 1 # 0 /\ (m + 1) - 1 = m
      OBVIOUS
    <3> QED
      BY <3>1, <3>2, Zenon DEF Body
  <2> QED
    BY <2>2, <2>3, Zenon
<1>5. 0 \in P
  <2>1. f[0] \in Seq(T) /\ Len(f[0]) = 0
    BY <1>4
  <2>2. LeftOf(s, S, 0, f[0], <<>>)
    BY <2>1 DEF LeftOf
  <2> QED
    BY <2>1, <2>2
<1>6. ASSUME NEW m \in Nat, m \in P
      PROVE  m + 1 \in P
  <2> SUFFICES ASSUME m + 1 <= N
               PROVE  Good(m + 1)
    OBVIOUS
  <2>1. Good(m)
    BY <1>1, <1>6
  <2>2. PICK ix : LeftOf(s, S, m, f[m], ix)
    BY <2>1, Zenon
  <2>3. CASE s[m + 1] \in S
    <3>1. f[m + 1] = Append(f[m], s[m + 1])
      BY <1>4, <2>3, Zenon
    <3>2. f[m] \in Seq(T) /\ Len(f[m]) <= m
      BY <2>1, Zenon
    <3>3. /\ Append(f[m], s[m + 1]) \in Seq(T)
          /\ Len(Append(f[m], s[m + 1])) <= m + 1
          /\ \E jx : LeftOf(s, S, m + 1, Append(f[m], s[m + 1]), jx)
      BY <2>2, <2>3, <3>2, OneMoreKept, Zenon
    <3> QED
      BY <3>1, <3>3, Zenon
  <2>4. CASE s[m + 1] \notin S
    BY <1>4, <2>1, <2>2, <2>4, OneMoreErased
  <2> QED
    BY <2>3, <2>4, Zenon
<1>7. Nat \subseteq P
  <2> HIDE DEF P
  <2> QED
    BY <1>5, <1>6, InductionInSet, Zenon
<1>8. Good(N)
  BY <1>1, <1>7
<1> QED
  BY <1>3, <1>8, Zenon

(***************************************************************************)
(* r holds some of the items of s, each at most as often as s does.        *)
(***************************************************************************)
DrawnFrom(r, s) ==
    \E ix \in [1 .. Len(r) -> 1 .. Len(s)] :
        /\ \A j, k \in 1 .. Len(r) : ix[j] = ix[k] => j = k
        /\ \A k \in 1 .. Len(r) : r[k] = s[ix[k]]

(***************************************************************************)
(* The items of a list are what stands at its places.                      *)
(***************************************************************************)
LEMMA PlacesOfItems ==
    ASSUME NEW T, NEW s \in Seq(T)
    PROVE  Range(s) = {s[k] : k \in 1 .. Len(s)}
BY DEF Range

(***************************************************************************)
(* Retain returns such a list, of exactly the items of s that are in S.    *)
(***************************************************************************)
LEMMA RetainIsDrawn ==
    ASSUME NEW T, NEW s \in Seq(T), NEW S
    PROVE  /\ Retain(s, S) \in Seq(T)
           /\ Len(Retain(s, S)) <= Len(s)
           /\ DrawnFrom(Retain(s, S), s)
           /\ Range(Retain(s, S)) = Range(s) \cap S
<1> DEFINE r == Retain(s, S)
<1>1. r \in Seq(T) /\ Len(r) <= Len(s)
  BY RetainLeaves, Zenon
<1>2. PICK ix : LeftOf(s, S, Len(s), r, ix)
  BY RetainLeaves, Zenon
<1> HIDE DEF r
<1>3. \A j, k \in 1 .. Len(r) : ix[j] = ix[k] => j = k
  <2>1. Len(r) \in Nat /\ Len(s) \in Nat
    BY <1>1
  <2>2. \A j \in 1 .. Len(r) : ix[j] \in Nat
    BY <1>2, <2>1 DEF LeftOf
  <2>3. \A j, k \in 1 .. Len(r) : j < k => ix[j] < ix[k]
    BY <1>2, Zenon DEF LeftOf
  <2> QED
    BY <2>1, <2>2, <2>3
<1>4. DrawnFrom(r, s)
  BY <1>2, <1>3, Zenon DEF LeftOf, DrawnFrom
<1>5. Range(r) \subseteq Range(s) \cap S
  <2> SUFFICES ASSUME NEW k \in 1 .. Len(r)
               PROVE  r[k] \in Range(s) \cap S
    BY <1>1 DEF Range
  <2> QED
    BY <1>2 DEF LeftOf, Range
<1>6. Range(s) \cap S \subseteq Range(r)
  <2> SUFFICES ASSUME NEW j \in 1 .. Len(s), s[j] \in S
               PROVE  s[j] \in Range(r)
    BY DEF Range
  <2>1. PICK k \in 1 .. Len(r) : ix[k] = j
    BY <1>2, Zenon DEF LeftOf
  <2>2. r[k] = s[j]
    BY <1>2, <2>1, Zenon DEF LeftOf
  <2> QED
    BY <1>1, <2>2 DEF Range
<1> QED
  BY <1>1, <1>4, <1>5, <1>6, Zenon DEF r

(***************************************************************************)
(* Erasing the item at place i leaves such a list, too, without that item. *)
(***************************************************************************)
LEMMA EraseIsDrawn ==
    ASSUME NEW T, NEW s \in Seq(T), NEW i \in 1 .. Len(s)
    PROVE  /\ Erase(s, i) \in Seq(T)
           /\ Len(Erase(s, i)) = Len(s) - 1
           /\ DrawnFrom(Erase(s, i), s)
           /\ Range(Erase(s, i)) = {s[j] : j \in (1 .. Len(s)) \ {i}}
<1> DEFINE r == Erase(s, i)
           N == Len(s)
           ix == [k \in 1 .. (N - 1) |-> IF k < i THEN k ELSE k + 1]
<1>1. N \in Nat /\ i \in 1 .. N
  OBVIOUS
<1>2. /\ r \in Seq(T)
      /\ Len(r) = N - 1
      /\ \A k \in 1 .. (N - 1) : r[k] = IF k < i THEN s[k] ELSE s[k + 1]
  <2> DEFINE a == SubSeq(s, 1, i - 1)
             b == SubSeq(s, i + 1, N)
  <2>1. /\ a \in Seq(T)
        /\ Len(a) = i - 1
        /\ \A k \in 1 .. (i - 1) : a[k] = s[k]
    BY <1>1
  <2>2. /\ b \in Seq(T)
        /\ Len(b) = N - i
        /\ \A k \in 1 .. (N - i) : b[k] = s[i + k]
    BY <1>1
  <2>3. r = a \o b
    BY Zenon DEF Erase
  <2> HIDE DEF a, b, r
  <2>4. /\ a \o b \in Seq(T)
        /\ Len(a \o b) = N - 1
    <3>1. a \in Seq(T) /\ b \in Seq(T)
      BY <2>1, <2>2, Zenon
    <3>2. a \o b \in Seq(T) /\ Len(a \o b) = Len(a) + Len(b)
      BY <3>1
    <3>3. (i - 1) + (N - i) = N - 1
      BY <1>1
    <3> QED
      BY <2>1, <2>2, <3>2, <3>3, Zenon
  <2>5. ASSUME NEW k \in 1 .. (N - 1)
        PROVE  (a \o b)[k] = IF k < i THEN s[k] ELSE s[k + 1]
    <3>1. CASE k < i
      BY <1>1, <2>1, <2>2, <3>1
    <3>2. CASE k >= i
      <4>1. (a \o b)[k] = b[k - (i - 1)]
        BY <1>1, <2>1, <2>2, <3>2
      <4>2. k - (i - 1) \in 1 .. (N - i) /\ i + (k - (i - 1)) = k + 1
        BY <1>1, <3>2
      <4> QED
        BY <1>1, <2>2, <3>2, <4>1, <4>2
    <3>3. k < i \/ k >= i
      BY <1>1
    <3> QED
      BY <3>1, <3>2, <3>3, Zenon
  <2> QED
    BY <2>3, <2>4, <2>5, Zenon
<1> HIDE DEF r
<1>3. /\ ix \in [1 .. (N - 1) -> (1 .. N) \ {i}]
      /\ \A j, k \in 1 .. (N - 1) : ix[j] = ix[k] => j = k
  BY <1>1
<1>4. \A k \in 1 .. (N - 1) : r[k] = s[ix[k]]
  BY <1>2, Zenon
<1>5. DrawnFrom(r, s)
  <2>1. ix \in [1 .. Len(r) -> 1 .. Len(s)]
    BY <1>2, <1>3
  <2>2. 1 .. Len(r) = 1 .. (N - 1)
    BY <1>2
  <2> HIDE DEF ix
  <2>3. \A j, k \in 1 .. Len(r) : ix[j] = ix[k] => j = k
    BY <1>3, <2>2, Zenon
  <2>4. \A k \in 1 .. Len(r) : r[k] = s[ix[k]]
    BY <1>4, <2>2, Zenon
  <2> QED
    BY <2>1, <2>3, <2>4, Zenon DEF DrawnFrom
<1>6. \A j \in (1 .. N) \ {i} : \E k \in 1 .. (N - 1) : ix[k] = j
  <2> SUFFICES ASSUME NEW j \in (1 .. N) \ {i}
               PROVE  \E k \in 1 .. (N - 1) : ix[k] = j
    BY Zenon
  <2>1. CASE j < i
    <3>1. j \in 1 .. (N - 1) /\ ix[j] = j
      BY <1>1, <2>1
    <3> QED
      BY <3>1, Zenon
  <2>2. CASE j > i
    <3>1. j - 1 \in 1 .. (N - 1) /\ ix[j - 1] = j
      BY <1>1, <2>2
    <3> QED
      BY <3>1, Zenon
  <2> QED
    BY <1>1, <2>1, <2>2
<1>7. Range(r) = {s[j] : j \in (1 .. N) \ {i}}
  <2>1. Range(r) = {r[k] : k \in 1 .. (N - 1)}
    BY <1>2 DEF Range
  <2> HIDE DEF ix
  <2>2. ASSUME NEW k \in 1 .. (N - 1)
        PROVE  r[k] \in {s[j] : j \in (1 .. N) \ {i}}
    BY <1>3, <1>4, Zenon
  <2>3. ASSUME NEW j \in (1 .. N) \ {i}
        PROVE  s[j] \in {r[k] : k \in 1 .. (N - 1)}
    BY <1>4, <1>6, Zenon
  <2> QED
    BY <2>1, <2>2, <2>3, Zenon
<1> QED
  BY <1>2, <1>5, <1>7, Zenon DEF r

(***************************************************************************)
(* The items of a list drawn from another one are items of that.           *)
(***************************************************************************)
LEMMA DrawnItems ==
    ASSUME NEW T, NEW s \in Seq(T), NEW r \in Seq(T), DrawnFrom(r, s)
    PROVE  Range(r) \subseteq Range(s)
BY DEF DrawnFrom, Range

(***************************************************************************)
(* The items of a list with one more at its end, or of two in a row.       *)
(***************************************************************************)
LEMMA AppendItems ==
    ASSUME NEW T, NEW s \in Seq(T), NEW x \in T
    PROVE  Range(Append(s, x)) = Range(s) \cup {x}
<1>1. /\ Append(s, x) \in Seq(T)
      /\ Len(Append(s, x)) = Len(s) + 1
      /\ \A k \in 1 .. Len(s) : Append(s, x)[k] = s[k]
      /\ Append(s, x)[Len(s) + 1] = x
  OBVIOUS
<1>2. Len(s) \in Nat /\ 1 .. (Len(s) + 1) = (1 .. Len(s)) \cup {Len(s) + 1}
  OBVIOUS
<1> QED
  BY <1>1, <1>2 DEF Range

(***************************************************************************)
(* Two lists in a row are a list, as long as the two together.             *)
(***************************************************************************)
LEMMA ConcatList ==
    ASSUME NEW T, NEW s \in Seq(T), NEW t \in Seq(T)
    PROVE  s \o t \in Seq(T) /\ Len(s \o t) = Len(s) + Len(t)
OBVIOUS

(***************************************************************************)
(* The items of two lists put together.                                    *)
(***************************************************************************)
LEMMA ConcatItems ==
    ASSUME NEW T, NEW s \in Seq(T), NEW t \in Seq(T)
    PROVE  Range(s \o t) = Range(s) \cup Range(t)
<1> DEFINE M == Len(s)
           N == Len(t)
           r == s \o t
<1>1. M \in Nat /\ N \in Nat
  OBVIOUS
<1>2. /\ r \in Seq(T)
      /\ Len(r) = M + N
      /\ \A k \in 1 .. M : r[k] = s[k]
      /\ \A k \in 1 .. N : r[M + k] = t[k]
  OBVIOUS
<1>3. /\ Range(r) = {r[k] : k \in 1 .. (M + N)}
      /\ Range(s) = {s[k] : k \in 1 .. M}
      /\ Range(t) = {t[k] : k \in 1 .. N}
  BY <1>2, PlacesOfItems, Zenon
<1> HIDE DEF M, N, r
<1>4. ASSUME NEW k \in 1 .. (M + N)
      PROVE  r[k] \in Range(s) \cup Range(t)
  <2>1. CASE k <= M
    BY <1>1, <1>2, <1>3, <2>1
  <2>2. CASE k > M
    <3>1. k - M \in 1 .. N /\ k = M + (k - M)
      BY <1>1, <2>2
    <3>2. r[k] = t[k - M]
      BY <1>2, <3>1, Zenon
    <3> QED
      BY <1>3, <3>1, <3>2, Zenon
  <2> QED
    BY <1>1, <2>1, <2>2
<1>5. ASSUME NEW k \in 1 .. M
      PROVE  s[k] \in Range(r)
  <2>1. k \in 1 .. (M + N)
    BY <1>1
  <2> QED
    BY <1>2, <1>3, <2>1, Zenon
<1>6. ASSUME NEW k \in 1 .. N
      PROVE  t[k] \in Range(r)
  <2>1. M + k \in 1 .. (M + N)
    BY <1>1
  <2> QED
    BY <1>2, <1>3, <2>1, Zenon
<1>7. Range(r) = Range(s) \cup Range(t)
  BY <1>3, <1>4, <1>5, <1>6, Zenon
<1> QED
  BY <1>7, Zenon DEF r

(***************************************************************************)
(* A list whose items from place k on are replaced by the one of b, then  *)
(* those of t.                                                             *)
(***************************************************************************)
LEMMA RestReplaced ==
    ASSUME NEW T, NEW s \in Seq(T), NEW k \in 1 .. Len(s),
           NEW b \in Seq(T), Len(b) = 1, NEW t \in Seq(T), Len(t) <= Len(s) - k
    PROVE  LET r == (SubSeq(s, 1, k - 1) \o b) \o t
           IN  /\ r \in Seq(T)
               /\ Len(r) <= Len(s)
               /\ \A j \in 1 .. (k - 1) : s[j] \in Range(r)
               /\ b[1] \in Range(r)
               /\ Range(t) \subseteq Range(r)
<1> DEFINE r == (SubSeq(s, 1, k - 1) \o b) \o t
           a == SubSeq(s, 1, k - 1)
           d == a \o b
<1>1. /\ a \in Seq(T) /\ Len(a) = k - 1
      /\ \A j \in 1 .. (k - 1) : a[j] = s[j]
  OBVIOUS
<1>2. b \in Seq(T) /\ Len(b) = 1
  OBVIOUS
<1>3. r = d \o t
  OBVIOUS
<1> HIDE DEF a, r
<1>4. d \in Seq(T) /\ Len(d) = k /\ Range(d) = Range(a) \cup Range(b)
  <2>1. d \in Seq(T) /\ Len(d) = Len(a) + Len(b)
    BY <1>1, <1>2, ConcatList, Zenon
  <2>2. a \in Seq(T)
    BY <1>1, Zenon
  <2>3. Range(d) = Range(a) \cup Range(b)
    BY <2>2, ConcatItems
  <2> QED
    BY <1>1, <1>2, <2>1, <2>3
<1> HIDE DEF d
<1>5. r \in Seq(T) /\ Len(r) = k + Len(t) /\ Range(r) = Range(d) \cup Range(t)
  <2>1. d \o t \in Seq(T) /\ Len(d \o t) = Len(d) + Len(t)
    BY <1>4, ConcatList, Zenon
  <2>2. d \in Seq(T)
    BY <1>4, Zenon
  <2>3. Range(d \o t) = Range(d) \cup Range(t)
    BY <2>2, ConcatItems
  <2> QED
    BY <1>3, <1>4, <2>1, <2>3, Zenon
<1>6. Len(t) \in Nat /\ Len(s) \in Nat
  OBVIOUS
<1>7. \A j \in 1 .. (k - 1) : s[j] \in Range(a)
  BY <1>1, PlacesOfItems
<1>8. b[1] \in Range(b)
  <2>1. Range(b) = {b[j] : j \in 1 .. Len(b)}
    BY <1>2, PlacesOfItems, Zenon
  <2>2. 1 \in 1 .. Len(b)
    BY <1>2
  <2> QED
    BY <1>2, <2>1, <2>2, Zenon
<1>9. Len(r) <= Len(s)
  BY <1>5, <1>6
<1> QED
  BY <1>4, <1>5, <1>7, <1>8, <1>9, Zenon DEF r

=============================================================================
