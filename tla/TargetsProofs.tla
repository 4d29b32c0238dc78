---------------------------- MODULE TargetsProofs ----------------------------
(***************************************************************************)
(* What the writers at the end of the chain keep, for every log and every  *)
(* batch, failing request, crash and rebalance: the position the source is *)
(* told covers nothing that was lost without a word, a Kafka topic has the *)
(* order of each schema, and a search index shows of each row what its     *)
(* source has.  Their invariants say where a change is that was handed     *)
(* over and is not accounted for.                                          *)
(*                                                                         *)
(* The proofs rest on lemmas about sequences, and on induction through the *)
(* least element of a set, which is proved here from the facts about       *)
(* finite sets.                                                            *)
(***************************************************************************)
EXTENDS Targets, Selection, FiniteSetTheorems, SequenceTheorems, TLAPS

-----------------------------------------------------------------------------
(* Numbers and sequences.                                                  *)

\* A set of numbers has a least one: otherwise the numbers below all of its would
\* be finitely many, and each have a successor among them.
LEMMA Least ==
  ASSUME NEW S \in SUBSET Nat, S # {}
  PROVE  \E p \in S : \A q \in S : p <= q
<1> SUFFICES ASSUME \A p \in S : \E q \in S : q < p PROVE FALSE
  OBVIOUS
<1> DEFINE U == {n \in Nat : \A q \in S : n < q}
           next1 == [n \in U |-> n + 1]
<1>1. 0 \in U /\ \A n \in U : n + 1 \in U
  <2>1. \A n \in Nat : (\A q \in S : n <= q) => n \in U
    OBVIOUS
  <2> QED BY <2>1
<1>2. IsFiniteSet(U)
  <2>1. PICK m \in S : TRUE
    OBVIOUS
  <2>2. \A n \in U : n <= m
    OBVIOUS
  <2> QED BY <2>2, FS_BoundedSetOfNaturals
<1>3. next1 \in Injection(U, U)
  BY <1>1 DEF Injection, IsInjective
<1>4. next1 \in Surjection(U, U)
  BY <1>2, <1>3, FS_Injection
<1>5. PICK n \in U : next1[n] = 0
  BY <1>1, <1>4 DEF Surjection
<1> QED BY <1>5

\* Induction, for the numbers that have a property as a set.
LEMMA UpTo ==
  ASSUME NEW N \in Nat, NEW S, 0 \in S, \A n \in 0..N : n \in S /\ n < N => n + 1 \in S
  PROVE  \A n \in 0..N : n \in S
<1> DEFINE Other == {n \in 0..N : n \notin S}
<1> SUFFICES ASSUME Other # {} PROVE FALSE
  OBVIOUS
<1>1. PICK m \in Other : \A q \in Other : m <= q
  <2>1. Other \in SUBSET Nat
    OBVIOUS
  <2> HIDE DEF Other
  <2> QED BY <2>1, Least
<1>2. m # 0 /\ m - 1 \in 0..N /\ m - 1 \notin Other
  BY <1>1
<1> QED BY <1>1, <1>2

\* A bounded set of numbers has a greatest one.
LEMMA Greatest ==
  ASSUME NEW N \in Nat, NEW S \in SUBSET (0..N), S # {}
  PROVE  \E p \in S : \A q \in S : q <= p
<1> DEFINE Down == {N - q : q \in S}
<1>0. S \subseteq Int /\ \A q \in S : q <= N /\ N - q \in Nat
  OBVIOUS
<1>1. Down \in SUBSET Nat /\ Down # {}
  BY <1>0
<1>2. PICK d \in Down : \A q \in Down : d <= q
  <2> HIDE DEF Down
  <2> QED BY <1>1, Least
<1>3. PICK p \in S : d = N - p
  OBVIOUS
<1>4. \A q \in S : N - q \in Down
  OBVIOUS
<1>5. \A q \in S : d <= N - q
  BY <1>2, <1>4
<1> HIDE DEF Down
<1> QED BY <1>0, <1>3, <1>5

\* The elements of a sequence, and those whose order is that of their numbers.
Elements(s) == {s[k] : k \in DOMAIN s}
Ascending(s) == \A k, l \in DOMAIN s : k < l => s[k] < s[l]

\* The steps of Selected.
SelectedUpTo(s, S, f, n) ==
  /\ f = [k \in 0..n |-> f[k]] /\ f[0] = <<>>
  /\ \A k \in 1..n : f[k] = IF s[k] \in S THEN Append(f[k - 1], s[k]) ELSE f[k - 1]

IsSelection(s, S, f) ==
  f = [n \in 0..Len(s) |->
        IF n = 0 THEN <<>> ELSE IF s[n] \in S THEN Append(f[n - 1], s[n]) ELSE f[n - 1]]

LEMMA SelectionExists ==
  ASSUME NEW s, Len(s) \in Nat, NEW S
  PROVE  \E f : IsSelection(s, S, f)
<1> DEFINE Done == {n \in 0..Len(s) : \E f : SelectedUpTo(s, S, f, n)}
<1>1. 0 \in Done
  <2>1. SelectedUpTo(s, S, [k \in 0..0 |-> <<>>], 0)
    BY DEF SelectedUpTo
  <2> QED BY <2>1
<1>2. ASSUME NEW n \in 0..Len(s), n \in Done, n < Len(s) PROVE n + 1 \in Done
  <2>1. PICK f : SelectedUpTo(s, S, f, n)
    BY <1>2
  <2> DEFINE e == IF s[n + 1] \in S THEN Append(f[n], s[n + 1]) ELSE f[n]
             g == [k \in 0..n + 1 |-> IF k = n + 1 THEN e ELSE f[k]]
  <2>2. g = [k \in 0..n + 1 |-> g[k]] /\ g[0] = <<>>
    BY <2>1 DEF SelectedUpTo
  <2>3. ASSUME NEW k \in 1..n + 1
        PROVE  g[k] = IF s[k] \in S THEN Append(g[k - 1], s[k]) ELSE g[k - 1]
    <3>1. k - 1 \in 0..n /\ g[k - 1] = f[k - 1]
      OBVIOUS
    <3>2. CASE k = n + 1
      <4>1. g[k] = e /\ k - 1 = n
        BY <3>2
      <4> HIDE DEF g
      <4> QED BY <3>1, <3>2, <4>1
    <3>3. CASE k # n + 1
      <4>1. k \in 1..n /\ g[k] = f[k]
        BY <3>3
      <4> HIDE DEF g
      <4> QED BY <2>1, <3>1, <4>1 DEF SelectedUpTo
    <3> QED BY <3>2, <3>3
  <2>4. SelectedUpTo(s, S, g, n + 1)
    <3> HIDE DEF g
    <3> QED BY <2>2, <2>3 DEF SelectedUpTo
  <2>5. n + 1 \in 0..Len(s)
    BY <1>2
  <2> HIDE DEF g
  <2> QED BY <2>4, <2>5
<1>3. Len(s) \in Done
  <2> HIDE DEF Done
  <2>1. \A n \in 0..Len(s) : n \in Done /\ n < Len(s) => n + 1 \in Done
    BY <1>2
  <2>2. \A n \in 0..Len(s) : n \in Done
    BY <1>1, <2>1, UpTo
  <2> QED BY <2>2
<1>4. PICK f : SelectedUpTo(s, S, f, Len(s))
  BY <1>3
<1>5. ASSUME NEW n \in 0..Len(s)
      PROVE  f[n] = IF n = 0 THEN <<>>
                    ELSE IF s[n] \in S THEN Append(f[n - 1], s[n]) ELSE f[n - 1]
  <2>1. n = 0 \/ n \in 1..Len(s)
    OBVIOUS
  <2> QED BY <1>4, <2>1 DEF SelectedUpTo
<1>6. f = [n \in 0..Len(s) |-> f[n]]
  BY <1>4 DEF SelectedUpTo
<1>7. [n \in 0..Len(s) |-> f[n]] =
      [n \in 0..Len(s) |->
         IF n = 0 THEN <<>>
         ELSE IF s[n] \in S THEN Append(f[n - 1], s[n]) ELSE f[n - 1]]
  BY <1>5
<1> QED BY <1>6, <1>7 DEF IsSelection

LEMMA AppendElements ==
  ASSUME NEW T, NEW s \in Seq(T), NEW x \in T
  PROVE  /\ Append(s, x) \in Seq(T) /\ Elements(Append(s, x)) = Elements(s) \cup {x}
         /\ T \subseteq Int /\ Ascending(s) /\ (\A y \in Elements(s) : y < x)
            => Ascending(Append(s, x))
<1> DEFINE t == Append(s, x)
<1>1. /\ t \in Seq(T) /\ Len(t) = Len(s) + 1 /\ \A i \in 1..Len(s) : t[i] = s[i]
      /\ t[Len(s) + 1] = x
  BY AppendProperties
<1>2. Len(s) \in Nat /\ DOMAIN s = 1..Len(s) /\ \A i \in DOMAIN s : s[i] \in T
  BY LenProperties
<1> HIDE DEF t
<1>3. DOMAIN t = 1..Len(s) + 1
  BY <1>1, <1>2, LenProperties
<1>4. Elements(t) = Elements(s) \cup {x}
  BY <1>1, <1>2, <1>3 DEF Elements
<1>5. ASSUME T \subseteq Int, Ascending(s), \A y \in Elements(s) : y < x PROVE Ascending(t)
  <2> SUFFICES ASSUME NEW k \in 1..Len(s) + 1, NEW l \in 1..Len(s) + 1, k < l
               PROVE  t[k] < t[l]
    BY <1>3 DEF Ascending
  <2>1. k \in 1..Len(s) /\ t[k] = s[k] /\ s[k] \in Elements(s)
    BY <1>1, <1>2 DEF Elements
  <2>2. CASE l = Len(s) + 1
    BY <1>1, <1>5, <2>1, <2>2
  <2>3. CASE l # Len(s) + 1
    BY <1>1, <1>2, <1>5, <2>1, <2>3 DEF Ascending
  <2> QED BY <2>2, <2>3
<1> QED BY <1>1, <1>4, <1>5 DEF t

LEMMA SelectedProperties ==
  ASSUME NEW T, NEW s \in Seq(T), NEW S
  PROVE  /\ Selected(s, S) \in Seq(T) /\ Elements(Selected(s, S)) = Elements(s) \cap S
         /\ T \subseteq Int /\ Ascending(s) => Ascending(Selected(s, S))
<1>1. Len(s) \in Nat /\ DOMAIN s = 1..Len(s) /\ \A i \in DOMAIN s : s[i] \in T
  BY LenProperties
<1> DEFINE f == CHOOSE h : IsSelection(s, S, h)
<1>2. IsSelection(s, S, f)
  BY <1>1, SelectionExists
<1>3. Selected(s, S) = f[Len(s)]
  BY DEF Selected, IsSelection
<1> HIDE DEF f
<1> DEFINE First(n) == {s[k] : k \in 1..n}
           Good == {n \in 0..Len(s) :
                      /\ f[n] \in Seq(T) /\ Elements(f[n]) = First(n) \cap S
                      /\ T \subseteq Int /\ Ascending(s) => Ascending(f[n])}
<1>4. 0 \in Good
  <2>1. f[0] = <<>>
    BY <1>1, <1>2 DEF IsSelection
  <2>2. <<>> \in Seq(T) /\ Elements(<<>>) = {} /\ Ascending(<<>>) /\ First(0) = {}
    BY EmptySeq DEF Elements, Ascending
  <2>3. 0 \in 0..Len(s)
    BY <1>1
  <2>4. Elements(f[0]) = First(0) \cap S
    <3> HIDE DEF First
    <3> QED BY <2>1, <2>2
  <2>5. f[0] \in Seq(T) /\ Ascending(f[0])
    BY <2>1, <2>2
  <2> HIDE DEF First
  <2> QED BY <2>3, <2>4, <2>5
<1>5. ASSUME NEW n \in 0..Len(s), n \in Good, n < Len(s) PROVE n + 1 \in Good
  <2>1. /\ n + 1 \in 0..Len(s) /\ n + 1 \in 1..Len(s) /\ s[n + 1] \in T
        /\ n + 1 - 1 = n /\ n + 1 # 0
    BY <1>1, <1>5
  <2>2. f[n + 1] = IF s[n + 1] \in S THEN Append(f[n], s[n + 1]) ELSE f[n]
    <3>1. f[n + 1] = IF n + 1 = 0 THEN <<>>
                     ELSE IF s[n + 1] \in S THEN Append(f[n + 1 - 1], s[n + 1])
                     ELSE f[n + 1 - 1]
      <4> DEFINE m == n + 1
      <4>1. m \in 0..Len(s)
        BY <2>1
      <4> HIDE DEF m
      <4>2. f[m] = IF m = 0 THEN <<>>
                   ELSE IF s[m] \in S THEN Append(f[m - 1], s[m]) ELSE f[m - 1]
        BY <1>2, <4>1 DEF IsSelection
      <4> QED BY <4>2 DEF m
    <3> QED BY <2>1, <3>1
  <2>3. First(n + 1) = First(n) \cup {s[n + 1]}
    <3>1. 1..n + 1 = (1..n) \cup {n + 1}
      BY <2>1
    <3> QED BY <3>1
  <2>4. ASSUME T \subseteq Int, Ascending(s) PROVE \A y \in Elements(f[n]) : y < s[n + 1]
    BY <1>1, <1>5, <2>1, <2>4 DEF Ascending
  <2>5. CASE s[n + 1] \in S
    <3>1. f[n] \in Seq(T) /\ Elements(f[n]) = First(n) \cap S
      BY <1>5
    <3>2. /\ f[n + 1] \in Seq(T) /\ Elements(f[n + 1]) = Elements(f[n]) \cup {s[n + 1]}
          /\ T \subseteq Int /\ Ascending(f[n]) /\ (\A y \in Elements(f[n]) : y < s[n + 1])
             => Ascending(f[n + 1])
      <4> DEFINE e == f[n]
      <4>1. e \in Seq(T) /\ f[n + 1] = Append(e, s[n + 1])
        BY <2>2, <2>5, <3>1
      <4> HIDE DEF e
      <4>2. /\ Append(e, s[n + 1]) \in Seq(T)
            /\ Elements(Append(e, s[n + 1])) = Elements(e) \cup {s[n + 1]}
            /\ T \subseteq Int /\ Ascending(e) /\ (\A y \in Elements(e) : y < s[n + 1])
               => Ascending(Append(e, s[n + 1]))
        BY <2>1, <4>1, AppendElements
      <4> QED BY <4>1, <4>2 DEF e
    <3>3. Elements(f[n + 1]) = First(n + 1) \cap S
      <4> HIDE DEF First
      <4> QED BY <2>3, <2>5, <3>1, <3>2
    <3>4. T \subseteq Int /\ Ascending(s) => Ascending(f[n + 1])
      BY <1>5, <2>4, <3>2
    <3> HIDE DEF First
    <3> QED BY <2>1, <3>2, <3>3, <3>4
  <2>6. CASE s[n + 1] \notin S
    BY <1>5, <2>1, <2>2, <2>3, <2>6
  <2> QED BY <2>5, <2>6
<1>6. Len(s) \in Good
  <2> HIDE DEF Good
  <2>1. \A n \in 0..Len(s) : n \in Good /\ n < Len(s) => n + 1 \in Good
    BY <1>5
  <2>2. \A n \in 0..Len(s) : n \in Good
    BY <1>1, <1>4, <2>1, UpTo
  <2> QED BY <1>1, <2>2
<1>7. First(Len(s)) = Elements(s)
  BY <1>1 DEF Elements
<1> QED BY <1>3, <1>6, <1>7

\* A sequence cut in two.
LEMMA Cut ==
  ASSUME NEW T, NEW s \in Seq(T), NEW n \in 0..Len(s)
  PROVE  LET a == SubSeq(s, 1, n)
             b == SubSeq(s, n + 1, Len(s))
         IN  /\ a \in Seq(T) /\ b \in Seq(T) /\ Len(a) = n /\ Len(b) = Len(s) - n
             /\ \A k \in 1..n : a[k] = s[k]
             /\ \A k \in 1..Len(s) - n : b[k] = s[n + k]
             /\ Elements(s) = Elements(a) \cup Elements(b)
<1> DEFINE a == SubSeq(s, 1, n)
           b == SubSeq(s, n + 1, Len(s))
<1>1. Len(s) \in Nat /\ DOMAIN s = 1..Len(s) /\ \A i \in 1..Len(s) : s[i] \in T
  BY LenProperties
<1>2. /\ a \in Seq(T) /\ Len(a) = (IF 1 <= n THEN n - 1 + 1 ELSE 0)
      /\ \A i \in 1..(n - 1 + 1) : a[i] = s[1 + i - 1]
  BY <1>1, SubSeqProperties
<1>3. /\ b \in Seq(T) /\ Len(b) = (IF n + 1 <= Len(s) THEN Len(s) - (n + 1) + 1 ELSE 0)
      /\ \A i \in 1..(Len(s) - (n + 1) + 1) : b[i] = s[n + 1 + i - 1]
  BY <1>1, SubSeqProperties
<1> HIDE DEF a, b
<1>4. Len(a) = n /\ \A k \in 1..n : a[k] = s[k]
  BY <1>1, <1>2
<1>5. Len(b) = Len(s) - n /\ \A k \in 1..Len(s) - n : b[k] = s[n + k]
  <2>0. n \in Int /\ n <= Len(s) /\ Len(s) \in Int
    BY <1>1
  <2>2. \A k \in 1..Len(s) - n : n + 1 + k - 1 = n + k
    BY <2>0
  <2>3. ASSUME NEW k \in 1..Len(s) - n PROVE b[k] = s[n + 1 + k - 1]
    <3>1. k \in 1..(Len(s) - (n + 1) + 1)
      BY <2>0
    <3> QED BY <1>3, <3>1
  <2>4. Len(b) = Len(s) - n
    <3>1. Len(b) = IF n + 1 <= Len(s) THEN Len(s) - (n + 1) + 1 ELSE 0
      BY <1>3
    <3> QED BY <2>0, <3>1
  <2> QED BY <2>2, <2>3, <2>4
<1>6. DOMAIN a = 1..n /\ DOMAIN b = 1..Len(s) - n
  BY <1>2, <1>3, <1>4, <1>5, LenProperties
<1>7. \A i \in 1..Len(s) : i \in 1..n \/ (i - n \in 1..Len(s) - n /\ n + (i - n) = i)
  BY <1>1
<1>8. \A i \in 1..n : i \in 1..Len(s)
  BY <1>1
<1>9. \A i \in 1..Len(s) - n : n + i \in 1..Len(s)
  BY <1>1
<1>10. Elements(s) \subseteq Elements(a) \cup Elements(b)
  <2> SUFFICES ASSUME NEW i \in 1..Len(s) PROVE s[i] \in Elements(a) \cup Elements(b)
    BY <1>1 DEF Elements
  <2>1. CASE i \in 1..n
    BY <1>4, <1>6, <2>1 DEF Elements
  <2>2. CASE i \notin 1..n
    <3>1. i - n \in DOMAIN b /\ b[i - n] = s[n + (i - n)] /\ n + (i - n) = i
      BY <1>5, <1>6, <1>7, <2>2
    <3>2. b[i - n] = s[i]
      BY <3>1
    <3> QED BY <3>1, <3>2 DEF Elements
  <2> QED BY <2>1, <2>2
<1>11. Elements(a) \subseteq Elements(s) /\ Elements(b) \subseteq Elements(s)
  <2>1. ASSUME NEW i \in 1..n PROVE a[i] = s[i] /\ i \in DOMAIN s
    BY <1>1, <1>4, <1>8
  <2>2. ASSUME NEW i \in 1..Len(s) - n PROVE b[i] = s[n + i] /\ n + i \in DOMAIN s
    BY <1>1, <1>5, <1>9
  <2> QED BY <1>6, <2>1, <2>2, Zenon DEF Elements
<1> QED BY <1>2, <1>3, <1>4, <1>5, <1>10, <1>11 DEF a, b

LEMMA CutAscending ==
  ASSUME NEW T \in SUBSET Int, NEW s \in Seq(T), Ascending(s), NEW n \in 0..Len(s)
  PROVE  LET a == SubSeq(s, 1, n)
             b == SubSeq(s, n + 1, Len(s))
         IN  /\ a \in Seq(T) /\ b \in Seq(T) /\ Ascending(a) /\ Ascending(b)
             /\ Elements(s) = Elements(a) \cup Elements(b)
             /\ \A x \in Elements(a), y \in Elements(b) : x < y
             /\ n > 0 => s[n] \in Elements(a) /\ \A x \in Elements(a) : x <= s[n]
<1> DEFINE a == SubSeq(s, 1, n)
           b == SubSeq(s, n + 1, Len(s))
<1>1. Len(s) \in Nat /\ DOMAIN s = 1..Len(s) /\ \A i \in 1..Len(s) : s[i] \in T
  BY LenProperties
<1>2. /\ a \in Seq(T) /\ b \in Seq(T) /\ Len(a) = n /\ Len(b) = Len(s) - n
      /\ \A k \in 1..n : a[k] = s[k]
      /\ \A k \in 1..Len(s) - n : b[k] = s[n + k]
      /\ Elements(s) = Elements(a) \cup Elements(b)
  BY Cut
<1> HIDE DEF a, b
<1>3. DOMAIN a = 1..n /\ DOMAIN b = 1..Len(s) - n
  BY <1>2, LenProperties
<1>4. \A k, l \in 1..Len(s) : k < l => s[k] < s[l]
  BY <1>1 DEF Ascending
<1>5. Ascending(a)
  BY <1>1, <1>2, <1>3, <1>4 DEF Ascending
<1>6. Ascending(b)
  <2> SUFFICES ASSUME NEW k \in DOMAIN b, NEW l \in DOMAIN b, k < l PROVE b[k] < b[l]
    BY DEF Ascending
  <2>1. n + k \in 1..Len(s) /\ n + l \in 1..Len(s) /\ n + k < n + l
    BY <1>1, <1>3
  <2>2. b[k] = s[n + k] /\ b[l] = s[n + l]
    BY <1>2, <1>3
  <2> QED BY <1>4, <2>1, <2>2
<1>7. \A x \in Elements(a), y \in Elements(b) : x < y
  <2> SUFFICES ASSUME NEW k \in DOMAIN a, NEW l \in DOMAIN b PROVE a[k] < b[l]
    BY DEF Elements
  <2>1. k \in 1..Len(s) /\ n + l \in 1..Len(s) /\ k < n + l
    BY <1>1, <1>3
  <2>2. a[k] = s[k] /\ b[l] = s[n + l]
    BY <1>2, <1>3
  <2> QED BY <1>4, <2>1, <2>2
<1>8. ASSUME n > 0 PROVE s[n] \in Elements(a) /\ \A x \in Elements(a) : x <= s[n]
  <2>1. n \in 1..n /\ a[n] = s[n]
    BY <1>2, <1>8
  <2>2. \A k \in 1..n : k = n \/ s[k] < s[n]
    BY <1>1, <1>4
  <2>3. \A k \in 1..n : k \in 1..Len(s) /\ s[k] \in Int
    <3>1. \A k \in 1..n : k \in 1..Len(s)
      BY <1>1
    <3> QED BY <1>1, <3>1
  <2>4. \A k \in 1..n : a[k] <= s[n]
    BY <1>2, <2>1, <2>2, <2>3
  <2> QED BY <1>3, <2>1, <2>4 DEF Elements
<1> QED BY <1>2, <1>5, <1>6, <1>7, <1>8 DEF a, b

\* Any sequence grown by an element.
LEMMA AppendsElement ==
  ASSUME NEW T, NEW s \in Seq(T), NEW x
  PROVE  /\ Append(s, x) \in Seq(Elements(Append(s, x)))
         /\ Elements(Append(s, x)) = Elements(s) \cup {x}
<1> DEFINE t == Append(s, x)
<1>1. s \in Seq(T \cup {x}) /\ x \in T \cup {x}
  OBVIOUS
<1>2. /\ t \in Seq(T \cup {x}) /\ Len(t) = Len(s) + 1 /\ \A i \in 1..Len(s) : t[i] = s[i]
      /\ t[Len(s) + 1] = x
  BY <1>1, AppendProperties
<1>3. /\ Len(s) \in Nat /\ DOMAIN s = 1..Len(s) /\ Len(t) \in Nat /\ DOMAIN t = 1..Len(t)
      /\ t = [i \in 1..Len(t) |-> t[i]]
  BY <1>2, LenProperties
<1> HIDE DEF t
<1>4. Elements(t) = Elements(s) \cup {x}
  BY <1>2, <1>3 DEF Elements
<1>5. t \in [1..Len(t) -> Elements(t)]
  BY <1>3 DEF Elements
<1>6. t \in Seq(Elements(t))
  BY <1>3, <1>5, SeqDef
<1> QED BY <1>4, <1>6 DEF t

-----------------------------------------------------------------------------
(* What is kept: the Kafka writer.                                         *)

InTopic(i) ==
  Kafka!HasRecord(log[i]) => i \in Elements(topic[Kafka!PartitionOfChange(log[i])])

\* The sender holds, in order, what the listener has handed over behind a position.
KafkaShape ==
  /\ Len(log) \in Nat /\ DOMAIN log = 1..Len(log)
  /\ \A i \in DOMAIN log : log[i] \in [schema : Schema, kind : Kafka!ChangeKind]
  /\ next \in 1..Len(log) + 1 /\ confirmed \in 0..Len(log) /\ confirmed < next
  /\ pending \in Seq(DOMAIN log) /\ Ascending(pending)
  /\ \A i \in Elements(pending) :
       /\ confirmed < i /\ i < next
       /\ \A j \in i..next - 1 : Kafka!HasRecord(log[j]) => j \in Elements(pending)
  /\ topic \in [Partition -> Seq(DOMAIN log)]

KafkaSent ==
  /\ \A i \in 1..confirmed : InTopic(i)
  /\ writer = "running" => \A i \in 1..next - 1 : InTopic(i) \/ i \in Elements(pending)

\* A record of i stands behind every one of j.
Overtakes(p, i, j) ==
  \E o \in DOMAIN topic[p] : topic[p][o] = i /\ \A q \in DOMAIN topic[p] : topic[p][q] = j => q < o

\* A record is behind those of a later change only while that change is to be sent
\* again.
KafkaInOrder ==
  \A i, j \in DOMAIN log :
    i < j /\ Kafka!HasRecord(log[j]) /\ Overtakes(Kafka!PartitionOfChange(log[j]), i, j) =>
      /\ confirmed < j
      /\ writer = "running" => j \in Elements(pending) \/ next <= j

-----------------------------------------------------------------------------
(* What is kept: the Kafka reader.                                         *)

Settled == handled \cup logged

ReaderShape ==
  /\ fetched \in [Partition -> Nat] /\ begin \in [Partition -> Nat]
  /\ committed \in [Partition -> Nat \cup {-1}]
  /\ held \in Seq(Partition \X Nat) /\ sink \in {"running", "stopped"}
  /\ StartOffset = "earliest" => \A p \in Partition : begin[p] = 0
  /\ \A k \in DOMAIN held : held[k][2] < Len(topic[held[k][1]])

\* Before each record in the sender is all of its partition that is not settled; so
\* a batch that is committed leaves nothing behind.
ReaderFlow ==
  /\ \A p \in Partition : \A o \in begin[p]..committed[p] - 1 : <<p, o>> \in Settled
  /\ \A k \in DOMAIN held : \A o \in begin[held[k][1]]..held[k][2] - 1 :
       <<held[k][1], o>> \in Settled \/ \E l \in 1..k - 1 : held[l] = <<held[k][1], o>>
  /\ reader = "running" /\ sink = "running" =>
       \A p \in Partition : \A o \in begin[p]..fetched[p] - 1 :
         <<p, o>> \in Settled \/ <<p, o>> \in Elements(held)

KafkaInv == KafkaShape /\ KafkaSent /\ KafkaInOrder /\ ReaderShape /\ ReaderFlow

-----------------------------------------------------------------------------
(* What is kept: the search indexer.                                       *)

SearchAccounted(i) ==
  \/ i \in written \cup lost \/ log[i].op = "keepAlive" \/ log[i].flaw = "skip"
  \/ i \in dropped /\ \E j \in lost : j < i /\ log[j].op \in Search!DiffOps

SearchShape ==
  /\ Len(log) \in Nat /\ DOMAIN log = 1..Len(log)
  /\ next \in 1..Len(log) + 1 /\ confirmed \in 0..Len(log) /\ confirmed < next
  /\ {pending, batch, rest, todo} \subseteq Seq(DOMAIN log)
  /\ Ascending(pending) /\ Ascending(batch) /\ Ascending(rest)
  /\ \A i \in Elements(pending) : i < next /\ \A j \in Elements(batch) : j < i
  /\ \A i \in Elements(batch) : i < next
  /\ Elements(rest) \cup Elements(todo) \subseteq Elements(batch)

\* What a running indexer was given is accounted for or still in it.
SearchFlow ==
  /\ \A i \in 1..confirmed : SearchAccounted(i)
  /\ indexer = "running" => \A i \in 1..next - 1 :
       SearchAccounted(i) \/ i \in Elements(pending) \cup Elements(rest) \cup Elements(todo)

SearchInv == SearchShape /\ SearchFlow

-----------------------------------------------------------------------------
(* What is kept: the webhook notifier.                                     *)

AllCalled(i) == \A s \in due[i] : <<i, s>> \in called
HasMessage == call.state \in {"acquiring", "handing"}

WebhookShape ==
  /\ Len(log) \in Nat /\ DOMAIN log = 1..Len(log)
  /\ next \in 1..Len(log) + 1 /\ confirmed \in 0..Len(log) /\ confirmed < next
  /\ due = [i \in DOMAIN log |-> due[i]]
  /\ call = [state |-> call.state, at |-> call.at, to |-> call.to]
  /\ HasMessage => call.at = next - 1 /\ call.at \in DOMAIN log /\ due[call.at] \subseteq call.to

\* One message is looked up and handed over, one is notified, and what was before
\* them is done.
WebhookFlow ==
  /\ \A i \in 1..confirmed : AllCalled(i)
  /\ inflight.state = "notifying" =>
       /\ inflight.at \in DOMAIN log /\ inflight.at < (IF HasMessage THEN next - 1 ELSE next)
       /\ \A i \in 1..inflight.at - 1 : AllCalled(i)
       /\ \A s \in due[inflight.at] : <<inflight.at, s>> \in called \/ s \in sending
  /\ inflight.state # "stopped" /\ call.state # "failed" =>
       \A i \in 1..(IF HasMessage THEN next - 2 ELSE next - 1) :
         AllCalled(i) \/ (inflight.state = "notifying" /\ i = inflight.at)

WebhookInv == WebhookShape /\ WebhookFlow

-----------------------------------------------------------------------------
(* What is kept: the standard output.                                      *)

StdoutInv ==
  /\ Len(log) \in Nat /\ DOMAIN log = 1..Len(log) /\ log \in Seq(BOOLEAN)
  /\ next \in 1..Len(log) + 1 /\ confirmed \in 0..Len(log) /\ confirmed < next
  /\ out \in Seq(DOMAIN log)
  /\ \A i \in 1..next - 1 : log[i] => i \in Elements(out)
  /\ \A n \in DOMAIN out : \A j \in 1..out[n] : log[j] => \E m \in 1..n : out[m] = j

ProcessorInv ==
  /\ target \in Configured
  /\ target = "kafka" => KafkaInv
  /\ target = "search" => SearchInv
  /\ target = "webhook" => WebhookInv
  /\ target = "stdout" => StdoutInv

-----------------------------------------------------------------------------
(* The standard output.                                                    *)

LEMMA StdoutStarts == Stdout!StdoutInit => StdoutInv
<1> SUFFICES ASSUME Stdout!StdoutInit PROVE StdoutInv
  OBVIOUS
<1>1. /\ log \in Seq(BOOLEAN) /\ next = 1 /\ confirmed = 0 /\ out = <<>>
      /\ <<>> \in Seq(DOMAIN log)
  BY TargetsAssumption, EmptySeq DEF TargetsAssumption, Stdout!StdoutAssumption, Stdout!StdoutInit
<1>2. Len(log) \in Nat /\ DOMAIN log = 1..Len(log)
  BY <1>1, LenProperties
<1> QED BY <1>1, <1>2 DEF StdoutInv

LEMMA StdoutPrints ==
  ASSUME StdoutInv, next \in DOMAIN log, Stdout!Printed
  PROVE  /\ out' \in Seq(DOMAIN log)
         /\ \A i \in 1..next : log[i] => i \in Elements(out')
         /\ \A n \in DOMAIN out' : \A j \in 1..out'[n] : log[j] => \E m \in 1..n : out'[m] = j
<1>1. /\ DOMAIN log = 1..Len(log) /\ out \in Seq(DOMAIN log) /\ next \in Nat
      /\ \A i \in 1..next - 1 : log[i] => i \in Elements(out)
      /\ \A n \in DOMAIN out : \A j \in 1..out[n] : log[j] => \E m \in 1..n : out[m] = j
  BY DEF StdoutInv
<1>2. CASE log[next]
  <2>1. out' = Append(out, next)
    BY <1>2 DEF Stdout!Printed
  <2>2. /\ out' \in Seq(DOMAIN log) /\ Len(out') = Len(out) + 1
        /\ \A i \in 1..Len(out) : out'[i] = out[i]
        /\ out'[Len(out) + 1] = next
    BY <1>1, <2>1, AppendProperties
  <2>3. /\ Len(out) \in Nat /\ DOMAIN out = 1..Len(out) /\ DOMAIN out' = 1..Len(out) + 1
        /\ \A i \in DOMAIN out : out[i] \in DOMAIN log
    BY <1>1, <2>2, LenProperties
  <2>4. Elements(out') = Elements(out) \cup {next}
    BY <1>1, <2>1, AppendElements
  <2>5. \A i \in 1..next : log[i] => i \in Elements(out')
    BY <1>1, <2>4
  <2>6. ASSUME NEW n \in DOMAIN out', NEW j \in 1..out'[n], log[j]
        PROVE  \E m \in 1..n : out'[m] = j
    <3>1. CASE n = Len(out) + 1
      <4>1. j \in 1..next /\ j \in Elements(out')
        BY <2>2, <2>5, <2>6, <3>1
      <4>2. PICK m \in DOMAIN out' : out'[m] = j
        BY <4>1 DEF Elements
      <4> QED BY <2>3, <3>1, <4>2
    <3>2. CASE n # Len(out) + 1
      <4>1. n \in 1..Len(out) /\ out'[n] = out[n]
        BY <2>2, <2>3, <3>2
      <4>2. PICK m \in 1..n : out[m] = j
        BY <1>1, <2>3, <2>6, <4>1
      <4>3. m \in 1..Len(out)
        BY <2>3, <4>1
      <4> QED BY <2>2, <4>2, <4>3
    <3> QED BY <3>1, <3>2
  <2> QED BY <2>2, <2>5, <2>6
<1>3. CASE ~log[next]
  <2>1. out' = out
    BY <1>3 DEF Stdout!Printed
  <2>2. \A i \in 1..next : i = next \/ i \in 1..next - 1
    BY <1>1
  <2> QED BY <1>1, <1>3, <2>1, <2>2
<1> QED BY <1>2, <1>3

LEMMA StdoutSteps == StdoutInv /\ Stdout!StdoutNext => StdoutInv'
<1> SUFFICES ASSUME StdoutInv, Stdout!StdoutNext PROVE StdoutInv'
  OBVIOUS
<1>1. /\ Len(log) \in Nat /\ DOMAIN log = 1..Len(log) /\ next \in 1..Len(log) + 1
      /\ confirmed \in 0..Len(log) /\ confirmed < next
  BY DEF StdoutInv
<1>2. CASE \/ Stdout!Restart
           \/ log[next] /\ next' = confirmed + 1 /\ UNCHANGED <<log, confirmed, out>>
  <2>1. next' = confirmed + 1 /\ UNCHANGED <<log, confirmed, out>>
    BY <1>2 DEF Stdout!Restart
  <2>2. next' \in 1..Len(log) + 1 /\ confirmed < next' /\ \A i \in 1..next' - 1 : i \in 1..next - 1
    BY <1>1, <2>1
  <2> QED BY <2>1, <2>2 DEF StdoutInv
<1>3. CASE /\ next <= Len(log) /\ Stdout!Printed /\ next' = next + 1
           /\ confirmed' \in {confirmed, next} /\ UNCHANGED log
  <2>1. next \in DOMAIN log /\ next' \in 1..Len(log) + 1 /\ next' - 1 = next
        /\ confirmed' \in 0..Len(log) /\ confirmed' < next'
    BY <1>1, <1>3
  <2>2. /\ out' \in Seq(DOMAIN log)
        /\ \A i \in 1..next : log[i] => i \in Elements(out')
        /\ \A n \in DOMAIN out' : \A j \in 1..out'[n] : log[j] => \E m \in 1..n : out'[m] = j
    BY <1>3, <2>1, StdoutPrints
  <2>3. log' = log
    BY <1>3
  <2> QED BY <2>1, <2>2, <2>3 DEF StdoutInv, Elements
<1> QED BY <1>2, <1>3 DEF Stdout!StdoutNext, Stdout!ProcessWALEvent

LEMMA StdoutKeeps == StdoutInv => Stdout!WrittenInOrder
<1> SUFFICES ASSUME StdoutInv, NEW i \in DOMAIN log, log[i]
             PROVE  /\ i <= confirmed => i \in Stdout!Range(out)
                    /\ \A n \in DOMAIN out : out[n] = i =>
                         \A j \in 1..i : log[j] => \E m \in 1..n : out[m] = j
  BY DEF Stdout!WrittenInOrder
<1>1. i <= confirmed => i \in Elements(out)
  BY DEF StdoutInv
<1>2. Elements(out) = Stdout!Range(out)
  BY DEF Elements, Stdout!Range
<1> QED BY <1>1, <1>2 DEF StdoutInv

-----------------------------------------------------------------------------
(* The webhook notifier.                                                   *)

LEMMA WebhookStarts == Webhook!WebhookInit => WebhookInv
<1> SUFFICES ASSUME Webhook!WebhookInit PROVE WebhookInv
  OBVIOUS
<1>1. /\ log \in Seq([data : BOOLEAN, action : STRING, schema : STRING])
      /\ next = 1 /\ confirmed = 0 /\ call = Webhook!Nothing("idle")
      /\ inflight = Webhook!Nothing("waiting") /\ due = [i \in DOMAIN log |-> {}]
  BY TargetsAssumption DEF TargetsAssumption, Webhook!WebhookAssumption, Webhook!WebhookInit
<1>2. Len(log) \in Nat /\ DOMAIN log = 1..Len(log)
  BY <1>1, LenProperties
<1>3. /\ call = [state |-> "idle", at |-> 0, to |-> {}]
      /\ inflight = [state |-> "waiting", at |-> 0, to |-> {}]
  BY <1>1 DEF Webhook!Nothing
<1>4. ~HasMessage /\ inflight.state # "notifying"
  BY <1>3 DEF HasMessage
<1>5. call = [state |-> call.state, at |-> call.at, to |-> call.to]
  BY <1>3
<1>6. due = [i \in DOMAIN log |-> due[i]]
  BY <1>1
<1>7. WebhookShape
  BY <1>1, <1>2, <1>4, <1>5, <1>6 DEF WebhookShape
<1>8. 1..confirmed = {} /\ 1..next - 1 = {}
  BY <1>1
<1>9. WebhookFlow
  BY <1>4, <1>8 DEF WebhookFlow
<1> QED BY <1>7, <1>9 DEF WebhookInv

LEMMA WebhookLookup == WebhookInv /\ Webhook!Lookup => WebhookInv'
<1> SUFFICES ASSUME WebhookInv, Webhook!Lookup PROVE WebhookInv'
  OBVIOUS
<1>1. /\ call.state = "idle" /\ next <= Len(log) /\ ~HasMessage
      /\ UNCHANGED <<log, confirmed, inflight, sending, called>>
  BY DEF Webhook!Lookup, Webhook!notifierVars, HasMessage
<1>2. /\ Len(log) \in Nat /\ DOMAIN log = 1..Len(log) /\ next \in DOMAIN log
      /\ confirmed \in 0..Len(log) /\ confirmed < next
      /\ due = [i \in DOMAIN log |-> due[i]]
  BY <1>1 DEF WebhookInv, WebhookShape
<1>3. /\ \A i \in 1..confirmed : AllCalled(i)
      /\ inflight.state = "notifying" =>
           /\ inflight.at \in DOMAIN log /\ inflight.at < next
           /\ \A i \in 1..inflight.at - 1 : AllCalled(i)
           /\ \A s \in due[inflight.at] : <<inflight.at, s>> \in called \/ s \in sending
      /\ inflight.state # "stopped" => \A i \in 1..next - 1 :
           AllCalled(i) \/ (inflight.state = "notifying" /\ i = inflight.at)
  BY <1>1 DEF WebhookInv, WebhookFlow
<1>4. CASE call' = Webhook!Nothing("failed") /\ UNCHANGED <<due, next>>
  <2>1. call' = [state |-> "failed", at |-> 0, to |-> {}]
    BY <1>4 DEF Webhook!Nothing
  <2>2. ~HasMessage' /\ call'.state = "failed"
        /\ call' = [state |-> call'.state, at |-> call'.at, to |-> call'.to]
    BY <2>1 DEF HasMessage
  <2>3. WebhookShape'
    BY <1>1, <1>2, <1>4, <2>2 DEF WebhookShape
  <2>4. WebhookFlow'
    BY <1>1, <1>3, <1>4, <2>2 DEF WebhookFlow, AllCalled
  <2> QED BY <2>3, <2>4 DEF WebhookInv
<1>5. ASSUME NEW to, call' = [state |-> "acquiring", at |-> next, to |-> to],
             due' = [due EXCEPT ![next] = to \cap stored], next' = next + 1
      PROVE  WebhookInv'
  <2>1. HasMessage' /\ call'.at = next /\ call'.to = to /\ call'.state # "failed"
        /\ call' = [state |-> call'.state, at |-> call'.at, to |-> call'.to]
    BY <1>5 DEF HasMessage
  <2>2. /\ due' = [i \in DOMAIN log |-> due'[i]] /\ due'[next] = to \cap stored
        /\ \A i \in DOMAIN log : i # next => due'[i] = due[i]
    BY <1>2, <1>5
  <2>3. /\ next' \in 1..Len(log) + 1 /\ confirmed < next' /\ next' - 1 = next
        /\ next' - 2 = next - 1
    BY <1>2, <1>5
  <2>4. WebhookShape'
    <3>1. due'[call'.at] \subseteq call'.to
      BY <2>1, <2>2
    <3> QED BY <1>1, <1>2, <2>1, <2>2, <2>3, <3>1 DEF WebhookShape
  <2>5. \A i \in 1..next - 1 : AllCalled(i) => AllCalled(i)'
    <3>1. \A i \in 1..next - 1 : i \in DOMAIN log /\ i # next
      BY <1>2
    <3> QED BY <1>1, <2>2, <3>1 DEF AllCalled
  <2>6. \A i \in 1..confirmed : AllCalled(i)'
    <3>1. \A i \in 1..confirmed : i \in 1..next - 1
      BY <1>2
    <3> QED BY <1>3, <2>5, <3>1
  <2>7. ASSUME inflight.state = "notifying"
        PROVE  /\ inflight.at \in DOMAIN log /\ inflight.at < next
               /\ \A i \in 1..inflight.at - 1 : AllCalled(i)'
               /\ \A s \in due'[inflight.at] : <<inflight.at, s>> \in called \/ s \in sending
    <3>1. inflight.at \in DOMAIN log /\ inflight.at < next
      BY <1>3, <2>7
    <3>2. \A i \in 1..inflight.at - 1 : i \in 1..next - 1
      BY <1>2, <3>1
    <3>3. due'[inflight.at] = due[inflight.at]
      BY <1>2, <2>2, <3>1
    <3> QED BY <1>3, <2>5, <2>7, <3>1, <3>2, <3>3
  <2>8. WebhookFlow'
    BY <1>1, <1>3, <2>1, <2>3, <2>5, <2>6, <2>7 DEF WebhookFlow
  <2> QED BY <2>4, <2>8 DEF WebhookInv
<1> QED BY <1>4, <1>5 DEF Webhook!Lookup

\* The message that is looked up is given up.
LEMMA WebhookRefuses ==
  ASSUME WebhookInv, HasMessage, call' = [call EXCEPT !.state = "failed"],
         UNCHANGED <<log, next, confirmed, inflight, sending, due, called>>
  PROVE  WebhookInv'
<1>1. /\ Len(log) \in Nat /\ next \in 1..Len(log) + 1 /\ next \in Int
      /\ call = [state |-> call.state, at |-> call.at, to |-> call.to]
  BY DEF WebhookInv, WebhookShape
<1>2. ~HasMessage' /\ call'.state = "failed"
      /\ call' = [state |-> call'.state, at |-> call'.at, to |-> call'.to]
  BY <1>1 DEF HasMessage
<1>3. WebhookShape'
  BY <1>2 DEF WebhookInv, WebhookShape
<1>4. inflight.state = "notifying" => inflight.at < next
  <2>1. inflight.state = "notifying" => inflight.at \in 1..Len(log) /\ inflight.at < next - 1
    BY DEF WebhookInv, WebhookShape, WebhookFlow
  <2> QED BY <1>1, <2>1
<1>5. WebhookFlow'
  BY <1>2, <1>4 DEF WebhookInv, WebhookFlow, AllCalled
<1> QED BY <1>3, <1>5 DEF WebhookInv

LEMMA WebhookAcquires == WebhookInv /\ Webhook!Acquire => WebhookInv'
<1> SUFFICES ASSUME WebhookInv, Webhook!Acquire PROVE WebhookInv'
  OBVIOUS
<1>1. /\ HasMessage /\ UNCHANGED <<log, next, confirmed, inflight, sending, due, called>>
      /\ call = [state |-> call.state, at |-> call.at, to |-> call.to]
  BY DEF Webhook!Acquire, HasMessage, WebhookInv, WebhookShape
<1>2. CASE call' = [call EXCEPT !.state = "handing"]
  <2>1. HasMessage' /\ call'.at = call.at /\ call'.to = call.to /\ call'.state # "failed"
        /\ call' = [state |-> call'.state, at |-> call'.at, to |-> call'.to]
    BY <1>1, <1>2 DEF HasMessage
  <2>2. call.state # "failed"
    BY <1>1 DEF HasMessage
  <2>3. WebhookShape'
    BY <1>1, <2>1 DEF WebhookInv, WebhookShape
  <2>4. WebhookFlow'
    BY <1>1, <2>1, <2>2 DEF WebhookInv, WebhookFlow, AllCalled
  <2> QED BY <2>3, <2>4 DEF WebhookInv
<1>3. CASE call' = [call EXCEPT !.state = "failed"]
  BY <1>1, <1>3, WebhookRefuses
<1> QED BY <1>2, <1>3 DEF Webhook!Acquire

LEMMA WebhookTakes == WebhookInv /\ Webhook!Take => WebhookInv'
<1> SUFFICES ASSUME WebhookInv, Webhook!Take PROVE WebhookInv'
  OBVIOUS
<1>1. /\ HasMessage /\ call.state = "handing" /\ inflight.state = "waiting"
      /\ inflight' = [state |-> "notifying", at |-> call.at, to |-> call.to]
      /\ sending' = call.to /\ call' = [state |-> "idle", at |-> 0, to |-> {}]
      /\ UNCHANGED <<log, next, confirmed, due, called>>
  BY DEF Webhook!Take, Webhook!Nothing, HasMessage
<1>2. /\ Len(log) \in Nat /\ DOMAIN log = 1..Len(log) /\ next \in 1..Len(log) + 1
      /\ call.at = next - 1 /\ call.at \in DOMAIN log /\ due[call.at] \subseteq call.to
  BY <1>1 DEF WebhookInv, WebhookShape
<1>3. (\A i \in 1..confirmed : AllCalled(i)) /\ \A i \in 1..next - 2 : AllCalled(i)
  BY <1>1 DEF WebhookInv, WebhookFlow
<1>4. ~HasMessage' /\ call' = [state |-> call'.state, at |-> call'.at, to |-> call'.to]
  BY <1>1 DEF HasMessage
<1>5. inflight'.state = "notifying" /\ inflight'.at = next - 1
  BY <1>1, <1>2
<1>6. WebhookShape'
  BY <1>1, <1>4 DEF WebhookInv, WebhookShape
<1>7. /\ next - 1 < next /\ \A i \in 1..(next - 1) - 1 : i \in 1..next - 2
      /\ \A i \in 1..next - 1 : i \in 1..next - 2 \/ i = next - 1
  BY <1>2
<1>8. \A i : AllCalled(i) => AllCalled(i)'
  BY <1>1 DEF AllCalled
<1>9. /\ inflight'.at \in DOMAIN log
      /\ \A s \in due[inflight'.at] : s \in sending'
  BY <1>1, <1>2, <1>5
<1>10. WebhookFlow'
  BY <1>1, <1>3, <1>4, <1>5, <1>7, <1>8, <1>9 DEF WebhookFlow
<1> QED BY <1>6, <1>10 DEF WebhookInv

LEMMA WebhookSends == ASSUME WebhookInv, NEW s, Webhook!SendWebhook(s) PROVE WebhookInv'
<1>1. /\ inflight.state = "notifying" /\ sending' = sending \ {s}
      /\ called' = called \cup {<<inflight.at, s>>}
      /\ UNCHANGED <<log, next, confirmed, call, inflight, due>>
  BY DEF Webhook!SendWebhook
<1>2. WebhookShape'
  BY <1>1 DEF WebhookInv, WebhookShape, HasMessage
<1>3. \A i : AllCalled(i) => AllCalled(i)'
  BY <1>1 DEF AllCalled
<1>4. \A r \in due[inflight.at] : <<inflight.at, r>> \in called' \/ r \in sending'
  BY <1>1 DEF WebhookInv, WebhookFlow
<1>5. WebhookFlow'
  BY <1>1, <1>3, <1>4 DEF WebhookInv, WebhookFlow, HasMessage
<1> QED BY <1>2, <1>5 DEF WebhookInv

LEMMA WebhookCheckpoints == WebhookInv /\ Webhook!Checkpoint => WebhookInv'
<1> SUFFICES ASSUME WebhookInv, Webhook!Checkpoint PROVE WebhookInv'
  OBVIOUS
<1>1. /\ inflight.state = "notifying" /\ sending = {}
      /\ UNCHANGED <<log, next, call, sending, due, called>>
  BY DEF Webhook!Checkpoint
<1>2. /\ Len(log) \in Nat /\ DOMAIN log = 1..Len(log) /\ next \in 1..Len(log) + 1
      /\ confirmed \in 0..Len(log) /\ confirmed < next
      /\ inflight.at \in DOMAIN log /\ inflight.at < (IF HasMessage THEN next - 1 ELSE next)
  BY <1>1 DEF WebhookInv, WebhookShape, WebhookFlow
<1>3. AllCalled(inflight.at) /\ \A i \in 1..inflight.at - 1 : AllCalled(i)
  BY <1>1 DEF WebhookInv, WebhookFlow, AllCalled
<1>4. \A i \in 1..inflight.at : AllCalled(i)
  <2>1. \A i \in 1..inflight.at : i = inflight.at \/ i \in 1..inflight.at - 1
    BY <1>2
  <2> QED BY <1>3, <2>1
<1>5. UNCHANGED HasMessage /\ \A i : AllCalled(i) => AllCalled(i)'
  BY <1>1 DEF AllCalled, HasMessage
<1>6. call.state # "failed" => \A i \in 1..(IF HasMessage THEN next - 2 ELSE next - 1) :
        AllCalled(i)
  BY <1>1, <1>3 DEF WebhookInv, WebhookFlow
<1>7. CASE confirmed' = inflight.at /\ inflight' = Webhook!Nothing("waiting")
  <2>1. inflight'.state = "waiting"
    BY <1>7 DEF Webhook!Nothing
  <2>2. confirmed' \in 0..Len(log) /\ confirmed' < next
    BY <1>2, <1>7
  <2>3. WebhookShape'
    BY <1>1, <1>5, <2>2 DEF WebhookInv, WebhookShape
  <2>4. \A i \in 1..confirmed' : AllCalled(i)'
    BY <1>4, <1>5, <1>7
  <2>5. WebhookFlow'
    BY <1>1, <1>5, <1>6, <2>1, <2>4 DEF WebhookFlow
  <2> QED BY <2>3, <2>5 DEF WebhookInv
<1>8. CASE inflight' = Webhook!Nothing("stopped") /\ UNCHANGED confirmed
  <2>1. inflight'.state = "stopped"
    BY <1>8 DEF Webhook!Nothing
  <2>2. WebhookShape'
    BY <1>1, <1>5, <1>8 DEF WebhookInv, WebhookShape
  <2>3. \A i \in 1..confirmed' : AllCalled(i)'
    BY <1>5, <1>8 DEF WebhookInv, WebhookFlow
  <2>4. WebhookFlow'
    BY <2>1, <2>3 DEF WebhookFlow
  <2> QED BY <2>2, <2>4 DEF WebhookInv
<1> QED BY <1>7, <1>8 DEF Webhook!Checkpoint

LEMMA WebhookRestarts == WebhookInv /\ Webhook!Restart => WebhookInv'
<1> SUFFICES ASSUME WebhookInv, Webhook!Restart PROVE WebhookInv'
  OBVIOUS
<1>1. /\ next' = confirmed + 1 /\ call' = [state |-> "idle", at |-> 0, to |-> {}]
      /\ inflight' = [state |-> "waiting", at |-> 0, to |-> {}]
      /\ UNCHANGED <<log, confirmed, due, called>>
  BY DEF Webhook!Restart, Webhook!Nothing
<1>2. ~HasMessage' /\ inflight'.state = "waiting"
      /\ call' = [state |-> call'.state, at |-> call'.at, to |-> call'.to]
  BY <1>1 DEF HasMessage
<1>3. Len(log) \in Nat /\ confirmed \in 0..Len(log)
  BY DEF WebhookInv, WebhookShape
<1>4. next' \in 1..Len(log) + 1 /\ confirmed < next' /\ next' - 1 = confirmed
  BY <1>1, <1>3
<1>5. WebhookShape'
  BY <1>1, <1>2, <1>4 DEF WebhookInv, WebhookShape
<1>6. \A i \in 1..confirmed : AllCalled(i)'
  <2>1. \A i \in 1..confirmed : AllCalled(i)
    BY DEF WebhookInv, WebhookFlow
  <2>2. \A i : AllCalled(i) => AllCalled(i)'
    BY <1>1 DEF AllCalled
  <2> QED BY <2>1, <2>2
<1>7. WebhookFlow'
  BY <1>1, <1>2, <1>4, <1>6 DEF WebhookFlow
<1> QED BY <1>5, <1>7 DEF WebhookInv

LEMMA WebhookSteps == WebhookInv /\ Webhook!WebhookNext => WebhookInv'
<1> SUFFICES ASSUME WebhookInv, Webhook!WebhookNext PROVE WebhookInv'
  OBVIOUS
<1>1. CASE Webhook!StopNotify
  <2>1. /\ inflight.state = "waiting" /\ inflight'.state = "stopped"
        /\ UNCHANGED <<log, next, confirmed, call, due, called>>
    BY <1>1 DEF Webhook!StopNotify, Webhook!Nothing
  <2>2. WebhookShape'
    BY <2>1 DEF WebhookInv, WebhookShape, HasMessage
  <2>3. WebhookFlow'
    BY <2>1 DEF WebhookInv, WebhookFlow, HasMessage, AllCalled
  <2> QED BY <2>2, <2>3 DEF WebhookInv
<1>2. CASE UNCHANGED <<log, next, confirmed, call, inflight, sending, due, called>>
  BY <1>2 DEF WebhookInv, WebhookShape, WebhookFlow, HasMessage, AllCalled
<1>3. CASE Webhook!Refuse
  BY <1>3, WebhookRefuses DEF Webhook!Refuse, Webhook!notifierVars, HasMessage
<1>4. ASSUME NEW s, Webhook!Subscribe(s) PROVE WebhookInv'
  BY <1>2, <1>4 DEF Webhook!Subscribe, Webhook!notifierVars
<1>5. ASSUME NEW how, Webhook!Shutdown(how) PROVE WebhookInv'
  BY <1>2, <1>5 DEF Webhook!Shutdown, Webhook!notifierVars
<1>6. CASE Webhook!RefreshReads \/ Webhook!RefreshStores
  BY <1>2, <1>6 DEF Webhook!RefreshReads, Webhook!RefreshStores, Webhook!notifierVars
<1> QED
  BY <1>1, <1>3, <1>4, <1>5, <1>6, WebhookLookup, WebhookAcquires, WebhookTakes, WebhookSends,
     WebhookCheckpoints, WebhookRestarts DEF Webhook!WebhookNext

LEMMA WebhookKeeps == WebhookInv => Webhook!ConfirmedIsCalled
<1> SUFFICES ASSUME WebhookInv PROVE Webhook!ConfirmedIsCalled
  OBVIOUS
<1>1. \A i \in 1..confirmed : AllCalled(i)
  BY DEF WebhookInv, WebhookFlow
<1> QED BY <1>1 DEF AllCalled, Webhook!ConfirmedIsCalled

-----------------------------------------------------------------------------
(* The search indexer.                                                     *)

LEMMA EmptyElements == Elements(<<>>) = {} /\ Ascending(<<>>) /\ \A T : <<>> \in Seq(T)
BY EmptySeq DEF Elements, Ascending

LEMMA ElementsIn == ASSUME NEW T, NEW s \in Seq(T) PROVE Elements(s) \subseteq T
BY LenProperties DEF Elements

LEMMA SearchStarts == Search!SearchInit => SearchInv
<1> SUFFICES ASSUME Search!SearchInit PROVE SearchInv
  OBVIOUS
<1>1. /\ log \in Seq(Search!Change) /\ next = 1 /\ confirmed = 0
      /\ pending = <<>> /\ batch = <<>> /\ rest = <<>> /\ todo = <<>>
  BY TargetsAssumption DEF TargetsAssumption, Search!SearchAssumption, Search!SearchInit
<1>2. Len(log) \in Nat /\ DOMAIN log = 1..Len(log)
  BY <1>1, LenProperties
<1>3. SearchShape
  <2>1. \A T : <<>> \in Seq(T)
    BY EmptyElements
  <2>2. {pending, batch, rest, todo} \subseteq Seq(DOMAIN log)
    BY <1>1, <2>1
  <2> QED BY <1>1, <1>2, <2>2, EmptyElements DEF SearchShape
<1>4. 1..confirmed = {} /\ 1..next - 1 = {}
  BY <1>1
<1> QED BY <1>3, <1>4 DEF SearchInv, SearchFlow

\* Load cuts the messages in two.
LEMMA SearchLoads ==
  ASSUME NEW messages \in Seq(DOMAIN log), DOMAIN log \subseteq Int, Ascending(messages),
         Search!Load(messages)
  PROVE  /\ todo' \in Seq(DOMAIN log) /\ rest' \in Seq(DOMAIN log) /\ Ascending(rest')
         /\ Elements(messages) = Elements(todo') \cup Elements(rest')
         /\ \A i \in Elements(todo'), j \in Elements(rest') : i < j
         /\ \A i \in Elements(todo') : Search!IsWrite(i)
<1> DEFINE Ends(m) == m = Len(messages) \/ ~Search!IsWrite(messages[m + 1])
           Stop(m) == (\A j \in 1..m : Search!IsWrite(messages[j])) /\ Ends(m)
           S == {m \in 0..Len(messages) : Ends(m)}
           n == CHOOSE m \in 0..Len(messages) : Stop(m)
<1>1. Len(messages) \in Nat
  BY LenProperties
<1>2. S \in SUBSET Nat /\ Len(messages) \in S
  BY <1>1
<1>3. PICK m \in S : \A q \in S : m <= q
  <2> HIDE DEF S
  <2> QED BY <1>2, Least
<1>4. m \in 0..Len(messages) /\ Ends(m)
  OBVIOUS
<1>5. \A j \in 1..m : Search!IsWrite(messages[j])
  <2> SUFFICES ASSUME NEW j \in 1..m, ~Search!IsWrite(messages[j]) PROVE FALSE
    OBVIOUS
  <2>1. j - 1 \in 0..Len(messages) /\ j - 1 < m /\ j - 1 + 1 = j
    BY <1>1, <1>4
  <2>2. Ends(j - 1)
    BY <2>1
  <2>3. j - 1 \in S
    BY <2>1, <2>2
  <2>4. m <= j - 1
    <3> HIDE DEF S
    <3> QED BY <1>3, <2>3
  <2> QED BY <1>1, <1>4, <2>1, <2>4
<1>6. n \in 0..Len(messages) /\ \A j \in 1..n : Search!IsWrite(messages[j])
  <2>1. \E k \in 0..Len(messages) : Stop(k)
    BY <1>4, <1>5
  <2>2. n \in 0..Len(messages) /\ Stop(n)
    <3> HIDE DEF Stop
    <3> QED BY <2>1
  <2> HIDE DEF n
  <2> QED BY <2>2
<1>7. /\ todo' = SubSeq(messages, 1, n)
      /\ rest' = SubSeq(messages, n + 1, Len(messages))
  BY DEF Search!Load
<1> HIDE DEF n
<1>8. \A i \in Elements(todo') : Search!IsWrite(i)
  <2>1. Len(todo') = n /\ \A j \in 1..n : todo'[j] = messages[j]
    BY <1>6, <1>7, Cut
  <2>2. DOMAIN todo' = 1..n
    <3>1. todo' \in Seq(DOMAIN log)
      BY <1>6, <1>7, Cut
    <3> QED BY <2>1, <3>1, LenProperties
  <2> QED BY <1>6, <2>1, <2>2 DEF Elements
<1> QED BY <1>6, <1>7, <1>8, CutAscending

\* A step behind the collecting of messages: what it takes from the batch is
\* accounted for.
SearchGrows == written \subseteq written' /\ lost \subseteq lost' /\ dropped \subseteq dropped'

LEMMA SearchGrown ==
  ASSUME SearchGrows, UNCHANGED log
  PROVE  \A i : SearchAccounted(i) => SearchAccounted(i)'
BY DEF SearchGrows, SearchAccounted

LEMMA SearchMoves ==
  ASSUME SearchInv, UNCHANGED <<log, next, pending, confirmed>>, SearchGrows,
         batch' = batch \/ batch' = <<>>,
         rest' \in Seq(DOMAIN log), todo' \in Seq(DOMAIN log), Ascending(rest'),
         Elements(rest') \cup Elements(todo') \subseteq Elements(batch'),
         indexer' = "running" =>
           /\ indexer = "running"
           /\ \A i \in Elements(rest) \cup Elements(todo) :
                SearchAccounted(i)' \/ i \in Elements(rest') \cup Elements(todo')
  PROVE  SearchInv'
<1>1. \A i : SearchAccounted(i) => SearchAccounted(i)'
  BY SearchGrown
<1>2. SearchShape'
  <2>1. /\ batch' \in Seq(DOMAIN log) /\ Ascending(batch')
        /\ Elements(batch') \subseteq Elements(batch)
    BY EmptyElements DEF SearchInv, SearchShape
  <2> QED BY <2>1 DEF SearchInv, SearchShape
<1>3. SearchFlow'
  <2>1. \A i \in 1..confirmed : SearchAccounted(i)'
    BY <1>1 DEF SearchInv, SearchFlow
  <2>2. ASSUME indexer' = "running", NEW i \in 1..next - 1
        PROVE  \/ SearchAccounted(i)'
               \/ i \in Elements(pending) \cup Elements(rest') \cup Elements(todo')
    <3>1. SearchAccounted(i) \/ i \in Elements(pending) \cup Elements(rest) \cup Elements(todo)
      BY <2>2 DEF SearchInv, SearchFlow
    <3> QED BY <1>1, <2>2, <3>1
  <2> QED BY <2>1, <2>2 DEF SearchFlow
<1> QED BY <1>2, <1>3 DEF SearchInv

\* The sender ends.
LEMMA SearchStops ==
  ASSUME SearchInv, UNCHANGED <<log, next, pending, confirmed>>, SearchGrows, Search!Stop
  PROVE  SearchInv'
<1>1. indexer' = "stopped" /\ batch' = <<>> /\ rest' = <<>> /\ todo' = <<>>
  BY DEF Search!Stop
<1>2. rest' \in Seq(DOMAIN log) /\ todo' \in Seq(DOMAIN log) /\ Ascending(rest')
      /\ Elements(rest') = {} /\ Elements(todo') = {} /\ indexer' # "running"
  BY <1>1, EmptyElements
<1> QED BY <1>1, <1>2, SearchMoves

LEMMA SearchProcesses == SearchInv /\ Search!Process => SearchInv'
<1> SUFFICES ASSUME SearchInv, Search!Process PROVE SearchInv'
  OBVIOUS
<1>1. /\ indexer = "running" /\ next <= Len(log)
      /\ UNCHANGED <<log, confirmed, batch, rest, todo, written, lost, dropped>>
  BY DEF Search!Process, Search!inputVars, Search!batchVars, Search!doneVars
<1>2. /\ Len(log) \in Nat /\ DOMAIN log = 1..Len(log) /\ next \in DOMAIN log
      /\ confirmed \in 0..Len(log) /\ confirmed < next /\ pending \in Seq(DOMAIN log)
      /\ Ascending(pending) /\ \A i \in Elements(pending) : i < next
      /\ \A i \in Elements(batch) : i < next
  BY <1>1 DEF SearchInv, SearchShape
<1>3. \A i : SearchAccounted(i)' <=> SearchAccounted(i)
  BY <1>1 DEF SearchAccounted
<1>4. CASE indexer' = "stopped" /\ UNCHANGED <<next, pending>>
  <2>1. SearchShape' BY <1>1, <1>4 DEF SearchInv, SearchShape
  <2>2. SearchFlow' BY <1>1, <1>3, <1>4 DEF SearchInv, SearchFlow
  <2> QED BY <2>1, <2>2 DEF SearchInv
<1>5. ASSUME next' = next + 1, indexer' = indexer
      PROVE  /\ next' \in 1..Len(log) + 1 /\ confirmed < next' /\ next' - 1 = next
             /\ \A i \in Elements(pending) \cup Elements(batch) : i < next'
             /\ \A i \in 1..next : i = next \/ i \in 1..next - 1
  <2>1. Elements(pending) \subseteq Int /\ Elements(batch) \subseteq Int
    <3>1. Elements(pending) \subseteq DOMAIN log /\ Elements(batch) \subseteq DOMAIN log
      BY ElementsIn DEF SearchInv, SearchShape
    <3> QED BY <1>2, <3>1
  <2> QED BY <1>2, <1>5, <2>1
<1>6. CASE log[next].flaw = "skip" /\ next' = next + 1 /\ UNCHANGED <<pending, indexer>>
  <2>1. SearchShape' BY <1>1, <1>2, <1>5, <1>6 DEF SearchInv, SearchShape
  <2>2. \A i : i = next => SearchAccounted(i)'
    BY <1>1, <1>6 DEF SearchAccounted
  <2>3. SearchFlow' BY <1>1, <1>3, <1>5, <1>6, <2>2 DEF SearchInv, SearchFlow
  <2> QED BY <2>1, <2>3 DEF SearchInv
<1>7. CASE next' = next + 1 /\ pending' = Append(pending, next) /\ UNCHANGED indexer
  <2>1. /\ pending' \in Seq(DOMAIN log) /\ Elements(pending') = Elements(pending) \cup {next}
        /\ Ascending(pending')
    <3>1. DOMAIN log \subseteq Int
      BY <1>2
    <3> DEFINE s == Append(pending, next)
    <3>2. s \in Seq(DOMAIN log) /\ Elements(s) = Elements(pending) \cup {next} /\ Ascending(s)
      BY <1>2, <3>1, AppendElements
    <3> HIDE DEF s
    <3>3. pending' = s
      BY <1>7 DEF s
    <3> QED BY <3>2, <3>3
  <2>2. SearchShape' BY <1>1, <1>2, <1>5, <1>7, <2>1 DEF SearchInv, SearchShape
  <2>3. SearchFlow' BY <1>1, <1>3, <1>5, <1>7, <2>1 DEF SearchInv, SearchFlow
  <2> QED BY <2>2, <2>3 DEF SearchInv
<1> QED BY <1>4, <1>6, <1>7 DEF Search!Process

LEMMA SearchSendsBatch ==
  ASSUME SearchInv, NEW n \in DOMAIN pending, Search!SendBatch(n)
  PROVE  SearchInv'
<1> DEFINE messages == Search!Selected(batch', {i \in DOMAIN log : log[i].op # "keepAlive"})
<1>1. /\ indexer = "running" /\ batch = <<>> /\ batch' = SubSeq(pending, 1, n)
      /\ pending' = SubSeq(pending, n + 1, Len(pending)) /\ Search!Load(messages)
      /\ UNCHANGED <<log, next, confirmed, indexer, written, lost, dropped>>
  BY DEF Search!SendBatch, Search!inputVars, Search!doneVars
<1>2. /\ Len(log) \in Nat /\ DOMAIN log = 1..Len(log) /\ DOMAIN log \subseteq Int
      /\ pending \in Seq(DOMAIN log) /\ Ascending(pending)
      /\ Elements(rest) = {} /\ Elements(todo) = {}
      /\ \A i \in Elements(pending) : i < next
  BY <1>1, EmptyElements DEF SearchInv, SearchShape
<1>3. n \in 0..Len(pending)
  BY <1>2, LenProperties
<1>4. /\ batch' \in Seq(DOMAIN log) /\ pending' \in Seq(DOMAIN log)
      /\ Ascending(batch') /\ Ascending(pending')
      /\ Elements(pending) = Elements(batch') \cup Elements(pending')
      /\ \A i \in Elements(batch'), j \in Elements(pending') : i < j
  BY <1>1, <1>2, <1>3, CutAscending
<1>5. /\ messages \in Seq(DOMAIN log) /\ Ascending(messages)
      /\ Elements(messages) = Elements(batch') \cap {i \in DOMAIN log : log[i].op # "keepAlive"}
  <2>1. messages = Selected(batch', {i \in DOMAIN log : log[i].op # "keepAlive"})
    BY DEF Search!Selected, Selected
  <2> HIDE DEF messages
  <2> QED BY <1>2, <1>4, <2>1, SelectedProperties
<1> HIDE DEF messages
<1>6. /\ todo' \in Seq(DOMAIN log) /\ rest' \in Seq(DOMAIN log) /\ Ascending(rest')
      /\ Elements(messages) = Elements(todo') \cup Elements(rest')
  BY <1>1, <1>2, <1>5, SearchLoads
<1>7. SearchShape'
  BY <1>1, <1>2, <1>4, <1>5, <1>6 DEF SearchInv, SearchShape
<1>8. \A i : SearchAccounted(i)' <=> SearchAccounted(i)
  BY <1>1 DEF SearchAccounted
<1>9. SearchFlow'
  <2>1. \A i \in 1..confirmed : SearchAccounted(i)'
    BY <1>8 DEF SearchInv, SearchFlow
  <2>2. ASSUME NEW i \in 1..next - 1
        PROVE  \/ SearchAccounted(i)'
               \/ i \in Elements(pending') \cup Elements(rest') \cup Elements(todo')
    <3>1. SearchAccounted(i) \/ i \in Elements(pending)
      BY <1>1, <1>2 DEF SearchInv, SearchFlow
    <3>2. CASE i \in Elements(batch')
      <4>1. i \in DOMAIN log
        BY <1>4, <3>2, ElementsIn
      <4>2. CASE log[i].op = "keepAlive"
        BY <1>8, <4>2 DEF SearchAccounted
      <4> QED BY <1>5, <1>6, <3>2, <4>1, <4>2
    <3> QED BY <1>4, <1>8, <3>1, <3>2
  <2> QED BY <1>1, <2>1, <2>2 DEF SearchFlow
<1> QED BY <1>7, <1>9 DEF SearchInv

LEMMA SearchParts ==
  ASSUME SearchInv
  PROVE  /\ Len(log) \in Nat /\ DOMAIN log = 1..Len(log) /\ DOMAIN log \subseteq Int
         /\ batch \in Seq(DOMAIN log) /\ rest \in Seq(DOMAIN log) /\ todo \in Seq(DOMAIN log)
         /\ Ascending(rest) /\ Elements(rest) \cup Elements(todo) \subseteq Elements(batch)
BY DEF SearchInv, SearchShape

LEMMA SearchAnswers ==
  ASSUME SearchInv, NEW throttled, Search!BulkAnswered(throttled)
  PROVE  SearchInv'
<1> DEFINE items == {i \in Search!Range(todo) : log[i].flaw # "long"}
           taken == Search!Selected(todo, items \ throttled)
           Status(n) == Search!ItemStatus(Search!DocsAfter(taken)[n - 1], taken[n])
           failing == {taken[n] : n \in {m \in DOMAIN taken :
                         /\ Status(m) # 200
                         /\ Search!Severity(Status(m), Search!IsDelete(taken[m])) = "dataLoss"}}
<1>1. /\ indexer = "running" /\ throttled \subseteq items
      /\ written' = written \cup (Search!Range(taken) \ failing)
      /\ lost' = lost \cup failing \cup (Search!Range(todo) \ items)
                      \cup (IF Search!LastTry THEN throttled ELSE {})
      /\ IF Search!LastTry \/ Search!Retried(throttled) = <<>>
         THEN todo' = <<>> ELSE todo' = Search!Retried(throttled)
      /\ UNCHANGED <<log, next, pending, confirmed, indexer, batch, rest, dropped>>
  BY DEF Search!BulkAnswered, Search!inputVars
<1>2. failing \subseteq Search!Range(taken)
  BY DEF Search!Range
<1> HIDE DEF failing
<1>3. Search!Range(todo) = Elements(todo) /\ Search!Range(taken) = Elements(taken)
  BY DEF Search!Range, Elements
<1>4. Elements(taken) = Elements(todo) \cap (items \ throttled)
  <2>1. taken = Selected(todo, items \ throttled)
    BY DEF Search!Selected, Selected
  <2> HIDE DEF items, taken
  <2> QED BY <2>1, SearchParts, SelectedProperties
<1>5. /\ Search!Retried(throttled) \in Seq(DOMAIN log)
      /\ Elements(Search!Retried(throttled)) = Elements(todo) \cap throttled
  <2>1. Search!Retried(throttled) = Selected(todo, throttled)
    BY DEF Search!Retried, Search!Selected, Selected
  <2> QED BY <2>1, SearchParts, SelectedProperties
<1>6. items = {i \in Elements(todo) : log[i].flaw # "long"}
  BY <1>3
<1> HIDE DEF items, taken
<1>7. SearchGrows
  BY <1>1 DEF SearchGrows
<1>8. /\ todo' \in Seq(DOMAIN log) /\ Elements(todo') \subseteq Elements(todo)
  BY <1>1, <1>5, EmptyElements
<1>9. ASSUME NEW i \in Elements(todo) PROVE SearchAccounted(i)' \/ i \in Elements(todo')
  <2>1. CASE i \notin items
    BY <1>1, <1>3, <2>1 DEF SearchAccounted
  <2>2. CASE i \in items /\ i \notin throttled
    BY <1>1, <1>2, <1>3, <1>4, <2>2 DEF SearchAccounted
  <2>3. CASE i \in throttled
    <3>1. CASE Search!LastTry
      BY <1>1, <2>3, <3>1 DEF SearchAccounted
    <3>2. CASE ~Search!LastTry
      <4>1. Search!Retried(throttled) # <<>>
        BY <1>5, <2>3, EmptyElements
      <4> QED BY <1>1, <1>5, <2>3, <3>2, <4>1
    <3> QED BY <3>1, <3>2
  <2> QED BY <2>1, <2>2, <2>3
<1>10. \A i \in Elements(rest) : i \in Elements(rest')
  BY <1>1
<1> QED BY <1>1, <1>7, <1>8, <1>9, <1>10, SearchMoves, SearchParts

LEMMA SearchFails ==
  ASSUME SearchInv, NEW answer, Search!BulkFails(answer)
  PROVE  SearchInv'
<1>1. /\ indexer = "running" /\ UNCHANGED <<log, next, pending, confirmed, written, dropped>>
  BY DEF Search!BulkFails, Search!inputVars
<1>2. CASE UNCHANGED <<indexer, batch, rest, todo, lost>>
  <2>1. SearchGrows
    BY <1>1, <1>2 DEF SearchGrows
  <2> QED BY <1>1, <1>2, <2>1, SearchMoves, SearchParts
<1>3. CASE /\ todo' = <<>> /\ lost' = lost \cup Search!Range(todo)
           /\ UNCHANGED <<indexer, batch, rest>>
  <2>1. SearchGrows
    BY <1>1, <1>3 DEF SearchGrows
  <2>2. Search!Range(todo) = Elements(todo)
    BY DEF Search!Range, Elements
  <2>3. \A i \in Elements(todo) : SearchAccounted(i)'
    BY <1>3, <2>2 DEF SearchAccounted
  <2>4. todo' \in Seq(DOMAIN log) /\ Elements(todo') = {}
    BY <1>3, EmptyElements
  <2> QED BY <1>1, <1>3, <2>1, <2>3, <2>4, SearchMoves, SearchParts
<1>4. CASE Search!Stop /\ UNCHANGED lost
  <2>1. SearchGrows
    BY <1>1, <1>4 DEF SearchGrows
  <2> QED BY <1>1, <1>4, <2>1, SearchStops
<1> QED BY <1>2, <1>3, <1>4 DEF Search!BulkFails

\* The diff or truncate at the head of the batch.
LEMMA SearchHead ==
  ASSUME SearchInv, rest # <<>>
  PROVE  /\ Head(rest) \in DOMAIN log /\ Tail(rest) \in Seq(DOMAIN log)
         /\ Elements(rest) = {Head(rest)} \cup Elements(Tail(rest))
         /\ Ascending(Tail(rest)) /\ \A i \in Elements(Tail(rest)) : Head(rest) < i
<1>1. /\ rest \in Seq(DOMAIN log) /\ Ascending(rest) /\ DOMAIN log \subseteq Int
  BY SearchParts
<1>2. /\ Len(rest) \in Nat \ {0} /\ DOMAIN rest = 1..Len(rest) /\ Head(rest) = rest[1]
      /\ \A k \in DOMAIN rest : rest[k] \in DOMAIN log
  BY <1>1, LenProperties, EmptySeq, HeadTailProperties
<1>3. Tail(rest) \in Seq(DOMAIN log) /\ Len(Tail(rest)) = Len(rest) - 1
      /\ \A k \in 1..Len(rest) - 1 : Tail(rest)[k] = rest[k + 1]
  BY <1>1, HeadTailProperties
<1> DEFINE t == Tail(rest)
<1>4. DOMAIN t = 1..Len(rest) - 1
  BY <1>3, LenProperties
<1> HIDE DEF t
<1>5. \A k \in DOMAIN t : k + 1 \in DOMAIN rest /\ t[k] = rest[k + 1]
  BY <1>2, <1>3, <1>4 DEF t
<1>6. \A k \in DOMAIN rest : k = 1 \/ (k - 1 \in DOMAIN t /\ t[k - 1] = rest[k])
  <2>1. \A k \in DOMAIN rest : k = 1 \/ (k - 1 \in DOMAIN t /\ k - 1 + 1 = k)
    BY <1>2, <1>4
  <2> QED BY <1>5, <2>1
<1>7. Elements(rest) = {Head(rest)} \cup Elements(t)
  <2>1. 1 \in DOMAIN rest
    BY <1>2
  <2> QED BY <1>2, <1>5, <1>6, <2>1 DEF Elements
<1>8. Ascending(t)
  <2> SUFFICES ASSUME NEW k \in DOMAIN t, NEW l \in DOMAIN t, k < l PROVE t[k] < t[l]
    BY DEF Ascending
  <2>1. k + 1 < l + 1
    BY <1>2, <1>4
  <2> QED BY <1>1, <1>5, <2>1 DEF Ascending
<1>9. \A i \in Elements(t) : Head(rest) < i
  <2> SUFFICES ASSUME NEW k \in DOMAIN t PROVE rest[1] < t[k]
    BY <1>2 DEF Elements
  <2>1. 1 < k + 1 /\ 1 \in DOMAIN rest
    BY <1>2, <1>4
  <2> QED BY <1>1, <1>5, <2>1 DEF Ascending
<1> QED BY <1>2, <1>3, <1>7, <1>8, <1>9 DEF t

LEMMA SearchApplies ==
  ASSUME SearchInv, NEW ops, Search!AtDiff(ops), Search!Applied(Head(rest)),
         UNCHANGED <<log, next, pending, confirmed, indexer, lost, dropped>>
  PROVE  SearchInv'
<1>1. todo = <<>> /\ rest # <<>> /\ indexer = "running" /\ Elements(todo) = {}
  BY EmptyElements DEF Search!AtDiff
<1>2. /\ written' = written \cup {Head(rest)} /\ Search!Load(Tail(rest)) /\ batch' = batch
  BY DEF Search!Applied
<1>3. /\ Tail(rest) \in Seq(DOMAIN log) /\ Ascending(Tail(rest))
      /\ Elements(rest) = {Head(rest)} \cup Elements(Tail(rest))
  BY <1>1, SearchHead
<1>4. /\ todo' \in Seq(DOMAIN log) /\ rest' \in Seq(DOMAIN log) /\ Ascending(rest')
      /\ Elements(Tail(rest)) = Elements(todo') \cup Elements(rest')
  <2>1. DOMAIN log \subseteq Int
    BY SearchParts
  <2> QED BY <1>2, <1>3, <2>1, SearchLoads
<1>5. SearchGrows
  BY <1>2 DEF SearchGrows
<1>6. \A i : i = Head(rest) => SearchAccounted(i)'
  BY <1>2 DEF SearchAccounted
<1>7. Elements(rest) \subseteq Elements(batch)
  BY SearchParts
<1> QED BY <1>1, <1>2, <1>3, <1>4, <1>5, <1>6, <1>7, SearchMoves

\* The messages behind a diff that fails come after it.
LEMMA SearchGivesUp ==
  ASSUME SearchInv, NEW ops \in SUBSET Search!DiffOps, Search!AtDiff(ops),
         Search!GiveUp(Head(rest)),
         UNCHANGED <<log, next, pending, confirmed, indexer, written>>
  PROVE  SearchInv'
<1>1. /\ todo = <<>> /\ rest # <<>> /\ indexer = "running" /\ Elements(todo) = {}
      /\ log[Head(rest)].op \in Search!DiffOps
  BY EmptyElements DEF Search!AtDiff
<1>2. /\ lost' = lost \cup {Head(rest)}
      /\ dropped' = dropped \cup (Search!Range(rest) \ {Head(rest)})
      /\ batch' = <<>> /\ rest' = <<>> /\ todo' = <<>>
  BY DEF Search!GiveUp
<1>3. /\ Elements(rest) = {Head(rest)} \cup Elements(Tail(rest))
      /\ \A i \in Elements(Tail(rest)) : Head(rest) < i
  BY <1>1, SearchHead
<1>4. Search!Range(rest) = Elements(rest)
  BY DEF Search!Range, Elements
<1>5. SearchGrows
  BY <1>2 DEF SearchGrows
<1>6. \A i : i = Head(rest) => SearchAccounted(i)'
  BY <1>2 DEF SearchAccounted
<1>7. ASSUME NEW i \in Elements(Tail(rest)), i # Head(rest) PROVE SearchAccounted(i)'
  <2>1. Head(rest) < i /\ i \in dropped' /\ Head(rest) \in lost'
    BY <1>2, <1>3, <1>4, <1>7
  <2> QED BY <1>1, <2>1 DEF SearchAccounted
<1>8. rest' \in Seq(DOMAIN log) /\ todo' \in Seq(DOMAIN log) /\ Ascending(rest')
      /\ Elements(rest') = {} /\ Elements(todo') = {}
  BY <1>2, EmptyElements
<1> QED BY <1>1, <1>2, <1>3, <1>5, <1>6, <1>7, <1>8, SearchMoves

LEMMA SearchDiffs ==
  ASSUME SearchInv,
         \/ \E n \in 0..3 : Search!ApplySchemaDiff(n)
         \/ Search!IgnoreDiff \/ Search!DeleteSchema \/ Search!TruncateTable
  PROVE  SearchInv'
<1>1. ASSUME NEW n, Search!ApplySchemaDiff(n) PROVE SearchInv'
  <2>1. /\ Search!AtDiff({"create", "addColumn", "rename", "drop"})
        /\ UNCHANGED <<log, next, pending, confirmed, indexer>>
        /\ \/ Search!Applied(Head(rest)) /\ UNCHANGED <<lost, dropped>>
           \/ Search!GiveUp(Head(rest)) /\ UNCHANGED written
    BY <1>1 DEF Search!ApplySchemaDiff, Search!inputVars
  <2>2. {"create", "addColumn", "rename", "drop"} \in SUBSET Search!DiffOps
    BY DEF Search!DiffOps
  <2> QED BY <2>1, <2>2, SearchApplies, SearchGivesUp
<1>2. CASE Search!IgnoreDiff
  BY <1>2, SearchApplies DEF Search!IgnoreDiff, Search!inputVars
<1>3. CASE Search!DeleteSchema
  <2>1. /\ Search!AtDiff({"dropSchema"})
        /\ UNCHANGED <<log, next, pending, confirmed, indexer>>
        /\ \/ Search!Applied(Head(rest)) /\ UNCHANGED <<lost, dropped>>
           \/ Search!GiveUp(Head(rest)) /\ UNCHANGED written
    BY <1>3 DEF Search!DeleteSchema, Search!inputVars
  <2>2. {"dropSchema"} \in SUBSET Search!DiffOps
    BY DEF Search!DiffOps
  <2> QED BY <2>1, <2>2, SearchApplies, SearchGivesUp
<1>4. CASE Search!TruncateTable
  <2>1. /\ Search!AtDiff({"T"})
        /\ UNCHANGED <<log, next, pending, confirmed, lost, dropped>>
        /\ \/ Search!Applied(Head(rest)) /\ UNCHANGED indexer
           \/ Search!Stop /\ UNCHANGED written
    BY <1>4 DEF Search!TruncateTable, Search!inputVars
  <2>2. CASE Search!Stop /\ UNCHANGED written
    <3>1. SearchGrows
      BY <2>1, <2>2 DEF SearchGrows
    <3> QED BY <2>1, <2>2, <3>1, SearchStops
  <2> QED BY <2>1, <2>2, SearchApplies
<1> QED BY <1>1, <1>2, <1>3, <1>4

LEMMA SearchCheckpoints == SearchInv /\ Search!Checkpoint => SearchInv'
<1> SUFFICES ASSUME SearchInv, Search!Checkpoint PROVE SearchInv'
  OBVIOUS
<1>1. /\ indexer = "running" /\ batch # <<>> /\ todo = <<>> /\ rest = <<>>
      /\ UNCHANGED <<log, next, pending, written, lost, dropped>>
  BY DEF Search!Checkpoint, Search!inputVars, Search!doneVars
<1>2. SearchGrows
  BY <1>1 DEF SearchGrows
<1>3. CASE confirmed' = Search!Last(batch) /\ batch' = <<>> /\ UNCHANGED <<indexer, rest, todo>>
  <2>1. batch \in Seq(DOMAIN log) /\ DOMAIN log = 1..Len(log) /\ Len(log) \in Nat
    BY SearchParts
  <2>2. confirmed' \in Elements(batch) /\ confirmed' \in DOMAIN log
    <3>1. Len(batch) \in DOMAIN batch /\ confirmed' = batch[Len(batch)]
      <4>1. Len(batch) \in Nat /\ DOMAIN batch = 1..Len(batch) /\ Len(batch) # 0
        BY <1>1, <2>1, LenProperties, EmptySeq
      <4>2. confirmed' = batch[Len(batch)]
        BY <1>3 DEF Search!Last
      <4> QED BY <4>1, <4>2
    <3> QED BY <2>1, <3>1, LenProperties DEF Elements
  <2>3. /\ next \in 1..Len(log) + 1 /\ confirmed' < next
        /\ \A i \in Elements(pending) : i < next /\ confirmed' < i
    BY <2>2 DEF SearchInv, SearchShape
  <2>4. confirmed' \in 0..Len(log)
    BY <2>1, <2>2
  <2>5. Elements(batch') = {} /\ batch' \in Seq(DOMAIN log) /\ Ascending(batch')
        /\ Elements(rest) = {} /\ Elements(todo) = {}
    BY <1>1, <1>3, EmptyElements
  <2>6. SearchShape'
    BY <1>1, <1>3, <2>3, <2>4, <2>5 DEF SearchInv, SearchShape
  <2>7. \A i : SearchAccounted(i) => SearchAccounted(i)'
    BY <1>1 DEF SearchAccounted
  <2>8. \A i \in 1..next - 1 : SearchAccounted(i) \/ i \in Elements(pending)
    BY <1>1, <2>5 DEF SearchInv, SearchFlow
  <2>9. \A i \in 1..confirmed' : SearchAccounted(i)
    <3>1. \A i \in 1..confirmed' : i \in 1..next - 1 /\ ~(confirmed' < i)
      BY <2>1, <2>3, <2>4
    <3> QED BY <2>3, <2>8, <3>1
  <2>10. SearchFlow'
    BY <1>1, <1>3, <2>5, <2>7, <2>8, <2>9 DEF SearchFlow
  <2> QED BY <2>6, <2>10 DEF SearchInv
<1>4. CASE Search!Stop /\ UNCHANGED confirmed
  BY <1>1, <1>2, <1>4, SearchStops
<1> QED BY <1>3, <1>4 DEF Search!Checkpoint

LEMMA SearchRestarts == SearchInv /\ Search!Restart => SearchInv'
<1> SUFFICES ASSUME SearchInv, Search!Restart PROVE SearchInv'
  OBVIOUS
<1>1. /\ next' = confirmed + 1 /\ pending' = <<>> /\ batch' = <<>> /\ rest' = <<>> /\ todo' = <<>>
      /\ UNCHANGED <<log, confirmed, written, lost, dropped>>
  BY DEF Search!Restart, Search!inputVars, Search!doneVars
<1>2. /\ Len(log) \in Nat /\ DOMAIN log = 1..Len(log) /\ confirmed \in 0..Len(log)
  BY DEF SearchInv, SearchShape
<1>3. next' \in 1..Len(log) + 1 /\ confirmed < next' /\ next' - 1 = confirmed
  BY <1>1, <1>2
<1>4. SearchShape'
  <2>1. /\ \A q \in {pending', batch', rest', todo'} :
             q \in Seq(DOMAIN log) /\ Ascending(q) /\ Elements(q) = {}
    BY <1>1, EmptyElements
  <2> QED BY <1>1, <1>2, <1>3, <2>1 DEF SearchShape
<1>5. \A i \in 1..confirmed : SearchAccounted(i)'
  <2>1. \A i : SearchAccounted(i) => SearchAccounted(i)'
    BY <1>1 DEF SearchAccounted
  <2> QED BY <2>1 DEF SearchInv, SearchFlow
<1>6. SearchFlow'
  BY <1>1, <1>3, <1>5 DEF SearchFlow
<1> QED BY <1>4, <1>6 DEF SearchInv

LEMMA SearchSteps == SearchInv /\ Search!SearchNext => SearchInv'
<1> SUFFICES ASSUME SearchInv, Search!SearchNext PROVE SearchInv'
  OBVIOUS
<1>1. CASE UNCHANGED <<log, next, pending, confirmed, indexer, batch, rest, todo,
                       written, lost, dropped>>
  <2>1. SearchGrows
    BY <1>1 DEF SearchGrows
  <2> QED BY <1>1, <2>1, SearchMoves, SearchParts
<1>2. CASE Search!Refresh
  BY <1>1, <1>2 DEF Search!Refresh, Search!inputVars, Search!batchVars, Search!doneVars
<1>3. ASSUME NEW t, Search!RunDelete(t) PROVE SearchInv'
  BY <1>1, <1>3 DEF Search!RunDelete, Search!inputVars, Search!batchVars, Search!doneVars
<1>4. ASSUME NEW k, Search!Forget(k) PROVE SearchInv'
  BY <1>1, <1>4 DEF Search!Forget, Search!inputVars, Search!batchVars, Search!doneVars
<1> QED
  BY <1>2, <1>3, <1>4, SearchProcesses, SearchRestarts, SearchDiffs, SearchCheckpoints,
     SearchSendsBatch, SearchAnswers, SearchFails DEF Search!SearchNext

LEMMA SearchKeeps == SearchInv => Search!ConfirmedIsAccounted
BY DEF SearchInv, SearchFlow, SearchAccounted, Search!ConfirmedIsAccounted
-----------------------------------------------------------------------------
(* The search indexer: what the index shows of a row.                      *)

\* A function of 0..N that takes steps given one by one.
Iteration(N, D, a, s, f) ==
  f \in [0..N -> D] /\ f[0] = a /\ \A n \in 1..N : f[n] = s[n][f[n - 1]]

LEMMA Iterates ==
  ASSUME NEW N \in Nat, NEW D, NEW a \in D, NEW s \in [1..N -> [D -> D]]
  PROVE  \E f : Iteration(N, D, a, s, f)
<1> DEFINE Good == {n \in 0..N : \E f \in [0..n -> D] :
                      f[0] = a /\ \A m \in 1..n : f[m] = s[m][f[m - 1]]}
<1>1. 0 \in Good
  <2> DEFINE f == [m \in 0..0 |-> a]
  <2>1. f \in [0..0 -> D] /\ f[0] = a /\ 1..0 = {} /\ 0 \in 0..N
    OBVIOUS
  <2> HIDE DEF f
  <2> QED BY <2>1
<1>2. ASSUME NEW n \in 0..N, n \in Good, n < N PROVE n + 1 \in Good
  <2>1. PICK f \in [0..n -> D] : f[0] = a /\ \A m \in 1..n : f[m] = s[m][f[m - 1]]
    BY <1>2
  <2> DEFINE e == s[n + 1][f[n]]
             g == [m \in 0..n + 1 |-> IF m = n + 1 THEN e ELSE f[m]]
  <2>2. n + 1 \in 1..N /\ n + 1 \in 0..N /\ f[n] \in D /\ \A m \in 0..n + 1 : m = n + 1 \/ m \in 0..n
    BY <1>2
  <2>3. e \in D
    BY <2>2
  <2> HIDE DEF e
  <2>4. g \in [0..n + 1 -> D]
    BY <2>2, <2>3
  <2>5. g[0] = a /\ g[n + 1] = e /\ \A m \in 0..n : g[m] = f[m]
    BY <1>2, <2>1
  <2>6. \A m \in 1..n + 1 : m = n + 1 \/ (m \in 1..n /\ m \in 0..n)
    BY <1>2
  <2>7. n + 1 - 1 = n /\ n \in 0..n /\ \A m \in 1..n : m - 1 \in 0..n
    BY <1>2
  <2> HIDE DEF g
  <2>8. \A m \in 1..n + 1 : g[m] = s[m][g[m - 1]]
    <3> SUFFICES ASSUME NEW m \in 1..n + 1 PROVE g[m] = s[m][g[m - 1]]
      OBVIOUS
    <3>1. CASE m = n + 1
      <4>1. g[m - 1] = f[n]
        BY <2>5, <2>7, <3>1
      <4> QED BY <2>5, <3>1, <4>1 DEF e
    <3>2. CASE m \in 1..n
      BY <2>1, <2>5, <2>6, <2>7, <3>2
    <3> QED BY <2>6, <3>1, <3>2
  <2> QED BY <2>2, <2>4, <2>5, <2>8
<1>3. N \in Good
  <2> HIDE DEF Good
  <2>1. \A n \in 0..N : n \in Good /\ n < N => n + 1 \in Good
    BY <1>2
  <2>2. \A n \in 0..N : n \in Good
    BY <1>1, <2>1, UpTo
  <2> QED BY <2>2
<1> QED BY <1>3 DEF Iteration

SourceRow == [live : BOOLEAN, body : Nat, toast : Nat]
DocType == [version : Nat, live : BOOLEAN, body : Nat, toast : Nat]

\* What SearchAssumption says of a change.
LEMMA SearchChanges ==
  ASSUME NEW c \in Search!Change
  PROVE  /\ c.op \in Search!RowOps => c.key \in Key /\ c.to \in Key
         /\ c.op = "K" \/ c.to = c.key
         /\ c.op \in Search!DiffOps => c.flaw # "skip"
         /\ c.toast \in BOOLEAN
BY DEF Search!Change

LEMMA RowsTyped ==
  ASSUME NEW rows \in [Key -> SourceRow], NEW c \in Search!Change, NEW i \in Nat
  PROVE  Search!RowsAfter(rows, c, i) \in [Key -> SourceRow]
<1> DEFINE row == [live |-> TRUE, body |-> i, toast |-> IF c.toast THEN i ELSE rows[c.key].toast]
<1>1. Search!NoRow \in SourceRow
  BY DEF Search!NoRow, SourceRow
<1>2. CASE c.op \in {"D", "I", "U", "K"}
  <2>1. c.key \in Key /\ c.to \in Key
    BY <1>2, SearchChanges DEF Search!RowOps
  <2>2. rows[c.key].toast \in Nat
    BY <2>1 DEF SourceRow
  <2>3. row \in SourceRow
    BY <2>2 DEF SourceRow
  <2> HIDE DEF row
  <2> QED BY <1>1, <1>2, <2>1, <2>3 DEF Search!RowsAfter, row
<1>3. CASE c.op \notin {"D", "I", "U", "K"}
  <2>1. \A S : [k \in Key |-> IF TableOf[k] = S THEN Search!NoRow ELSE rows[k]] \in [Key -> SourceRow]
    BY <1>1
  <2> QED BY <1>1, <1>3, <2>1 DEF Search!RowsAfter
<1> QED BY <1>2, <1>3

LEMMA SourceSteps ==
  ASSUME NEW w \in Seq(Search!Change)
  PROVE  LET rowsAt == Search!Source(w)
         IN  /\ rowsAt \in [0..Len(w) -> [Key -> SourceRow]]
             /\ rowsAt[0] = [k \in Key |-> Search!NoRow]
             /\ \A n \in 1..Len(w) : rowsAt[n] = Search!RowsAfter(rowsAt[n - 1], w[n], n)
<1> DEFINE D == [Key -> SourceRow]
           a == [k \in Key |-> Search!NoRow]
           s == [n \in 1..Len(w) |-> [d \in D |-> Search!RowsAfter(d, w[n], n)]]
           IsSource(f) == f = [n \in 0..Len(w) |->
                                IF n = 0 THEN a ELSE Search!RowsAfter(f[n - 1], w[n], n)]
<1>1. Len(w) \in Nat /\ DOMAIN w = 1..Len(w) /\ \A n \in 1..Len(w) : w[n] \in Search!Change
  BY LenProperties
<1>2. a \in D
  BY DEF Search!NoRow, SourceRow
<1>3. ASSUME NEW n \in 1..Len(w), NEW d \in D PROVE Search!RowsAfter(d, w[n], n) \in D
  <2>1. n \in Nat
    BY <1>1
  <2> QED BY <1>1, <2>1, RowsTyped
<1> HIDE DEF D, a
<1>4. s \in [1..Len(w) -> [D -> D]]
  BY <1>3
<1>5. PICK f : Iteration(Len(w), D, a, s, f)
  <2> HIDE DEF s
  <2> QED BY <1>1, <1>2, <1>4, Iterates
<1>6. \A n \in 0..Len(w) : n = 0 \/ (n \in 1..Len(w) /\ n - 1 \in 0..Len(w))
  BY <1>1
<1>7. \A n \in 1..Len(w) : f[n] = Search!RowsAfter(f[n - 1], w[n], n)
  BY <1>5, <1>6 DEF Iteration
<1>8. IsSource(f)
  BY <1>5, <1>6, <1>7 DEF Iteration
<1>9. Search!Source(w) = CHOOSE g : IsSource(g)
  BY DEF Search!Source, a
<1> DEFINE rowsAt == CHOOSE g : IsSource(g)
<1>10. IsSource(rowsAt)
  <2> HIDE DEF IsSource
  <2> QED BY <1>8
<1> HIDE DEF rowsAt, s
<1>11. /\ rowsAt = [n \in 0..Len(w) |-> rowsAt[n]]
       /\ rowsAt[0] = a /\ \A n \in 1..Len(w) : rowsAt[n] = Search!RowsAfter(rowsAt[n - 1], w[n], n)
  BY <1>1, <1>10
<1>12. \A n \in 0..Len(w) : rowsAt[n] \in D
  <2> DEFINE S == {n \in 0..Len(w) : rowsAt[n] \in D}
  <2>1. 0 \in S
    BY <1>1, <1>2, <1>11
  <2>2. ASSUME NEW n \in 0..Len(w), n \in S, n < Len(w) PROVE n + 1 \in S
    <3> DEFINE m == n + 1
    <3>1. m \in 1..Len(w) /\ m \in 0..Len(w) /\ m - 1 = n
      BY <1>1, <2>2
    <3> HIDE DEF m
    <3>2. rowsAt[m] = Search!RowsAfter(rowsAt[n], w[m], m)
      BY <1>11, <3>1
    <3>3. m \in S
      BY <1>3, <2>2, <3>1, <3>2
    <3> QED BY <3>3 DEF m
  <2> HIDE DEF S
  <2>3. \A n \in 0..Len(w) : n \in S /\ n < Len(w) => n + 1 \in S
    BY <2>2
  <2>4. \A n \in 0..Len(w) : n \in S
    BY <1>1, <2>1, <2>3, UpTo
  <2> QED BY <2>4 DEF S
<1>13. rowsAt \in [0..Len(w) -> D]
  BY <1>11, <1>12
<1> QED BY <1>9, <1>11, <1>13 DEF rowsAt, D, a

-----------------------------------------------------------------------------
\* The changes that write a row's document, and with them those that end every row.
RowWrites(k) == {i \in DOMAIN log : Search!IsWrite(i) /\ log[i].to = k}
RowEvents(k) == RowWrites(k) \cup {i \in DOMAIN log : log[i].op = "dropSchema"}
EndsRow(i) == log[i].op \in {"D", "dropSchema"}

\* The changes that the indexer is to send yet; when it has stopped, those that
\* will be delivered again.
Unsent ==
  IF indexer = "running"
  THEN Elements(todo) \cup Elements(rest) \cup Elements(pending) \cup (next..Len(log))
  ELSE confirmed + 1..Len(log)

\* A row's document is from the change at i or a later one, or there is none for
\* the sake of such a one; then no document older than i is being sent.
ShownSince(k, i) == \E j \in RowWrites(k) : j >= i /\ docs[k] = Search!Document(j)
GoneSince(k, i) ==
  /\ docs[k] = Search!NoDoc /\ \E j \in RowEvents(k) : j >= i /\ EndsRow(j)
  /\ index.exists => \A t \in Elements(todo) : i < t

RowShown(k) ==
  /\ docs[k] = Search!NoDoc \/ \E j \in RowWrites(k) : docs[k] = Search!Document(j)
  /\ \A i \in RowEvents(k) \ Unsent : ShownSince(k, i) \/ GoneSince(k, i)

IndexRows == \A k \in Key : Search!Comparable(k) => RowShown(k)

IndexStore ==
  /\ log \in Seq(Search!Change)
  /\ docs \in [Key -> DocType]
  /\ ~index.exists => docs = [k \in Key |-> Search!NoDoc]
  /\ \A t \in deletes : \E i \in DOMAIN log : log[i].op \in {"T", "drop"} /\ log[i].table = t

\* A message that the indexer must not pass over.
HasMessageAt(i) == log[i].op # "keepAlive" /\ log[i].flaw # "skip"

\* Behind a message that is not reached yet, the indexer has every message.
IndexOrder ==
  /\ \A t \in Elements(todo) : Search!IsWrite(t)
  /\ \A i \in Elements(batch) \cup Elements(pending) : confirmed < i
  /\ indexer = "running" =>
       \A x \in Elements(rest) \cup Elements(pending) : \A i \in DOMAIN log :
         x < i /\ i < next /\ HasMessageAt(i) => i \in Elements(rest) \cup Elements(pending)

IndexInv == SearchInv /\ IndexStore /\ IndexOrder /\ IndexRows

-----------------------------------------------------------------------------
LEMMA IndexParts ==
  ASSUME IndexInv
  PROVE  /\ Len(log) \in Nat /\ DOMAIN log = 1..Len(log) /\ DOMAIN log \subseteq Int
         /\ log \in Seq(Search!Change) /\ \A i \in DOMAIN log : log[i] \in Search!Change
         /\ next \in 1..Len(log) + 1 /\ confirmed \in 0..Len(log) /\ confirmed < next
         /\ Elements(batch) \cup Elements(pending) \subseteq DOMAIN log
         /\ Elements(rest) \cup Elements(todo) \subseteq Elements(batch)
         /\ \A i \in Elements(batch) \cup Elements(pending) : i < next /\ confirmed < i
         /\ \A i \in Elements(batch), j \in Elements(pending) : i < j
<1>1. SearchShape /\ log \in Seq(Search!Change)
  BY DEF IndexInv, SearchInv, IndexStore
<1>2. \A i \in DOMAIN log : log[i] \in Search!Change
  BY <1>1, LenProperties
<1>3. Elements(batch) \subseteq DOMAIN log /\ Elements(pending) \subseteq DOMAIN log
  BY <1>1, ElementsIn DEF SearchShape
<1>4. \A i \in Elements(batch) \cup Elements(pending) : i < next /\ confirmed < i
  BY <1>1 DEF SearchShape, IndexInv, IndexOrder
<1> QED BY <1>1, <1>2, <1>3, <1>4 DEF SearchShape

LEMMA Documents ==
  ASSUME log \in Seq(Search!Change), NEW i \in DOMAIN log, Search!IsWrite(i)
  PROVE  /\ i \in Nat /\ log[i].to \in Key /\ Search!Document(i) \in DocType
         /\ Search!Document(i).version = Search!Version(i)
         /\ Search!Version(i) \in {4 * i, 4 * i + 1} /\ Search!Version(i) > 0
         /\ Search!Document(i).live <=> ~Search!IsDelete(i)
<1>1. /\ Len(log) \in Nat /\ DOMAIN log = 1..Len(log) /\ i \in Nat /\ i > 0
      /\ log[i] \in Search!Change
  BY LenProperties
<1>2. log[i].to \in Key
  BY <1>1, SearchChanges DEF Search!IsWrite
<1>3. Search!Source(log)[i][log[i].to].toast \in Nat
  <2>1. Search!Source(log)[i] \in [Key -> SourceRow]
    BY <1>1, SourceSteps
  <2> QED BY <1>2, <2>1 DEF SourceRow
<1>4. Search!Version(i) \in {4 * i, 4 * i + 1} /\ Search!Version(i) \in Nat /\ Search!Version(i) > 0
  BY <1>1 DEF Search!Version
<1> QED BY <1>1, <1>2, <1>3, <1>4 DEF Search!Document, Search!NoDoc, DocType

\* The later of two changes has the higher version.
LEMMA LaterVersion ==
  ASSUME log \in Seq(Search!Change), NEW i \in DOMAIN log, NEW j \in DOMAIN log,
         Search!IsWrite(i), Search!IsWrite(j), Search!Version(i) <= Search!Version(j)
  PROVE  i <= j
<1>1. /\ i \in Nat /\ j \in Nat /\ Search!Version(i) \in {4 * i, 4 * i + 1}
      /\ Search!Version(j) \in {4 * j, 4 * j + 1}
  BY Documents
<1> QED BY <1>1

LEMMA SameDocuments ==
  ASSUME UNCHANGED <<log, setup>>
  PROVE  \A i : /\ Search!Document(i)' = Search!Document(i)
               /\ Search!IsWrite(i)' = Search!IsWrite(i) /\ EndsRow(i)' = EndsRow(i)
               /\ RowWrites(i)' = RowWrites(i) /\ RowEvents(i)' = RowEvents(i)
<1>1. Search!Source(log)' = Search!Source(log)
  BY DEF Search!Source, Search!RowsAfter
<1> QED BY <1>1 DEF Search!Document, Search!Version, Search!IsDelete, Search!IsWrite, EndsRow,
                    RowWrites, RowEvents

LEMMA StillComparable ==
  ASSUME UNCHANGED log, lost \subseteq lost', dropped \subseteq dropped', NEW k,
         Search!Comparable(k)'
  PROVE  Search!Comparable(k)
BY DEF Search!Comparable

\* What was sent of a row is older than any message that is not reached yet.
LEMMA SentIsOlder ==
  ASSUME IndexInv, indexer = "running", NEW k \in Key, Search!Comparable(k),
         NEW i \in RowEvents(k) \ Unsent, NEW t \in Elements(rest) \cup Elements(pending)
  PROVE  i < t
<1>1. i \in DOMAIN log /\ t \in DOMAIN log /\ i # t /\ i < next
  BY IndexParts DEF Unsent, RowEvents, RowWrites
<1>2. HasMessageAt(i)
  <2>1. CASE i \in RowWrites(k)
    BY <1>1, <2>1 DEF RowWrites, Search!Comparable, Search!IsWrite, Search!RowOps, HasMessageAt
  <2>2. CASE log[i].op = "dropSchema"
    <3>1. log[i] \in Search!Change
      BY <1>1, IndexParts
    <3> QED BY <2>2, <3>1, SearchChanges DEF Search!DiffOps, HasMessageAt
  <2> QED BY <2>1, <2>2 DEF RowEvents
<1>3. i \notin Elements(rest) \cup Elements(pending)
  BY DEF Unsent
<1>4. ~(t < i)
  BY <1>1, <1>2, <1>3 DEF IndexInv, IndexOrder
<1> QED BY <1>1, <1>4, IndexParts

LEMMA UnsentIsBeyond ==
  ASSUME IndexInv
  PROVE  Unsent \subseteq confirmed + 1..Len(log)
<1>1. \A i \in Elements(batch) \cup Elements(pending) : i \in confirmed + 1..Len(log)
  BY IndexParts
<1>2. next..Len(log) \subseteq confirmed + 1..Len(log)
  BY IndexParts
<1> QED BY <1>1, <1>2, IndexParts DEF Unsent

\* A step that leaves a row's document alone, and sends of the others none that is
\* older than what was sent of the row.
LEMMA RowStays ==
  ASSUME UNCHANGED <<log, setup>>, NEW k \in Key, RowShown(k), docs'[k] = docs[k],
         \A i \in RowEvents(k) \cap Unsent : i \in Unsent',
         \A i \in RowEvents(k) \ Unsent, t \in Elements(todo') :
           i < t \/ (t \in Elements(todo) /\ (index'.exists => index.exists))
  PROVE  RowShown(k)'
<1>1. RowShown(k)
  OBVIOUS
<1>2. /\ docs'[k] = docs[k] /\ \A i \in RowEvents(k) \cap Unsent : i \in Unsent'
      /\ \A i \in RowEvents(k) \ Unsent, t \in Elements(todo') :
           i < t \/ (t \in Elements(todo) /\ (index'.exists => index.exists))
  OBVIOUS
<1>3. RowWrites(k)' = RowWrites(k) /\ RowEvents(k)' = RowEvents(k)
  BY SameDocuments
<1>4. \A j : Search!Document(j)' = Search!Document(j) /\ EndsRow(j)' = EndsRow(j)
  BY SameDocuments
<1>5. ASSUME NEW i \in RowEvents(k), i \notin Unsent' PROVE ShownSince(k, i)' \/ GoneSince(k, i)'
  <2>1. i \notin Unsent /\ (ShownSince(k, i) \/ GoneSince(k, i))
    BY <1>1, <1>2, <1>5 DEF RowShown
  <2>2. ShownSince(k, i) => ShownSince(k, i)'
    BY <1>2, <1>3, <1>4 DEF ShownSince
  <2>3. GoneSince(k, i) => GoneSince(k, i)'
    <3> SUFFICES ASSUME GoneSince(k, i) PROVE GoneSince(k, i)'
      OBVIOUS
    <3>1. docs'[k] = Search!NoDoc' /\ \E j \in RowEvents(k)' : j >= i /\ EndsRow(j)'
      BY <1>2, <1>3, <1>4 DEF GoneSince, Search!NoDoc
    <3>2. index'.exists => \A t \in Elements(todo') : i < t
      BY <1>2, <1>5, <2>1 DEF GoneSince
    <3> QED BY <3>1, <3>2 DEF GoneSince
  <2> QED BY <2>1, <2>2, <2>3
<1>6. docs'[k] = Search!NoDoc' \/ \E j \in RowWrites(k)' : docs'[k] = Search!Document(j)'
  BY <1>1, <1>2, <1>3, <1>4 DEF RowShown, Search!NoDoc
<1> QED BY <1>3, <1>5, <1>6 DEF RowShown

LEMMA RowsStay ==
  ASSUME IndexRows, UNCHANGED <<log, setup>>, lost \subseteq lost', dropped \subseteq dropped',
         \A k \in Key : Search!Comparable(k) /\ Search!Comparable(k)' =>
           /\ docs'[k] = docs[k]
           /\ \A i \in RowEvents(k) \cap Unsent : i \in Unsent'
           /\ \A i \in RowEvents(k) \ Unsent, t \in Elements(todo') :
                i < t \/ (t \in Elements(todo) /\ (index'.exists => index.exists))
  PROVE  IndexRows'
<1> SUFFICES ASSUME NEW k \in Key, Search!Comparable(k)' PROVE RowShown(k)'
  BY DEF IndexRows
<1>1. Search!Comparable(k) /\ RowShown(k)
  BY StillComparable DEF IndexRows
<1> QED BY <1>1, RowStays

LEMMA EventsKept ==
  ASSUME UNCHANGED log, NEW k, Search!Comparable(k)'
  PROVE  \A i \in RowEvents(k) : i \notin lost' \cup dropped'
BY DEF Search!Comparable, RowEvents, RowWrites

\* What is behind a message that is not reached yet stays there.
LEMMA OrderMoves ==
  ASSUME IndexInv, UNCHANGED <<log, next, pending, confirmed>>, indexer = "running",
         batch' = batch \/ batch' = <<>>, Elements(rest') \subseteq Elements(rest),
         \A t \in Elements(todo') : Search!IsWrite(t),
         indexer' = "running" =>
           \A x \in Elements(rest'), i \in Elements(rest) : x < i => i \in Elements(rest')
  PROVE  IndexOrder'
<1>1. \A t \in Elements(todo') : Search!IsWrite(t)'
  BY DEF Search!IsWrite
<1>2. \A i \in Elements(batch') \cup Elements(pending) : confirmed < i
  <2>1. Elements(batch') \subseteq Elements(batch)
    BY EmptyElements
  <2> QED BY <2>1, IndexParts
<1>3. ASSUME indexer' = "running", NEW x \in Elements(rest') \cup Elements(pending),
             NEW i \in DOMAIN log, x < i, i < next, HasMessageAt(i)
      PROVE  i \in Elements(rest') \cup Elements(pending)
  <2>1. i \in Elements(rest) \cup Elements(pending)
    BY <1>3 DEF IndexInv, IndexOrder
  <2>2. CASE x \in Elements(rest')
    BY <1>3, <2>1, <2>2
  <2>3. CASE x \in Elements(pending) /\ i \in Elements(rest)
    <3>1. i < x /\ i \in Int /\ x \in Int
      BY <2>3, IndexParts
    <3> QED BY <1>3, <3>1
  <2> QED BY <2>1, <2>2, <2>3
<1> QED BY <1>1, <1>2, <1>3 DEF IndexOrder, HasMessageAt

\* A step behind the collecting of messages that leaves the documents alone.
LEMMA IndexMoves ==
  ASSUME IndexInv, SearchGrows, UNCHANGED <<log, setup, next, pending, confirmed, docs>>,
         indexer = "running", batch' = batch \/ batch' = <<>>,
         Elements(rest') \subseteq Elements(rest), \A t \in Elements(todo') : Search!IsWrite(t),
         indexer' = "running" =>
           \A x \in Elements(rest'), i \in Elements(rest) : x < i => i \in Elements(rest'),
         indexer' = "running" =>
           \A k \in Key : Search!Comparable(k)' =>
             \A i \in RowEvents(k) \cap (Elements(todo) \cup Elements(rest)) :
               i \in Elements(todo') \cup Elements(rest'),
         index.exists => index'.exists,
         \A t \in Elements(todo') :
           t \in Elements(rest) \/ (t \in Elements(todo) /\ (index'.exists => index.exists)),
         \A t \in deletes' \ deletes :
           \E i \in DOMAIN log : log[i].op \in {"T", "drop"} /\ log[i].table = t
  PROVE  IndexStore' /\ IndexOrder' /\ IndexRows'
<1>1. IndexStore'
  BY DEF IndexInv, IndexStore, Search!NoDoc
<1>2. IndexOrder'
  BY OrderMoves
<1>3. IndexRows'
  <2>1. lost \subseteq lost' /\ dropped \subseteq dropped' /\ IndexRows
    BY DEF SearchGrows, IndexInv
  <2>2. ASSUME NEW k \in Key, Search!Comparable(k)', NEW i \in RowEvents(k), i \in Unsent
        PROVE  i \in Unsent'
    <3>1. CASE indexer' = "running"
      BY <2>2, <3>1 DEF Unsent
    <3>2. CASE indexer' # "running"
      BY <2>2, <3>2, UnsentIsBeyond DEF Unsent
    <3> QED BY <3>1, <3>2
  <2>3. ASSUME NEW k \in Key, Search!Comparable(k), NEW i \in RowEvents(k) \ Unsent,
               NEW t \in Elements(todo')
        PROVE  i < t \/ (t \in Elements(todo) /\ (index'.exists => index.exists))
    <3>1. t \in Elements(rest) => i < t
      BY <2>3, SentIsOlder
    <3> QED BY <3>1
  <2> QED BY <2>1, <2>2, <2>3, RowsStay
<1> QED BY <1>1, <1>2, <1>3

\* The sender ends.
LEMMA IndexStops ==
  ASSUME IndexInv, SearchGrows, Search!Stop, indexer = "running",
         UNCHANGED <<log, setup, next, pending, confirmed, index, docs, deletes>>
  PROVE  IndexStore' /\ IndexOrder' /\ IndexRows'
<1>1. indexer' = "stopped" /\ batch' = <<>> /\ Elements(rest') = {} /\ Elements(todo') = {}
  BY EmptyElements DEF Search!Stop
<1> QED BY <1>1, IndexMoves

LEMMA IndexProcesses == IndexInv /\ Search!Process => IndexStore' /\ IndexOrder' /\ IndexRows'
<1> SUFFICES ASSUME IndexInv, Search!Process PROVE IndexStore' /\ IndexOrder' /\ IndexRows'
  OBVIOUS
<1>1. /\ indexer = "running" /\ next <= Len(log)
      /\ UNCHANGED <<log, setup, confirmed, batch, rest, todo, index, docs, deletes, lost, dropped>>
  BY DEF Search!Process, Search!inputVars, Search!batchVars, Search!storeVars, Search!doneVars
<1>2. next \in DOMAIN log /\ pending \in Seq(DOMAIN log)
  BY <1>1, IndexParts DEF IndexInv, SearchInv, SearchShape
<1>3. IndexStore'
  BY <1>1 DEF IndexInv, IndexStore, Search!NoDoc
<1>4. \/ indexer' = "stopped" /\ UNCHANGED <<next, pending>>
      \/ /\ log[next].flaw = "skip" /\ next' = next + 1 /\ indexer' = "running"
         /\ pending' = pending
      \/ next' = next + 1 /\ indexer' = "running" /\ pending' = Append(pending, next)
  BY <1>1 DEF Search!Process
<1>5. /\ Elements(pending') \subseteq Elements(pending) \cup {next}
      /\ Elements(pending) \subseteq Elements(pending')
      /\ indexer' = "running" /\ log[next].flaw # "skip" => next \in Elements(pending')
  <2>1. Elements(Append(pending, next)) = Elements(pending) \cup {next}
    BY <1>2, AppendsElement
  <2> QED BY <1>4, <2>1
<1>6. indexer' = "running" => next' = next + 1
  BY <1>4
<1>7. IndexOrder'
  <2>1. \A t \in Elements(todo') : Search!IsWrite(t)'
    BY <1>1 DEF IndexInv, IndexOrder, Search!IsWrite
  <2>2. \A i \in Elements(batch') \cup Elements(pending') : confirmed' < i
    BY <1>1, <1>5, IndexParts
  <2>3. ASSUME indexer' = "running", NEW x \in Elements(rest) \cup Elements(pending'),
               NEW i \in DOMAIN log, x < i, i < next', HasMessageAt(i)
        PROVE  i \in Elements(rest) \cup Elements(pending')
    <3>1. CASE i = next
      BY <1>5, <2>3, <3>1 DEF HasMessageAt
    <3>2. CASE i # next
      <4>1. i < next /\ x # next
        BY <1>2, <1>6, <2>3, <3>2, IndexParts
      <4> QED BY <1>1, <1>5, <2>3, <4>1 DEF IndexInv, IndexOrder
    <3> QED BY <3>1, <3>2
  <2> QED BY <1>1, <2>1, <2>2, <2>3 DEF IndexOrder, HasMessageAt
<1>8. IndexRows'
  <2>1. ASSUME NEW k \in Key, Search!Comparable(k), NEW i \in RowEvents(k), i \in Unsent
        PROVE  i \in Unsent'
    <3>1. CASE indexer' = "running" /\ i = next
      <4>1. log[i].flaw # "skip"
        <5>1. log[i] \in Search!Change
          BY <1>2, <3>1, IndexParts
        <5> QED
          BY <2>1, <5>1, SearchChanges
          DEF RowEvents, RowWrites, Search!Comparable, Search!DiffOps
      <4> QED BY <1>5, <3>1, <4>1 DEF Unsent
    <3>2. CASE indexer' = "running" /\ i # next
      <4>1. i \in next..Len(log) => i \in next'..Len(log)
        BY <1>2, <1>6, <3>2, IndexParts
      <4> QED BY <1>1, <1>5, <2>1, <3>2, <4>1 DEF Unsent
    <3>3. CASE indexer' # "running"
      BY <1>1, <2>1, <3>3, UnsentIsBeyond DEF Unsent
    <3> QED BY <3>1, <3>2, <3>3
  <2> QED BY <1>1, <2>1, RowsStay DEF IndexInv
<1> QED BY <1>3, <1>7, <1>8

LEMMA IndexSendsBatch ==
  ASSUME IndexInv, NEW n \in DOMAIN pending, Search!SendBatch(n)
  PROVE  IndexStore' /\ IndexOrder' /\ IndexRows'
<1> DEFINE messages == Search!Selected(batch', {i \in DOMAIN log : log[i].op # "keepAlive"})
<1>1. /\ indexer = "running" /\ batch = <<>> /\ batch' = SubSeq(pending, 1, n)
      /\ pending' = SubSeq(pending, n + 1, Len(pending)) /\ Search!Load(messages)
      /\ UNCHANGED <<log, setup, next, confirmed, indexer, index, docs, deletes, lost, dropped>>
  BY DEF Search!SendBatch, Search!inputVars, Search!storeVars, Search!doneVars
<1>2. /\ DOMAIN log \subseteq Int /\ pending \in Seq(DOMAIN log) /\ Ascending(pending)
      /\ Elements(rest) = {} /\ Elements(todo) = {}
  BY <1>1, IndexParts, EmptyElements DEF IndexInv, SearchInv, SearchShape
<1>3. n \in 0..Len(pending)
  BY <1>2, LenProperties
<1>4. /\ batch' \in Seq(DOMAIN log) /\ Ascending(batch')
      /\ Elements(pending) = Elements(batch') \cup Elements(pending')
      /\ \A i \in Elements(batch'), j \in Elements(pending') : i < j
  BY <1>1, <1>2, <1>3, CutAscending
<1>5. /\ messages \in Seq(DOMAIN log) /\ Ascending(messages)
      /\ Elements(messages) = Elements(batch') \cap {i \in DOMAIN log : log[i].op # "keepAlive"}
  <2>1. messages = Selected(batch', {i \in DOMAIN log : log[i].op # "keepAlive"})
    BY DEF Search!Selected, Selected
  <2> HIDE DEF messages
  <2> QED BY <1>2, <1>4, <2>1, SelectedProperties
<1> HIDE DEF messages
<1>6. /\ Elements(messages) = Elements(todo') \cup Elements(rest')
      /\ \A i \in Elements(todo'), j \in Elements(rest') : i < j
      /\ \A i \in Elements(todo') : Search!IsWrite(i)
  BY <1>1, <1>2, <1>5, SearchLoads
<1>7. IndexStore'
  BY <1>1 DEF IndexInv, IndexStore, Search!NoDoc
<1>8. IndexOrder'
  <2>1. \A t \in Elements(todo') : Search!IsWrite(t)'
    BY <1>1, <1>6 DEF Search!IsWrite
  <2>2. \A i \in Elements(batch') \cup Elements(pending') : confirmed' < i
    BY <1>1, <1>4, IndexParts
  <2>3. ASSUME NEW x \in Elements(rest') \cup Elements(pending'), NEW i \in DOMAIN log,
               x < i, i < next, HasMessageAt(i)
        PROVE  i \in Elements(rest') \cup Elements(pending')
    <3>1. x \in Elements(pending) /\ x \in DOMAIN log /\ x \in Int /\ i \in Int
      BY <1>2, <1>4, <1>5, <1>6, IndexParts
    <3>2. i \in Elements(pending)
      BY <1>1, <1>2, <2>3, <3>1 DEF IndexInv, IndexOrder
    <3>3. CASE i \in Elements(batch')
      <4>1. i \in Elements(todo') \cup Elements(rest')
        BY <1>5, <1>6, <2>3, <3>3 DEF HasMessageAt
      <4>2. x \in Elements(rest')
        BY <1>4, <2>3, <3>1, <3>3
      <4>3. ~(i < x)
        BY <2>3, <3>1
      <4> QED BY <1>6, <4>1, <4>2, <4>3
    <3> QED BY <1>4, <3>2, <3>3
  <2> QED BY <1>1, <2>1, <2>2, <2>3 DEF IndexOrder, HasMessageAt
<1>9. IndexRows'
  <2>1. ASSUME NEW k \in Key, NEW i \in RowEvents(k), i \in Unsent PROVE i \in Unsent'
    <3>1. i \in DOMAIN log /\ log[i].op # "keepAlive"
      BY DEF RowEvents, RowWrites, Search!IsWrite, Search!RowOps
    <3> QED BY <1>1, <1>2, <1>4, <1>5, <1>6, <2>1, <3>1 DEF Unsent
  <2>2. ASSUME NEW k \in Key, Search!Comparable(k), NEW i \in RowEvents(k) \ Unsent,
               NEW t \in Elements(todo')
        PROVE  i < t
    BY <1>1, <1>4, <1>5, <1>6, <2>2, SentIsOlder
  <2> QED BY <1>1, <2>1, <2>2, RowsStay DEF IndexInv
<1> QED BY <1>7, <1>8, <1>9

LEMMA IndexFails ==
  ASSUME IndexInv, NEW answer, Search!BulkFails(answer)
  PROVE  IndexStore' /\ IndexOrder' /\ IndexRows'
<1>1. /\ indexer = "running" /\ todo # <<>>
      /\ UNCHANGED <<log, setup, next, pending, confirmed, index, docs, deletes, written, dropped>>
  BY DEF Search!BulkFails, Search!inputVars, Search!storeVars
<1>2. \A t \in Elements(todo) : Search!IsWrite(t)
  BY DEF IndexInv, IndexOrder
<1>3. CASE UNCHANGED <<indexer, batch, rest, todo, lost>>
  <2>1. SearchGrows
    BY <1>1, <1>3 DEF SearchGrows
  <2> QED BY <1>1, <1>2, <1>3, <2>1, IndexMoves
<1>4. CASE /\ todo' = <<>> /\ lost' = lost \cup Search!Range(todo)
           /\ UNCHANGED <<indexer, batch, rest>>
  <2>1. SearchGrows
    BY <1>1, <1>4 DEF SearchGrows
  <2>2. Search!Range(todo) = Elements(todo) /\ Elements(todo') = {}
    BY <1>4, EmptyElements DEF Search!Range, Elements
  <2>3. ASSUME NEW k, Search!Comparable(k)', NEW i \in RowEvents(k) PROVE i \notin Elements(todo)
    BY <1>1, <1>4, <2>2, <2>3, EventsKept
  <2> QED BY <1>1, <1>4, <2>1, <2>2, <2>3, IndexMoves
<1>5. CASE Search!Stop /\ UNCHANGED lost
  <2>1. SearchGrows
    BY <1>1, <1>5 DEF SearchGrows
  <2> QED BY <1>1, <1>5, <2>1, IndexStops
<1> QED BY <1>3, <1>4, <1>5 DEF Search!BulkFails

\* A diff or truncate is applied, and the documents behind it are loaded.
LEMMA AppliedParts ==
  ASSUME IndexInv, NEW ops, Search!AtDiff(ops), Search!Applied(Head(rest))
  PROVE  /\ indexer = "running" /\ Elements(todo) = {} /\ log[Head(rest)].op \in ops
         /\ Head(rest) \in DOMAIN log /\ written' = written \cup {Head(rest)} /\ batch' = batch
         /\ Elements(rest) = {Head(rest)} \cup Elements(todo') \cup Elements(rest')
         /\ \A i \in Elements(todo') : Search!IsWrite(i)
         /\ \A x \in Elements(rest'), i \in Elements(rest) : x < i => i \in Elements(rest')
<1>1. /\ indexer = "running" /\ Elements(todo) = {} /\ rest # <<>> /\ log[Head(rest)].op \in ops
  BY EmptyElements DEF Search!AtDiff
<1>2. written' = written \cup {Head(rest)} /\ Search!Load(Tail(rest)) /\ batch' = batch
  BY DEF Search!Applied
<1>3. /\ Tail(rest) \in Seq(DOMAIN log) /\ Ascending(Tail(rest)) /\ Head(rest) \in DOMAIN log
      /\ Elements(rest) = {Head(rest)} \cup Elements(Tail(rest))
      /\ \A i \in Elements(Tail(rest)) : Head(rest) < i
  BY <1>1, SearchHead DEF IndexInv
<1>4. /\ Elements(Tail(rest)) = Elements(todo') \cup Elements(rest')
      /\ \A i \in Elements(todo'), j \in Elements(rest') : i < j
      /\ \A i \in Elements(todo') : Search!IsWrite(i)
  BY <1>2, <1>3, IndexParts, SearchLoads
<1>5. Elements(rest') \subseteq Elements(rest)
  BY <1>3, <1>4
<1>6. ASSUME NEW x \in Elements(rest'), NEW i \in Elements(rest), x < i
      PROVE  i \in Elements(rest')
  <2>1. x \in Int /\ i \in Int /\ Head(rest) < x
    BY <1>3, <1>4, <1>5, IndexParts
  <2>2. i # Head(rest) /\ ~(i < x)
    BY <1>6, <2>1
  <2> QED BY <1>3, <1>4, <2>2
<1> QED BY <1>1, <1>2, <1>3, <1>4, <1>6

LEMMA IndexApplies ==
  ASSUME IndexInv, NEW ops, "dropSchema" \notin ops, ops \cap Search!RowOps = {},
         Search!AtDiff(ops), Search!Applied(Head(rest)),
         UNCHANGED <<log, setup, next, pending, confirmed, docs, indexer, lost, dropped>>,
         index.exists => index'.exists,
         \A t \in deletes' \ deletes :
           \E i \in DOMAIN log : log[i].op \in {"T", "drop"} /\ log[i].table = t
  PROVE  IndexStore' /\ IndexOrder' /\ IndexRows'
<1>1. SearchGrows
  BY AppliedParts DEF SearchGrows
<1>2. \A k \in Key : Head(rest) \notin RowEvents(k)
  BY AppliedParts DEF RowEvents, RowWrites, Search!IsWrite
<1> QED BY <1>1, <1>2, AppliedParts, IndexMoves

\* A failing diff is logged, with what was behind it.
LEMMA IndexGivesUp ==
  ASSUME IndexInv, indexer = "running", todo = <<>>, Search!GiveUp(Head(rest)),
         UNCHANGED <<log, setup, next, pending, confirmed, docs, indexer, deletes, written>>,
         index.exists => index'.exists
  PROVE  IndexStore' /\ IndexOrder' /\ IndexRows'
<1>1. /\ lost' = lost \cup {Head(rest)} /\ dropped' = dropped \cup (Elements(rest) \ {Head(rest)})
      /\ batch' = <<>> /\ Elements(rest') = {} /\ Elements(todo') = {} /\ Elements(todo) = {}
  BY EmptyElements DEF Search!GiveUp, Search!Range, Elements
<1>2. SearchGrows
  BY <1>1 DEF SearchGrows
<1>3. ASSUME NEW k, Search!Comparable(k)', NEW i \in RowEvents(k) PROVE i \notin Elements(rest)
  BY <1>1, <1>3, EventsKept
<1> QED BY <1>1, <1>2, <1>3, IndexMoves

LEMMA IndexDiffs ==
  ASSUME IndexInv,
         \/ \E n \in 0..3 : Search!ApplySchemaDiff(n)
         \/ Search!IgnoreDiff \/ Search!TruncateTable
  PROVE  IndexStore' /\ IndexOrder' /\ IndexRows'
<1>1. ASSUME NEW n, Search!ApplySchemaDiff(n) PROVE IndexStore' /\ IndexOrder' /\ IndexRows'
  <2> DEFINE i == Head(rest)
  <2>1. /\ Search!AtDiff({"create", "addColumn", "rename", "drop"})
        /\ UNCHANGED <<log, setup, next, pending, confirmed, indexer, docs>>
        /\ index' = Search!IndexAfter(i, n)
        /\ \/ /\ Search!Applied(i) /\ UNCHANGED <<lost, dropped>>
              /\ deletes' = IF log[i].op = "drop" THEN deletes \cup {log[i].table} ELSE deletes
           \/ Search!GiveUp(i) /\ UNCHANGED <<written, deletes>>
    BY <1>1 DEF Search!ApplySchemaDiff, Search!inputVars
  <2>2. index.exists => index'.exists
    BY <2>1 DEF Search!IndexAfter
  <2>3. indexer = "running" /\ todo = <<>> /\ rest # <<>> /\ i \in DOMAIN log
    BY <2>1, SearchHead DEF Search!AtDiff, IndexInv
  <2> DEFINE ops == {"create", "addColumn", "rename", "drop"}
  <2>4. "dropSchema" \notin ops /\ ops \cap Search!RowOps = {}
    BY DEF Search!RowOps
  <2>5. CASE /\ Search!Applied(i) /\ UNCHANGED <<lost, dropped>>
             /\ deletes' = IF log[i].op = "drop" THEN deletes \cup {log[i].table} ELSE deletes
    <3>1. \A t \in deletes' \ deletes :
            \E j \in DOMAIN log : log[j].op \in {"T", "drop"} /\ log[j].table = t
      BY <2>3, <2>5
    <3> HIDE DEF ops
    <3>2. Search!AtDiff(ops)
      BY <2>1 DEF ops
    <3> QED BY <2>1, <2>2, <2>4, <2>5, <3>1, <3>2, IndexApplies
  <2>6. CASE Search!GiveUp(i) /\ UNCHANGED <<written, deletes>>
    BY <2>1, <2>2, <2>3, <2>6, IndexGivesUp
  <2> QED BY <2>1, <2>5, <2>6
<1>2. CASE Search!IgnoreDiff
  <2>1. /\ Search!AtDiff({"none"}) /\ Search!Applied(Head(rest))
        /\ UNCHANGED <<log, setup, next, pending, confirmed, docs, indexer, index, deletes>>
        /\ UNCHANGED <<lost, dropped>>
    BY <1>2 DEF Search!IgnoreDiff, Search!inputVars, Search!storeVars
  <2>2. "dropSchema" \notin {"none"} /\ {"none"} \cap Search!RowOps = {}
    BY DEF Search!RowOps
  <2> QED BY <2>1, <2>2, IndexApplies
<1>3. CASE Search!TruncateTable
  <2>1. /\ Search!AtDiff({"T"})
        /\ UNCHANGED <<log, setup, next, pending, confirmed, docs, index, lost, dropped>>
        /\ \/ /\ Search!Applied(Head(rest)) /\ UNCHANGED indexer
              /\ deletes' = deletes \cup {log[Head(rest)].table}
           \/ Search!Stop /\ UNCHANGED <<written, deletes>>
    BY <1>3 DEF Search!TruncateTable, Search!inputVars
  <2>2. indexer = "running" /\ rest # <<>> /\ Head(rest) \in DOMAIN log /\ log[Head(rest)].op = "T"
    BY <2>1, SearchHead DEF Search!AtDiff, IndexInv
  <2>3. CASE /\ Search!Applied(Head(rest)) /\ UNCHANGED indexer
             /\ deletes' = deletes \cup {log[Head(rest)].table}
    <3>1. "dropSchema" \notin {"T"} /\ {"T"} \cap Search!RowOps = {}
      BY DEF Search!RowOps
    <3>2. \A t \in deletes' \ deletes :
            \E j \in DOMAIN log : log[j].op \in {"T", "drop"} /\ log[j].table = t
      BY <2>2, <2>3
    <3> QED BY <2>1, <2>3, <3>1, <3>2, IndexApplies
  <2>4. CASE Search!Stop /\ UNCHANGED <<written, deletes>>
    <3>1. SearchGrows
      BY <2>1, <2>4 DEF SearchGrows
    <3> QED BY <2>1, <2>2, <2>4, <3>1, IndexStops
  <2> QED BY <2>1, <2>3, <2>4
<1> QED BY <1>1, <1>2, <1>3

\* DROP SCHEMA ends every row whose changes came before it.
LEMMA IndexDeletesSchema ==
  ASSUME IndexInv, Search!DeleteSchema
  PROVE  IndexStore' /\ IndexOrder' /\ IndexRows'
<1> DEFINE i == Head(rest)
<1>1. /\ Search!AtDiff({"dropSchema"})
      /\ UNCHANGED <<log, setup, next, pending, confirmed, indexer>>
      /\ \/ /\ index' = Search!NoIndex /\ docs' = [k \in Key |-> Search!NoDoc] /\ deletes' = {}
            /\ Search!GiveUp(i) \/ (Search!Applied(i) /\ UNCHANGED <<lost, dropped>>)
         \/ Search!GiveUp(i) /\ UNCHANGED <<index, docs, deletes, written>>
  BY DEF Search!DeleteSchema, Search!inputVars, Search!storeVars
<1>2. /\ indexer = "running" /\ todo = <<>> /\ rest # <<>> /\ i \in DOMAIN log
      /\ log[i].op = "dropSchema" /\ i \in Elements(rest)
  <2>1. indexer = "running" /\ todo = <<>> /\ rest # <<>> /\ log[i].op = "dropSchema"
    BY <1>1 DEF Search!AtDiff
  <2> QED BY <2>1, SearchHead DEF IndexInv
<1>3. CASE Search!GiveUp(i) /\ UNCHANGED <<index, docs, deletes, written>>
  BY <1>1, <1>2, <1>3, IndexGivesUp
<1>4. CASE /\ index' = Search!NoIndex /\ docs' = [k \in Key |-> Search!NoDoc] /\ deletes' = {}
           /\ Search!GiveUp(i) \/ (Search!Applied(i) /\ UNCHANGED <<lost, dropped>>)
  <2>1. IndexStore'
    <3>1. docs' \in [Key -> DocType]
      BY <1>4 DEF DocType, Search!NoDoc
    <3> QED BY <1>1, <1>4, <3>1 DEF IndexInv, IndexStore, Search!NoDoc
  <2>2. CASE Search!GiveUp(i)
    <3>1. batch' = <<>> /\ Elements(rest') = {} /\ Elements(todo') = {} /\ i \in lost'
      BY <2>2, EmptyElements DEF Search!GiveUp
    <3>2. IndexOrder'
      BY <1>1, <1>2, <3>1, OrderMoves
    <3>3. \A k : ~Search!Comparable(k)'
      BY <1>1, <1>2, <3>1 DEF Search!Comparable
    <3> QED BY <2>1, <3>2, <3>3 DEF IndexRows
  <2>3. CASE Search!Applied(i) /\ UNCHANGED <<lost, dropped>>
    <3>1. /\ batch' = batch /\ \A t \in Elements(todo') : Search!IsWrite(t)
          /\ Elements(rest) = {i} \cup Elements(todo') \cup Elements(rest')
          /\ \A x \in Elements(rest'), j \in Elements(rest) : x < j => j \in Elements(rest')
      BY <1>1, <2>3, AppliedParts
    <3>2. IndexOrder'
      BY <1>1, <1>2, <3>1, OrderMoves
    <3>3. ASSUME NEW k \in Key, Search!Comparable(k)' PROVE RowShown(k)'
      <4>1. Search!Comparable(k) /\ RowEvents(k)' = RowEvents(k) /\ \A j : EndsRow(j)' = EndsRow(j)
        BY <1>1, <2>3, <3>3, StillComparable, SameDocuments
      <4>2. docs'[k] = Search!NoDoc' /\ ~index'.exists
        BY <1>4 DEF Search!NoDoc, Search!NoIndex
      <4>3. i \in RowEvents(k) /\ EndsRow(i)
        BY <1>2 DEF RowEvents, EndsRow
      <4>4. ASSUME NEW j \in RowEvents(k), j \notin Unsent' PROVE i >= j
        <5>1. CASE j \in Unsent
          <6>1. j = i
            BY <1>1, <1>2, <3>1, <4>4, <5>1, EmptyElements DEF Unsent
          <6> QED BY <1>2, <6>1, IndexParts
        <5>2. CASE j \notin Unsent
          <6>1. j < i
            BY <1>2, <4>1, <4>4, <5>2, SentIsOlder
          <6>2. j \in Int /\ i \in Int
            BY <1>2, <4>4, IndexParts DEF RowEvents, RowWrites
          <6> QED BY <6>1, <6>2
        <5> QED BY <5>1, <5>2
      <4>5. \A j \in RowEvents(k)' \ Unsent' : GoneSince(k, j)'
        BY <4>1, <4>2, <4>3, <4>4 DEF GoneSince
      <4> QED BY <4>2, <4>5 DEF RowShown
    <3> QED BY <2>1, <3>2, <3>3 DEF IndexRows
  <2> QED BY <1>4, <2>2, <2>3
<1> QED BY <1>1, <1>3, <1>4

LEMMA IndexCheckpoints ==
  ASSUME IndexInv, Search!Checkpoint
  PROVE  IndexStore' /\ IndexOrder' /\ IndexRows'
<1>1. /\ indexer = "running" /\ batch # <<>> /\ Elements(todo) = {} /\ Elements(rest) = {}
      /\ UNCHANGED <<log, setup, next, pending, index, docs, deletes, written, lost, dropped>>
  BY EmptyElements DEF Search!Checkpoint, Search!inputVars, Search!storeVars, Search!doneVars
<1>2. CASE confirmed' = Search!Last(batch) /\ batch' = <<>> /\ UNCHANGED <<indexer, rest, todo>>
  <2>1. confirmed' \in Elements(batch)
    <3>1. batch \in Seq(DOMAIN log) /\ Len(batch) # 0
      BY <1>1, EmptySeq DEF IndexInv, SearchInv, SearchShape
    <3>2. Len(batch) \in DOMAIN batch
      BY <3>1, LenProperties
    <3> QED BY <1>2, <3>2 DEF Search!Last, Elements
  <2>2. IndexStore'
    BY <1>1 DEF IndexInv, IndexStore, Search!NoDoc
  <2>3. IndexOrder'
    <3>1. Elements(batch') = {} /\ \A i \in Elements(pending) : confirmed' < i
      BY <1>2, <2>1, EmptyElements, IndexParts
    <3> QED BY <1>1, <1>2, <3>1 DEF IndexInv, IndexOrder, HasMessageAt, Search!IsWrite
  <2>4. IndexRows'
    <3>1. Unsent' = Unsent
      BY <1>1, <1>2 DEF Unsent
    <3> QED BY <1>1, <1>2, <3>1, RowsStay DEF IndexInv
  <2> QED BY <2>2, <2>3, <2>4
<1>3. CASE Search!Stop /\ UNCHANGED confirmed
  <2>1. SearchGrows
    BY <1>1 DEF SearchGrows
  <2> QED BY <1>1, <1>3, <2>1, IndexStops
<1> QED BY <1>2, <1>3 DEF Search!Checkpoint

LEMMA IndexRestarts ==
  ASSUME IndexInv, Search!Restart
  PROVE  IndexStore' /\ IndexOrder' /\ IndexRows'
<1>1. /\ indexer' = "running" /\ next' = confirmed + 1
      /\ Elements(pending') = {} /\ Elements(batch') = {}
      /\ Elements(rest') = {} /\ Elements(todo') = {}
      /\ UNCHANGED <<log, setup, confirmed, index, docs, deletes, lost, dropped>>
  BY EmptyElements DEF Search!Restart, Search!inputVars, Search!storeVars, Search!doneVars
<1>2. IndexStore'
  BY <1>1 DEF IndexInv, IndexStore, Search!NoDoc
<1>3. IndexOrder'
  BY <1>1 DEF IndexOrder
<1>4. Unsent \subseteq Unsent'
  BY <1>1, UnsentIsBeyond DEF Unsent
<1>5. IndexRows'
  BY <1>1, <1>4, RowsStay DEF IndexInv
<1> QED BY <1>2, <1>3, <1>5

\* A step of the store alone.
LEMMA IndexStill ==
  ASSUME IndexInv,
         UNCHANGED <<log, setup, next, pending, confirmed, indexer, batch, rest, todo, index, lost, dropped>>
  PROVE  /\ IndexOrder' /\ Unsent' = Unsent
         /\ (\A k \in Key : Search!Comparable(k) => docs'[k] = docs[k] \/ RowShown(k)') => IndexRows'
<1>1. IndexOrder'
  BY DEF IndexInv, IndexOrder, HasMessageAt, Search!IsWrite
<1>2. Unsent' = Unsent
  BY DEF Unsent
<1>3. ASSUME \A k \in Key : Search!Comparable(k) => docs'[k] = docs[k] \/ RowShown(k)',
             NEW k \in Key, Search!Comparable(k)'
      PROVE  RowShown(k)'
  <2>1. Search!Comparable(k) /\ RowShown(k)
    BY <1>3, StillComparable DEF IndexInv, IndexRows
  <2>2. CASE docs'[k] = docs[k]
    BY <1>2, <2>1, <2>2, RowStays
  <2> QED BY <1>3, <2>1, <2>2
<1> QED BY <1>1, <1>2, <1>3 DEF IndexRows

\* A task deletes documents of a table that was truncated or dropped.
LEMMA IndexRunsDelete ==
  ASSUME IndexInv, NEW table, Search!RunDelete(table)
  PROVE  IndexStore' /\ IndexOrder' /\ IndexRows'
<1>1. /\ table \in deletes /\ deletes' = deletes \ {table}
      /\ docs' = [k \in Key |->
                    IF TableOf[k] = table /\ docs[k].live /\ k \notin fresh
                    THEN [Search!NoDoc EXCEPT !.version = docs[k].version + 1] ELSE docs[k]]
      /\ UNCHANGED <<log, setup, next, pending, confirmed, indexer, batch, rest, todo, index>>
      /\ UNCHANGED <<lost, dropped>>
  BY DEF Search!RunDelete, Search!inputVars, Search!batchVars, Search!doneVars
<1>2. docs \in [Key -> DocType]
  BY DEF IndexInv, IndexStore
<1>3. docs' \in [Key -> DocType]
  <2>1. ASSUME NEW k \in Key PROVE [Search!NoDoc EXCEPT !.version = docs[k].version + 1] \in DocType
    <3>1. docs[k].version + 1 \in Nat
      BY <1>2 DEF DocType
    <3> QED BY <3>1 DEF DocType, Search!NoDoc
  <2> QED BY <1>1, <1>2, <2>1
<1>4. ~index.exists => docs' = docs
  <2> SUFFICES ASSUME ~index.exists PROVE docs' = docs
    OBVIOUS
  <2>1. docs = [k \in Key |-> Search!NoDoc]
    BY DEF IndexInv, IndexStore
  <2>2. \A k \in Key : ~docs[k].live
    BY <2>1 DEF Search!NoDoc
  <2>3. docs' = [k \in Key |-> docs[k]]
    BY <1>1, <2>2
  <2> QED BY <1>2, <2>3
<1>5. IndexStore'
  <2>1. ~index'.exists => docs' = [k \in Key |-> Search!NoDoc']
    BY <1>1, <1>4 DEF IndexInv, IndexStore, Search!NoDoc
  <2>2. log' \in Seq(Search!Change)
    BY <1>1 DEF IndexInv, IndexStore
  <2>3. \A t \in deletes' : \E i \in DOMAIN log' : log'[i].op \in {"T", "drop"} /\ log'[i].table = t
    BY <1>1 DEF IndexInv, IndexStore
  <2> QED BY <1>3, <2>1, <2>2, <2>3 DEF IndexStore
<1>6. ASSUME NEW k \in Key, Search!Comparable(k) PROVE docs'[k] = docs[k]
  <2>1. TableOf[k] # table
    BY <1>1, <1>6 DEF IndexInv, IndexStore, Search!Comparable
  <2> QED BY <1>1, <2>1
<1> QED BY <1>1, <1>5, <1>6, IndexStill

\* The store forgets a deleted document.
LEMMA IndexForgets ==
  ASSUME IndexInv, NEW k \in Key, Search!Forget(k)
  PROVE  IndexStore' /\ IndexOrder' /\ IndexRows'
<1>1. /\ batch = <<>> /\ ~docs[k].live /\ docs[k].version > 0
      /\ docs' = [docs EXCEPT ![k] = Search!NoDoc]
      /\ UNCHANGED <<log, setup, next, pending, confirmed, indexer, batch, rest, todo, index>>
      /\ UNCHANGED <<lost, dropped, deletes>>
  BY DEF Search!Forget, Search!inputVars, Search!batchVars, Search!doneVars
<1>2. docs \in [Key -> DocType] /\ docs[k] # Search!NoDoc
  BY <1>1 DEF IndexInv, IndexStore, Search!NoDoc
<1>3. IndexStore'
  <2>1. docs' \in [Key -> DocType]
    BY <1>1, <1>2 DEF DocType, Search!NoDoc
  <2>2. index.exists
    BY <1>2 DEF IndexInv, IndexStore
  <2> QED BY <1>1, <2>1, <2>2 DEF IndexInv, IndexStore
<1>4. ASSUME Search!Comparable(k) PROVE RowShown(k)'
  <2>1. RowShown(k)
    BY <1>4 DEF IndexInv, IndexRows
  <2>2. /\ docs'[k] = Search!NoDoc' /\ Elements(todo') = {} /\ Unsent' = Unsent
        /\ RowWrites(k)' = RowWrites(k) /\ RowEvents(k)' = RowEvents(k)
        /\ \A j : EndsRow(j)' = EndsRow(j)
    <3>1. docs'[k] = Search!NoDoc'
      BY <1>1, <1>2 DEF Search!NoDoc
    <3>2. Elements(todo') = {}
      BY <1>1, EmptyElements, IndexParts
    <3> QED BY <1>1, <3>1, <3>2, IndexStill, SameDocuments
  <2>3. ASSUME NEW j \in RowWrites(k), docs[k] = Search!Document(j)
        PROVE  j \in RowEvents(k) /\ EndsRow(j)
    <3>1. Search!IsDelete(j)
      BY <1>1, <2>3, Documents DEF RowWrites, IndexInv, IndexStore
    <3> QED BY <3>1 DEF RowEvents, EndsRow, Search!IsDelete
  <2>4. \A i \in RowEvents(k)' \ Unsent' : GoneSince(k, i)'
    <3> SUFFICES ASSUME NEW i \in RowEvents(k) \ Unsent PROVE GoneSince(k, i)'
      BY <2>2
    <3>1. ShownSince(k, i)
      BY <1>2, <2>1 DEF RowShown, GoneSince
    <3>2. \E j \in RowEvents(k) : j >= i /\ EndsRow(j)
      BY <2>3, <3>1 DEF ShownSince
    <3> QED BY <2>2, <3>2 DEF GoneSince
  <2> QED BY <2>2, <2>4 DEF RowShown
<1>5. \A n \in Key : n = k \/ docs'[n] = docs[n]
  BY <1>1, <1>2
<1> QED BY <1>1, <1>3, <1>4, <1>5, IndexStill

\* The store takes an item, or knows a later one, or refuses it.
Fails(d, i) ==
  /\ Search!ItemStatus(d, i) # 200
  /\ Search!Severity(Search!ItemStatus(d, i), Search!IsDelete(i)) = "dataLoss"

LEMMA Stores ==
  ASSUME log \in Seq(Search!Change), NEW d \in [Key -> DocType], NEW i \in DOMAIN log,
         Search!IsWrite(i)
  PROVE  LET e == Search!Stored(d, i)
         IN  /\ e \in [Key -> DocType]
             /\ \A k \in Key : \/ e[k] = d[k]
                               \/ /\ index.exists /\ log[i].to = k /\ e[k] = Search!Document(i)
                                  /\ d[k].version < Search!Version(i)
             /\ Fails(d, i) \/ e[log[i].to].version >= Search!Version(i)
                \/ (~index.exists /\ Search!IsDelete(i))
<1> DEFINE e == Search!Stored(d, i)
           x == log[i].to
           answer == Search!ItemStatus(d, i)
<1>1. /\ x \in Key /\ Search!Document(i) \in DocType
      /\ Search!Document(i).version = Search!Version(i) /\ Search!Version(i) \in Nat
  <2>1. i \in Nat
    BY Documents
  <2> QED BY <2>1, Documents
<1>2. d[x].version \in Nat /\ d[x] \in DocType
  BY <1>1 DEF DocType
<1>3. /\ ~index.exists => answer = 404
      /\ index.exists /\ answer \in {200, 404} => d[x].version < Search!Version(i)
      /\ answer \in {200, 400, 404, 409}
      /\ index.exists /\ answer = 409 => d[x].version >= Search!Version(i)
      /\ answer = 400 => ~Search!IsDelete(i)
      /\ index.exists /\ answer = 404 => Search!IsDelete(i)
  BY <1>1, <1>2 DEF Search!ItemStatus
<1>4. e = IF answer = 200 \/ (answer = 404 /\ index.exists) THEN [d EXCEPT ![x] = Search!Document(i)] ELSE d
  BY DEF Search!Stored
<1>5. Fails(d, i) <=> answer = 400 \/ (answer = 404 /\ ~Search!IsDelete(i))
  BY <1>3 DEF Fails, Search!Severity
<1> HIDE DEF e, answer, x
<1>6. CASE index.exists /\ answer \in {200, 404}
  <2>1. e = [d EXCEPT ![x] = Search!Document(i)]
    BY <1>4, <1>6
  <2>2. e \in [Key -> DocType] /\ e[x] = Search!Document(i) /\ \A k \in Key : k = x \/ e[k] = d[k]
    BY <1>1, <2>1
  <2>3. e[x].version >= Search!Version(i)
    BY <1>1, <2>2
  <2> QED BY <1>3, <1>6, <2>2, <2>3 DEF e, x
<1>7. CASE ~(index.exists /\ answer \in {200, 404})
  <2>1. e = d
    BY <1>3, <1>4, <1>7
  <2>2. Fails(d, i) \/ d[x].version >= Search!Version(i) \/ (~index.exists /\ Search!IsDelete(i))
    BY <1>3, <1>5, <1>7
  <2> QED BY <2>1, <2>2 DEF e, x
<1> QED BY <1>6, <1>7

LEMMA DocsSteps ==
  ASSUME log \in Seq(Search!Change), docs \in [Key -> DocType], NEW s \in Seq(DOMAIN log),
         \A t \in Elements(s) : Search!IsWrite(t)
  PROVE  LET f == Search!DocsAfter(s)
         IN  /\ f \in [0..Len(s) -> [Key -> DocType]] /\ f[0] = docs
             /\ \A n \in 1..Len(s) : f[n] = Search!Stored(f[n - 1], s[n])
<1> DEFINE D == [Key -> DocType]
           step == [n \in 1..Len(s) |-> [d \in D |-> Search!Stored(d, s[n])]]
           IsAfter(f) == f = [n \in 0..Len(s) |->
                               IF n = 0 THEN docs ELSE Search!Stored(f[n - 1], s[n])]
<1>1. Len(s) \in Nat /\ DOMAIN s = 1..Len(s) /\ \A n \in 1..Len(s) : s[n] \in DOMAIN log
  BY LenProperties
<1>2. docs \in D
  OBVIOUS
<1>3. ASSUME NEW n \in 1..Len(s), NEW d \in D PROVE Search!Stored(d, s[n]) \in D
  <2>1. Search!IsWrite(s[n])
    BY <1>1 DEF Elements
  <2> QED BY <1>1, <2>1, Stores
<1> HIDE DEF D
<1>4. step \in [1..Len(s) -> [D -> D]]
  BY <1>3
<1>5. PICK f : Iteration(Len(s), D, docs, step, f)
  <2> HIDE DEF step
  <2> QED BY <1>1, <1>2, <1>4, Iterates
<1>6. \A n \in 0..Len(s) : n = 0 \/ (n \in 1..Len(s) /\ n - 1 \in 0..Len(s))
  BY <1>1
<1>7. \A n \in 1..Len(s) : f[n] = Search!Stored(f[n - 1], s[n])
  <2> SUFFICES ASSUME NEW n \in 1..Len(s) PROVE f[n] = Search!Stored(f[n - 1], s[n])
    OBVIOUS
  <2>1. n - 1 \in 0..Len(s)
    BY <1>1
  <2>2. f[n - 1] \in D /\ f[n] = step[n][f[n - 1]]
    BY <1>5, <2>1 DEF Iteration
  <2> QED BY <2>2
<1>8. IsAfter(f)
  BY <1>5, <1>6, <1>7 DEF Iteration
<1>9. Search!DocsAfter(s) = CHOOSE g : IsAfter(g)
  BY DEF Search!DocsAfter
<1> DEFINE after == CHOOSE g : IsAfter(g)
<1>10. IsAfter(after)
  <2> HIDE DEF IsAfter
  <2> QED BY <1>8
<1> HIDE DEF after, step
<1>11. /\ after = [n \in 0..Len(s) |-> after[n]] /\ after[0] = docs
       /\ \A n \in 1..Len(s) : after[n] = Search!Stored(after[n - 1], s[n])
  BY <1>1, <1>10
<1>12. \A n \in 0..Len(s) : after[n] \in D
  <2> DEFINE S == {n \in 0..Len(s) : after[n] \in D}
  <2>1. 0 \in S
    BY <1>1, <1>2, <1>11
  <2>2. ASSUME NEW n \in 0..Len(s), n \in S, n < Len(s) PROVE n + 1 \in S
    <3> DEFINE m == n + 1
    <3>1. m \in 1..Len(s) /\ m \in 0..Len(s) /\ m - 1 = n
      BY <1>1, <2>2
    <3> HIDE DEF m
    <3>2. after[m] = Search!Stored(after[n], s[m])
      BY <1>11, <3>1
    <3>3. m \in S
      BY <1>3, <2>2, <3>1, <3>2
    <3> QED BY <3>3 DEF m
  <2> HIDE DEF S
  <2>3. \A n \in 0..Len(s) : n \in S /\ n < Len(s) => n + 1 \in S
    BY <2>2
  <2>4. \A n \in 0..Len(s) : n \in S
    BY <1>1, <2>1, <2>3, UpTo
  <2> QED BY <2>4 DEF S
<1>13. after \in [0..Len(s) -> D]
  BY <1>11, <1>12
<1> QED BY <1>9, <1>11, <1>13 DEF after, D

\* A request leaves each row the newest of what it had and what the store took.
LEMMA RequestShows ==
  ASSUME log \in Seq(Search!Change), docs \in [Key -> DocType], NEW s \in Seq(DOMAIN log),
         \A t \in Elements(s) : Search!IsWrite(t), NEW k \in Key
  PROVE  LET f == Search!DocsAfter(s)
             e == f[Len(s)]
         IN  /\ e \in [Key -> DocType]
             /\ ~index.exists => e = docs
             /\ e[k].version >= docs[k].version
             /\ \/ e[k] = docs[k]
                \/ index.exists /\ \E t \in Elements(s) : log[t].to = k /\ e[k] = Search!Document(t)
             /\ \A m \in 1..Len(s) : log[s[m]].to = k =>
                  \/ Fails(f[m - 1], s[m]) \/ e[k].version >= Search!Version(s[m])
                  \/ ~index.exists /\ Search!IsDelete(s[m])
<1> DEFINE f == Search!DocsAfter(s)
<1>1. /\ Len(s) \in Nat /\ DOMAIN s = 1..Len(s)
      /\ \A n \in 1..Len(s) : s[n] \in DOMAIN log /\ s[n] \in Elements(s) /\ Search!IsWrite(s[n])
  BY LenProperties DEF Elements
<1>2. /\ \A n \in 0..Len(s) : f[n] \in [Key -> DocType]
      /\ f[0] = docs /\ \A n \in 1..Len(s) : f[n] = Search!Stored(f[n - 1], s[n])
  BY DocsSteps
<1> HIDE DEF f
<1> DEFINE Taken(n) ==
             /\ ~index.exists => f[n] = docs
             /\ f[n][k].version >= docs[k].version
             /\ \/ f[n][k] = docs[k]
                \/ index.exists /\ \E t \in Elements(s) : log[t].to = k /\ f[n][k] = Search!Document(t)
             /\ \A m \in 1..n : log[s[m]].to = k =>
                  \/ Fails(f[m - 1], s[m]) \/ f[n][k].version >= Search!Version(s[m])
                  \/ ~index.exists /\ Search!IsDelete(s[m])
           Good == {n \in 0..Len(s) : Taken(n)}
<1>3. \A n \in 0..Len(s) : f[n][k].version \in Nat
  BY <1>2 DEF DocType
<1>4. 0 \in Good
  <2>1. Taken(0)
    BY <1>1, <1>2, <1>3
  <2> HIDE DEF Taken
  <2> QED BY <1>1, <2>1
<1>5. ASSUME NEW n \in 0..Len(s), n \in Good, n < Len(s) PROVE n + 1 \in Good
  <2> DEFINE m == n + 1
  <2>1. /\ m \in 1..Len(s) /\ m \in 0..Len(s) /\ m - 1 = n /\ n \in 0..Len(s) /\ 0 \in 0..Len(s)
        /\ \A l \in 1..m : l = m \/ l \in 1..n
    <3> HIDE DEF Good
    <3>1. n \in Nat /\ Len(s) \in Nat /\ n < Len(s)
      BY <1>1, <1>5
    <3> QED BY <3>1
  <2>2. Taken(n)
    BY <1>5
  <2> HIDE DEF m
  <2> DEFINE i == s[m]
             e == f[m]
             d == f[n]
  <2>3. e = Search!Stored(d, i) /\ i \in DOMAIN log /\ Search!IsWrite(i) /\ i \in Elements(s)
    BY <1>1, <1>2, <2>1
  <2>4. d \in [Key -> DocType] /\ e \in [Key -> DocType]
    BY <1>2, <2>1
  <2>5. Search!Version(i) \in Nat /\ Search!Document(i).version = Search!Version(i)
    <3>1. i \in Nat
      BY <2>3, Documents
    <3>2. Search!Version(i) \in {4 * i, 4 * i + 1} /\ Search!Document(i).version = Search!Version(i)
      BY <2>3, Documents
    <3> HIDE DEF i
    <3>3. 4 * i \in Nat /\ 4 * i + 1 \in Nat
      BY <3>1
    <3> QED BY <3>2, <3>3
  <2>6. /\ \A x \in Key : \/ e[x] = d[x]
                          \/ /\ index.exists /\ log[i].to = x /\ e[x] = Search!Document(i)
                             /\ d[x].version < Search!Version(i)
        /\ Fails(d, i) \/ e[log[i].to].version >= Search!Version(i)
           \/ (~index.exists /\ Search!IsDelete(i))
    <3> HIDE DEF d, e
    <3> DEFINE g == Search!Stored(d, i)
    <3>1. /\ \A x \in Key : \/ g[x] = d[x]
                            \/ /\ index.exists /\ log[i].to = x /\ g[x] = Search!Document(i)
                               /\ d[x].version < Search!Version(i)
          /\ Fails(d, i) \/ g[log[i].to].version >= Search!Version(i)
             \/ (~index.exists /\ Search!IsDelete(i))
      BY <2>3, <2>4, Stores
    <3>2. e = g
      BY <2>3
    <3> QED BY <3>1, <3>2
  <2>7. d[k].version \in Nat /\ e[k].version \in Nat /\ docs[k].version \in Nat
    <3>1. f[n][k].version \in Nat /\ f[m][k].version \in Nat /\ f[0][k].version \in Nat
      BY <1>3, <2>1
    <3> QED BY <1>2, <3>1
  <2>8. e[k].version >= d[k].version
    BY <2>5, <2>6, <2>7
  <2>9. ~index.exists => e = docs
    <3> SUFFICES ASSUME ~index.exists PROVE e = docs
      OBVIOUS
    <3>1. \A x \in Key : e[x] = d[x]
      BY <2>6
    <3>2. e = d
      BY <2>4, <3>1
    <3> QED BY <2>2, <3>2
  <2>10. \/ e[k] = docs[k]
         \/ index.exists /\ \E t \in Elements(s) : log[t].to = k /\ e[k] = Search!Document(t)
    BY <2>2, <2>3, <2>6
  <2>11. e[k].version >= docs[k].version
    BY <2>2, <2>7, <2>8
  <2>12. ASSUME NEW l \in 1..m, log[s[l]].to = k
         PROVE  \/ Fails(f[l - 1], s[l]) \/ e[k].version >= Search!Version(s[l])
                \/ ~index.exists /\ Search!IsDelete(s[l])
    <3>1. CASE l = m
      BY <2>1, <2>6, <2>12, <3>1
    <3>2. CASE l \in 1..n
      <4>1. \/ Fails(f[l - 1], s[l]) \/ d[k].version >= Search!Version(s[l])
            \/ ~index.exists /\ Search!IsDelete(s[l])
        BY <2>2, <2>12, <3>2
      <4>2. Search!Version(s[l]) \in Nat
        <5>1. l \in 1..Len(s)
          BY <1>1, <1>5, <3>2
        <5>2. s[l] \in Nat /\ Search!Version(s[l]) \in {4 * s[l], 4 * s[l] + 1}
          BY <1>1, <5>1, Documents
        <5> QED BY <5>2
      <4> QED BY <2>7, <2>8, <4>1, <4>2
    <3> QED BY <2>1, <3>1, <3>2
  <2>13. Taken(m)
    BY <2>9, <2>10, <2>11, <2>12
  <2>14. m \in Good
    <3> HIDE DEF Taken
    <3> QED BY <2>1, <2>13
  <2> QED BY <2>14 DEF m
<1>6. Taken(Len(s))
  <2> HIDE DEF Taken
  <2>1. \A n \in 0..Len(s) : n \in Good /\ n < Len(s) => n + 1 \in Good
    BY <1>5
  <2> HIDE DEF Good
  <2>2. \A n \in 0..Len(s) : n \in Good
    BY <1>1, <1>4, <2>1, UpTo
  <2>3. Len(s) \in Good
    BY <1>1, <2>2
  <2> QED BY <2>3 DEF Good
<1>7. f[Len(s)] \in [Key -> DocType]
  BY <1>1, <1>2
<1> QED BY <1>6, <1>7 DEF f

LEMMA IndexAnswers ==
  ASSUME IndexInv, NEW throttled, Search!BulkAnswered(throttled)
  PROVE  IndexStore' /\ IndexOrder' /\ IndexRows'
<1> DEFINE items == {i \in Search!Range(todo) : log[i].flaw # "long"}
           taken == Search!Selected(todo, items \ throttled)
           f == Search!DocsAfter(taken)
           failing == {taken[n] : n \in {m \in DOMAIN taken : Fails(f[m - 1], taken[m])}}
<1>1. /\ indexer = "running" /\ throttled \subseteq items
      /\ docs' = f[Len(taken)]
      /\ lost' = lost \cup failing \cup (Search!Range(todo) \ items)
                      \cup (IF Search!LastTry THEN throttled ELSE {})
      /\ IF Search!LastTry \/ Search!Retried(throttled) = <<>>
         THEN todo' = <<>> ELSE todo' = Search!Retried(throttled)
      /\ UNCHANGED <<log, setup, next, pending, confirmed, indexer, batch, rest, index, deletes, dropped>>
  BY DEF Search!BulkAnswered, Search!inputVars, Fails
<1>2. Search!Range(todo) = Elements(todo)
  BY DEF Search!Range, Elements
<1>3. /\ log \in Seq(Search!Change) /\ docs \in [Key -> DocType] /\ todo \in Seq(DOMAIN log)
      /\ DOMAIN log \subseteq Int /\ \A t \in Elements(todo) : t \in DOMAIN log /\ Search!IsWrite(t)
  BY IndexParts, SearchParts DEF IndexInv, IndexStore, IndexOrder
<1>4. taken \in Seq(DOMAIN log) /\ Elements(taken) = Elements(todo) \cap (items \ throttled)
  <2>1. taken = Selected(todo, items \ throttled)
    BY DEF Search!Selected, Selected
  <2> HIDE DEF items, taken
  <2> QED BY <1>3, <2>1, SelectedProperties
<1>5. Elements(Search!Retried(throttled)) = Elements(todo) \cap throttled
  <2>1. Search!Retried(throttled) = Selected(todo, throttled)
    BY DEF Search!Retried, Search!Selected, Selected
  <2> QED BY <1>3, <2>1, SelectedProperties
<1>6. items = {i \in Elements(todo) : log[i].flaw # "long"}
  BY <1>2
<1> HIDE DEF items, taken
<1>7. Elements(todo') \subseteq Elements(todo)
  BY <1>1, <1>5, EmptyElements
<1>8. ASSUME NEW i \in Elements(todo), i \notin Elements(todo'), i \notin lost'
      PROVE  \E m \in 1..Len(taken) : taken[m] = i /\ ~Fails(f[m - 1], taken[m])
  <2>1. i \in items
    BY <1>1, <1>2, <1>8
  <2>2. i \notin throttled
    <3> SUFFICES ASSUME i \in throttled PROVE FALSE
      OBVIOUS
    <3>1. ~Search!LastTry
      BY <1>1, <1>8
    <3>2. i \in Elements(Search!Retried(throttled))
      BY <1>5, <1>8
    <3> QED BY <1>1, <1>8, <3>1, <3>2, EmptyElements
  <2>3. PICK m \in DOMAIN taken : taken[m] = i
    BY <1>4, <1>8, <2>1, <2>2 DEF Elements
  <2>4. DOMAIN taken = 1..Len(taken)
    BY <1>4, LenProperties
  <2> QED BY <1>1, <1>8, <2>3, <2>4
<1>9. /\ docs' \in [Key -> DocType]
      /\ ~index.exists => docs' = docs
      /\ \A k \in Key :
           /\ docs'[k].version >= docs[k].version
           /\ \/ docs'[k] = docs[k]
              \/ index.exists /\ \E t \in Elements(taken) : log[t].to = k /\ docs'[k] = Search!Document(t)
           /\ \A m \in 1..Len(taken) : log[taken[m]].to = k =>
                \/ Fails(f[m - 1], taken[m]) \/ docs'[k].version >= Search!Version(taken[m])
                \/ ~index.exists /\ Search!IsDelete(taken[m])
  <2>1. \A t \in Elements(taken) : Search!IsWrite(t)
    BY <1>3, <1>4
  <2>2. docs' = f[Len(taken)]
    BY <1>1
  <2>3. /\ f[Len(taken)] \in [Key -> DocType]
        /\ ~index.exists => f[Len(taken)] = docs
    <3>1. CASE Key = {}
      <4>1. f \in [0..Len(taken) -> [Key -> DocType]]
        BY <1>3, <1>4, <2>1, DocsSteps
      <4>2. Len(taken) \in 0..Len(taken)
        BY <1>4, LenProperties
      <4>3. f[Len(taken)] \in [Key -> DocType]
        BY <4>1, <4>2
      <4>4. f[Len(taken)] = docs
        BY <1>3, <3>1, <4>3
      <4> QED BY <4>3, <4>4
    <3>2. CASE Key # {}
      BY <1>3, <1>4, <2>1, <3>2, RequestShows
    <3> QED BY <3>1, <3>2
  <2>4. \A k \in Key :
          /\ f[Len(taken)][k].version >= docs[k].version
          /\ \/ f[Len(taken)][k] = docs[k]
             \/ /\ index.exists
                /\ \E t \in Elements(taken) : log[t].to = k /\ f[Len(taken)][k] = Search!Document(t)
          /\ \A m \in 1..Len(taken) : log[taken[m]].to = k =>
               \/ Fails(f[m - 1], taken[m]) \/ f[Len(taken)][k].version >= Search!Version(taken[m])
               \/ ~index.exists /\ Search!IsDelete(taken[m])
    BY <1>3, <1>4, <2>1, RequestShows
  <2> HIDE DEF f
  <2> QED BY <2>2, <2>3, <2>4
<1> HIDE DEF f, failing
<1>10. IndexStore'
  <2>1. ~index'.exists => docs' = [k \in Key |-> Search!NoDoc']
    <3>1. ~index.exists => docs' = docs
      BY <1>9
    <3>2. ~index.exists => docs = [k \in Key |-> Search!NoDoc]
      BY DEF IndexInv, IndexStore
    <3> QED BY <1>1, <3>1, <3>2 DEF Search!NoDoc
  <2>2. log' \in Seq(Search!Change)
    BY <1>1, <1>3
  <2>3. \A t \in deletes' : \E i \in DOMAIN log' : log'[i].op \in {"T", "drop"} /\ log'[i].table = t
    BY <1>1 DEF IndexInv, IndexStore
  <2>4. docs' \in [Key -> DocType]
    BY <1>9
  <2>5. docs' \in [Key -> DocType']
    BY <2>4 DEF DocType
  <2> QED BY <2>1, <2>2, <2>3, <2>5 DEF IndexStore
<1>11. IndexOrder'
  BY <1>1, <1>3, <1>7, OrderMoves
<1>12. ASSUME NEW k \in Key, Search!Comparable(k)' PROVE RowShown(k)'
  <2>1. /\ Search!Comparable(k) /\ RowShown(k)
        /\ RowWrites(k)' = RowWrites(k) /\ RowEvents(k)' = RowEvents(k)
        /\ \A j : Search!Document(j)' = Search!Document(j) /\ EndsRow(j)' = EndsRow(j)
        /\ \A i \in RowEvents(k) : i \notin lost'
    <3>1. lost \subseteq lost' /\ dropped \subseteq dropped'
      BY <1>1
    <3>2. Search!Comparable(k)
      BY <1>1, <1>12, <3>1, StillComparable
    <3> QED BY <1>1, <1>12, <3>2, SameDocuments, EventsKept DEF IndexInv, IndexRows
  <2>2. \A t \in Elements(taken) : t \in Elements(todo) /\ (log[t].to = k => t \in RowWrites(k))
    BY <1>3, <1>4 DEF RowWrites
  <2>3. docs'[k] = Search!NoDoc \/ \E j \in RowWrites(k) : docs'[k] = Search!Document(j)
    BY <1>9, <2>1, <2>2 DEF RowShown
  <2>4. \A j \in RowWrites(k) : /\ j \in DOMAIN log /\ j \in Nat /\ Search!IsWrite(j)
                                /\ Search!Version(j) \in Nat /\ Search!Version(j) > 0
                                /\ Search!Document(j).version = Search!Version(j)
    <3>1. \A j \in RowWrites(k) : j \in DOMAIN log /\ Search!IsWrite(j)
      BY DEF RowWrites
    <3>2. \A j \in RowWrites(k) : j \in Nat
      BY <1>3, <3>1, Documents
    <3> QED BY <1>3, <3>1, <3>2, Documents
  <2>5. ASSUME NEW i \in RowWrites(k), docs'[k].version >= Search!Version(i)
        PROVE  \E j \in RowWrites(k) : j >= i /\ docs'[k] = Search!Document(j)
    <3>1. docs'[k] # Search!NoDoc
      BY <2>4, <2>5 DEF Search!NoDoc
    <3>2. PICK j \in RowWrites(k) : docs'[k] = Search!Document(j)
      BY <2>3, <3>1
    <3>3. i <= j
      BY <1>3, <2>4, <2>5, <3>2, LaterVersion
    <3> QED BY <2>4, <3>2, <3>3
  <2>6. ASSUME NEW i \in RowEvents(k), i \notin Unsent' PROVE ShownSince(k, i)' \/ GoneSince(k, i)'
    <3>0. i \in DOMAIN log /\ i \in Int
      BY <1>3 DEF RowEvents, RowWrites
    <3>1. CASE i \in Unsent
      <4>1. i \in Elements(todo) /\ i \notin Elements(todo')
        BY <1>1, <2>6, <3>1 DEF Unsent
      <4>2. PICK m \in 1..Len(taken) : taken[m] = i /\ ~Fails(f[m - 1], taken[m])
        BY <1>8, <2>1, <4>1
      <4>3. Search!IsWrite(i) /\ i \in RowWrites(k) /\ log[i].to = k
        BY <1>3, <4>1 DEF RowEvents, RowWrites, Search!IsWrite, Search!RowOps
      <4>4. docs'[k].version >= Search!Version(i) \/ (~index.exists /\ Search!IsDelete(i))
        BY <1>9, <4>2, <4>3
      <4>5. CASE docs'[k].version >= Search!Version(i)
        BY <2>1, <2>5, <4>3, <4>5 DEF ShownSince
      <4>6. CASE ~index.exists /\ Search!IsDelete(i)
        <5>1. docs'[k] = Search!NoDoc'
          BY <1>9, <4>6 DEF IndexInv, IndexStore, Search!NoDoc
        <5>2. EndsRow(i) /\ i >= i
          BY <3>0, <4>6 DEF EndsRow, Search!IsDelete
        <5> QED BY <1>1, <2>1, <2>6, <4>6, <5>1, <5>2 DEF GoneSince
      <4> QED BY <4>4, <4>5, <4>6
    <3>2. CASE i \notin Unsent /\ ShownSince(k, i)
      <4>1. PICK j \in RowWrites(k) : j >= i /\ docs[k] = Search!Document(j)
        BY <3>2 DEF ShownSince
      <4>2. docs'[k].version >= Search!Version(j)
        BY <1>9, <2>4, <4>1
      <4>3. PICK l \in RowWrites(k) : l >= j /\ docs'[k] = Search!Document(l)
        BY <2>5, <4>2
      <4>4. l >= i
        BY <2>4, <3>0, <4>1, <4>3
      <4> QED BY <2>1, <4>3, <4>4 DEF ShownSince
    <3>3. CASE i \notin Unsent /\ GoneSince(k, i)
      <4>1. CASE docs'[k] = docs[k]
        BY <1>1, <1>7, <2>1, <3>3, <4>1 DEF GoneSince, Search!NoDoc
      <4>2. CASE index.exists /\ \E t \in Elements(taken) : log[t].to = k /\ docs'[k] = Search!Document(t)
        <5>1. PICK t \in Elements(taken) : log[t].to = k /\ docs'[k] = Search!Document(t)
          BY <4>2
        <5>2. i < t
          BY <2>2, <3>3, <4>2 DEF GoneSince
        <5>3. t >= i /\ t \in RowWrites(k)
          BY <2>2, <2>4, <3>0, <5>1, <5>2
        <5> QED BY <2>1, <5>1, <5>3 DEF ShownSince
      <4> QED BY <1>9, <4>1, <4>2
    <3> QED BY <2>1, <2>6, <3>1, <3>2, <3>3 DEF RowShown
  <2> QED BY <2>1, <2>3, <2>6 DEF RowShown, Search!NoDoc
<1> QED BY <1>10, <1>11, <1>12 DEF IndexRows

LEMMA IndexStarts == Search!SearchInit => IndexInv
<1> SUFFICES ASSUME Search!SearchInit PROVE IndexInv
  OBVIOUS
<1>1. /\ log \in Seq(Search!Change) /\ next = 1 /\ confirmed = 0 /\ indexer = "running"
      /\ docs = [k \in Key |-> Search!NoDoc] /\ deletes = {}
      /\ Elements(pending) = {} /\ Elements(batch) = {} /\ Elements(rest) = {} /\ Elements(todo) = {}
  BY TargetsAssumption, EmptyElements
  DEF TargetsAssumption, Search!SearchAssumption, Search!SearchInit
<1>2. IndexStore
  BY <1>1 DEF IndexStore, DocType, Search!NoDoc
<1>3. IndexOrder
  BY <1>1 DEF IndexOrder
<1>4. IndexRows
  <2>1. DOMAIN log = 1..Len(log)
    BY <1>1, LenProperties
  <2>2. \A k : RowEvents(k) \ Unsent = {}
    BY <1>1, <2>1 DEF Unsent, RowEvents, RowWrites
  <2> QED BY <1>1, <2>2 DEF IndexRows, RowShown
<1> QED BY <1>2, <1>3, <1>4, SearchStarts DEF IndexInv

LEMMA IndexSteps == IndexInv /\ Search!SearchNext => IndexInv'
<1> SUFFICES ASSUME IndexInv, Search!SearchNext PROVE IndexInv'
  OBVIOUS
<1>1. SearchInv'
  BY SearchSteps DEF IndexInv
<1>2. CASE Search!Refresh
  <2>1. /\ UNCHANGED <<log, setup, next, pending, confirmed, indexer, batch, rest, todo, index>>
        /\ UNCHANGED <<lost, dropped, docs, deletes>>
    BY <1>2 DEF Search!Refresh, Search!inputVars, Search!batchVars, Search!doneVars
  <2>2. IndexStore'
    BY <2>1 DEF IndexInv, IndexStore, Search!NoDoc
  <2> QED BY <1>1, <2>1, <2>2, IndexStill DEF IndexInv
<1>3. Search!Refresh \/ (IndexStore' /\ IndexOrder' /\ IndexRows')
  BY IndexProcesses, IndexRestarts, IndexDiffs, IndexDeletesSchema, IndexCheckpoints,
     IndexSendsBatch, IndexAnswers, IndexFails, IndexRunsDelete, IndexForgets
  DEF Search!SearchNext
<1> QED BY <1>1, <1>2, <1>3 DEF IndexInv

\* A row of the source is what its last change left there.
LEMMA LastOfTheRow ==
  ASSUME log \in Seq(Search!Change), NEW k \in Key, Search!Comparable(k)
  PROVE  LET row == Search!Source(log)[Len(log)][k]
         IN  \/ RowEvents(k) = {} /\ row = Search!NoRow
             \/ \E l \in RowEvents(k) :
                  /\ \A i \in RowEvents(k) : i <= l
                  /\ IF EndsRow(l) THEN row = Search!NoRow
                     ELSE row = [live |-> TRUE, body |-> l, toast |-> Search!Source(log)[l][k].toast]
<1> DEFINE rowsAt == Search!Source(log)
           Left(n) ==
             \/ (\A i \in RowEvents(k) : i > n) /\ rowsAt[n][k] = Search!NoRow
             \/ \E l \in RowEvents(k) :
                  /\ l <= n /\ \A i \in RowEvents(k) : i <= l \/ i > n
                  /\ IF EndsRow(l) THEN rowsAt[n][k] = Search!NoRow
                     ELSE rowsAt[n][k] = [live |-> TRUE, body |-> l, toast |-> rowsAt[l][k].toast]
           Good == {n \in 0..Len(log) : Left(n)}
<1>1. /\ Len(log) \in Nat /\ DOMAIN log = 1..Len(log)
      /\ \A i \in DOMAIN log : log[i] \in Search!Change
  BY LenProperties
<1>2. /\ \A n \in 0..Len(log) : rowsAt[n] \in [Key -> SourceRow]
      /\ rowsAt[0] = [x \in Key |-> Search!NoRow]
      /\ \A n \in 1..Len(log) : rowsAt[n] = Search!RowsAfter(rowsAt[n - 1], log[n], n)
  BY SourceSteps
<1> HIDE DEF rowsAt
<1>3. \A i \in RowEvents(k) : i \in DOMAIN log /\ i \in Nat /\ i > 0
  BY <1>1 DEF RowEvents, RowWrites
<1>4. 0 \in Good
  <2>1. Left(0)
    BY <1>2, <1>3
  <2> HIDE DEF Left
  <2> QED BY <1>1, <2>1
<1>5. ASSUME NEW n \in 0..Len(log), n \in Good, n < Len(log) PROVE n + 1 \in Good
  <2> DEFINE m == n + 1
  <2>1. /\ m \in DOMAIN log /\ m \in 1..Len(log) /\ m \in 0..Len(log) /\ m - 1 = n /\ m \in Nat
        /\ n \in 0..Len(log) /\ n \in Nat /\ m > n
    <3> HIDE DEF Good
    <3> QED BY <1>1, <1>5
  <2>2. Left(n)
    BY <1>5
  <2>3. \A i \in Nat : i > n <=> (i = m \/ i > m)
    <3> HIDE DEF Good
    <3> QED BY <1>1
  <2> HIDE DEF m
  <2> DEFINE c == log[m]
             rows == rowsAt[n]
  <2>4. rowsAt[m] = Search!RowsAfter(rows, c, m) /\ rows \in [Key -> SourceRow] /\ c \in Search!Change
    BY <1>1, <1>2, <2>1
  <2>5. /\ c.op \in Search!RowOps => c.key \in Key /\ c.to \in Key
        /\ c.op = "K" \/ c.to = c.key
        /\ c.op \in {"T", "drop"} => c.table # TableOf[k]
        /\ c.op = "K" => c.key # k
    BY <2>1, <2>4, SearchChanges DEF Search!Comparable
  <2>6. CASE m \in RowEvents(k)
    <3>1. c.op = "dropSchema" \/ (c.op \in Search!RowOps /\ c.to = k)
      BY <2>6 DEF RowEvents, RowWrites, Search!IsWrite
    <3>2. IF EndsRow(m) THEN rowsAt[m][k] = Search!NoRow
          ELSE rowsAt[m][k] = [live |-> TRUE, body |-> m, toast |-> rowsAt[m][k].toast]
      <4> DEFINE row == [live |-> TRUE, body |-> m, toast |-> IF c.toast THEN m ELSE rows[c.key].toast]
      <4>1. CASE c.op = "dropSchema"
        BY <2>4, <4>1 DEF Search!RowsAfter, EndsRow
      <4>2. CASE c.op = "D"
        BY <2>4, <2>5, <3>1, <4>2 DEF Search!RowsAfter, EndsRow
      <4>3. CASE c.op \in {"I", "U", "K"}
        <5>1. ~EndsRow(m)
          BY <4>3 DEF EndsRow
        <5>2. rowsAt[m][k] = row
          <6>1. CASE c.op \in {"I", "U"}
            <7>1. rowsAt[m] = [rows EXCEPT ![c.key] = row] /\ c.key = k
              BY <2>4, <2>5, <3>1, <6>1 DEF Search!RowsAfter
            <7> HIDE DEF row
            <7> QED BY <2>4, <7>1
          <6>2. CASE c.op = "K"
            <7>1. rowsAt[m] = [rows EXCEPT ![c.key] = Search!NoRow, ![c.to] = row] /\ c.to = k
              BY <2>4, <3>1, <6>2 DEF Search!RowsAfter
            <7> HIDE DEF row
            <7> QED BY <2>4, <2>5, <6>2, <7>1
          <6> QED BY <4>3, <6>1, <6>2
        <5> QED BY <5>1, <5>2
      <4> QED BY <3>1, <4>1, <4>2, <4>3 DEF Search!RowOps
    <3>3. \A i \in RowEvents(k) : i <= m \/ i > m
      BY <1>3, <2>1
    <3>4. m <= m
      BY <2>1
    <3> QED BY <2>1, <2>6, <3>2, <3>3, <3>4 DEF m
  <2>7. CASE m \notin RowEvents(k)
    <3>1. rowsAt[m][k] = rows[k]
      <4>1. c.op # "dropSchema" /\ (c.op \in Search!RowOps => c.to # k)
        BY <2>1, <2>7 DEF RowEvents, RowWrites, Search!IsWrite
      <4>2. CASE c.op \in {"I", "U", "D"}
        BY <2>4, <2>5, <4>1, <4>2 DEF Search!RowsAfter, Search!RowOps
      <4>3. CASE c.op = "K"
        BY <2>4, <2>5, <4>1, <4>3 DEF Search!RowsAfter, Search!RowOps
      <4>4. CASE c.op \in {"T", "drop"}
        BY <2>4, <2>5, <4>1, <4>4 DEF Search!RowsAfter
      <4>5. CASE c.op \notin {"I", "U", "D", "K", "T", "drop"}
        BY <2>4, <4>1, <4>5 DEF Search!RowsAfter
      <4> QED BY <4>2, <4>3, <4>4, <4>5
    <3>2. \A i \in RowEvents(k) : i > n <=> i > m
      BY <1>3, <2>3, <2>7
    <3>3. \A l \in RowEvents(k) : l <= n => l <= m
      BY <1>3, <2>1
    <3>4. Left(m)
      BY <2>2, <3>1, <3>2, <3>3
    <3> HIDE DEF Left
    <3> QED BY <2>1, <3>4 DEF m
  <2> QED BY <2>6, <2>7
<1>6. Left(Len(log))
  <2> HIDE DEF Left
  <2>1. \A n \in 0..Len(log) : n \in Good /\ n < Len(log) => n + 1 \in Good
    BY <1>5
  <2> HIDE DEF Good
  <2>2. \A n \in 0..Len(log) : n \in Good
    BY <1>1, <1>4, <2>1, UpTo
  <2>3. Len(log) \in Good
    BY <1>1, <2>2
  <2> QED BY <2>3 DEF Good
<1>7. \A i \in RowEvents(k) : ~(i > Len(log))
  BY <1>1, <1>3
<1> QED BY <1>6, <1>7 DEF rowsAt

LEMMA IndexKeeps == IndexInv => Search!IndexShowsSource
<1> SUFFICES ASSUME IndexInv, Search!Idle, NEW k \in Key, Search!Comparable(k)
             PROVE  LET row == Search!Source(log)[Len(log)][k]
                    IN  /\ docs[k].live = row.live /\ docs[k].body = row.body
                        /\ setup.identityFull => docs[k].toast = row.toast
  BY DEF Search!IndexShowsSource
<1>1. RowShown(k) /\ log \in Seq(Search!Change)
  BY DEF IndexInv, IndexRows, IndexStore
<1>2. /\ indexer = "running" /\ next = Len(log) + 1 /\ Elements(pending) = {}
      /\ Elements(rest) = {} /\ Elements(todo) = {}
  BY IndexParts, EmptyElements DEF Search!Idle
<1>3. RowEvents(k) \cap Unsent = {}
  <2>1. next..Len(log) = {}
    BY <1>2, IndexParts
  <2> QED BY <1>2, <2>1 DEF Unsent
<1> DEFINE row == Search!Source(log)[Len(log)][k]
<1>4. ASSUME row = Search!NoRow, docs[k] = Search!NoDoc
      PROVE  docs[k].live = row.live /\ docs[k].body = row.body /\ docs[k].toast = row.toast
  BY <1>4 DEF Search!NoRow, Search!NoDoc
<1>5. CASE RowEvents(k) = {} /\ row = Search!NoRow
  BY <1>1, <1>4, <1>5 DEF RowShown, RowEvents
<1>6. CASE \E l \in RowEvents(k) :
             /\ \A i \in RowEvents(k) : i <= l
             /\ IF EndsRow(l) THEN row = Search!NoRow
                ELSE row = [live |-> TRUE, body |-> l, toast |-> Search!Source(log)[l][k].toast]
  <2>1. PICK l \in RowEvents(k) :
             /\ \A i \in RowEvents(k) : i <= l
             /\ IF EndsRow(l) THEN row = Search!NoRow
                ELSE row = [live |-> TRUE, body |-> l, toast |-> Search!Source(log)[l][k].toast]
    BY <1>6
  <2>2. ShownSince(k, l) \/ GoneSince(k, l)
    BY <1>1, <1>3 DEF RowShown
  <2>3. \A j \in RowEvents(k) : j >= l => j = l
    BY <2>1, IndexParts DEF RowEvents, RowWrites
  <2>4. CASE GoneSince(k, l)
    BY <1>4, <2>1, <2>3, <2>4 DEF GoneSince
  <2>5. CASE ShownSince(k, l)
    <3>1. l \in RowWrites(k) /\ docs[k] = Search!Document(l)
      BY <2>3, <2>5 DEF ShownSince, RowEvents
    <3>2. log[l].to = k /\ log[l].op # "dropSchema"
      BY <3>1 DEF RowWrites, Search!IsWrite, Search!RowOps
    <3>3. CASE Search!IsDelete(l)
      <4>1. row = Search!NoRow
        BY <2>1, <3>3 DEF EndsRow, Search!IsDelete
      <4> QED BY <3>1, <3>3, <4>1 DEF Search!Document, Search!NoDoc, Search!NoRow
    <3>4. CASE ~Search!IsDelete(l)
      <4>1. row = [live |-> TRUE, body |-> l, toast |-> Search!Source(log)[l][k].toast]
        BY <2>1, <3>2, <3>4 DEF EndsRow, Search!IsDelete
      <4> QED BY <3>1, <3>2, <3>4, <4>1 DEF Search!Document
    <3> QED BY <3>3, <3>4
  <2> QED BY <2>2, <2>4, <2>5
<1> QED BY <1>1, <1>5, <1>6, LastOfTheRow
-----------------------------------------------------------------------------
(* The Kafka writer.                                                       *)

LEMMA ConcatElements ==
  ASSUME NEW T, NEW s \in Seq(T), NEW t \in Seq(T)
  PROVE  /\ s \o t \in Seq(T) /\ Len(s) \in Nat /\ Len(t) \in Nat
         /\ DOMAIN s = 1..Len(s) /\ DOMAIN (s \o t) = 1..Len(s) + Len(t)
         /\ Len(s \o t) = Len(s) + Len(t)
         /\ \A k \in 1..Len(s) : (s \o t)[k] = s[k]
         /\ \A k \in 1..Len(t) : (s \o t)[Len(s) + k] = t[k]
         /\ Elements(s \o t) = Elements(s) \cup Elements(t)
<1> DEFINE c == s \o t
<1>1. /\ c \in Seq(T) /\ Len(c) = Len(s) + Len(t)
      /\ \A k \in 1..Len(c) : c[k] = IF k <= Len(s) THEN s[k] ELSE t[k - Len(s)]
  BY ConcatProperties
<1>2. Len(s) \in Nat /\ Len(t) \in Nat /\ DOMAIN s = 1..Len(s) /\ DOMAIN t = 1..Len(t)
  BY LenProperties
<1> HIDE DEF c
<1>3. DOMAIN c = 1..Len(s) + Len(t)
  BY <1>1, LenProperties
<1>4. \A k \in 1..Len(s) : k \in DOMAIN c /\ c[k] = s[k]
  BY <1>1, <1>2, <1>3
<1>5. ASSUME NEW k \in 1..Len(t) PROVE Len(s) + k \in DOMAIN c /\ c[Len(s) + k] = t[k]
  <2>1. Len(s) + k \in 1..Len(c) /\ ~(Len(s) + k <= Len(s)) /\ Len(s) + k - Len(s) = k
    BY <1>1, <1>2
  <2> QED BY <1>1, <1>3, <2>1
<1>6. \A k \in DOMAIN c : k \in 1..Len(s) \/ (k - Len(s) \in 1..Len(t) /\ c[k] = t[k - Len(s)])
  BY <1>1, <1>2, <1>3
<1>7. Elements(c) \subseteq Elements(s) \cup Elements(t)
  BY <1>2, <1>4, <1>6 DEF Elements
<1>8. Elements(s) \subseteq Elements(c) /\ Elements(t) \subseteq Elements(c)
  BY <1>2, <1>4, <1>5 DEF Elements
<1> QED BY <1>1, <1>2, <1>3, <1>4, <1>5, <1>7, <1>8 DEF c

\* The records that a batch appends to a partition.
Sent(W, p) == {i \in W : Kafka!HasRecord(log[i]) /\ Kafka!PartitionOfChange(log[i]) = p}

LEMMA KafkaProduces ==
  ASSUME KafkaShape, NEW W \in SUBSET Elements(pending), topic' = Kafka!Produced(W),
         NEW p \in Partition
  PROVE  \E a \in Seq(DOMAIN log) :
           topic'[p] = topic[p] \o a /\ Ascending(a) /\ Elements(a) = Sent(W, p)
<1> DEFINE a == Kafka!Selected(pending, Sent(W, p))
<1>1. topic'[p] = topic[p] \o a
  BY DEF Kafka!Produced, Sent
<1>2. a = Selected(pending, Sent(W, p))
  BY DEF Kafka!Selected, Selected
<1>3. pending \in Seq(DOMAIN log) /\ Ascending(pending) /\ DOMAIN log \subseteq Int
  BY DEF KafkaShape
<1> HIDE DEF a
<1>4. /\ a \in Seq(DOMAIN log) /\ Ascending(a) /\ Elements(a) = Elements(pending) \cap Sent(W, p)
  BY <1>2, <1>3, SelectedProperties
<1>5. Elements(pending) \cap Sent(W, p) = Sent(W, p)
  BY DEF Sent
<1> QED BY <1>1, <1>4, <1>5

\* A batch only adds to the topic, in the order of the changes.
LEMMA KafkaAdds ==
  ASSUME KafkaShape, NEW W \in SUBSET Elements(pending), topic' = Kafka!Produced(W),
         UNCHANGED log
  PROVE  /\ topic' \in [Partition -> Seq(DOMAIN log)]
         /\ \A p \in Partition : Len(topic[p]) <= Len(topic'[p])
         /\ \A i \in DOMAIN log : InTopic(i) \/ i \in W => InTopic(i)'
<1>1. topic \in [Partition -> Seq(DOMAIN log)] /\ topic' = [p \in Partition |-> topic'[p]]
  BY DEF KafkaShape, Kafka!Produced
<1>2. ASSUME NEW p \in Partition
      PROVE  /\ topic'[p] \in Seq(DOMAIN log) /\ Len(topic[p]) <= Len(topic'[p])
             /\ Elements(topic'[p]) = Elements(topic[p]) \cup Sent(W, p)
  <2>1. PICK a \in Seq(DOMAIN log) :
           topic'[p] = topic[p] \o a /\ Ascending(a) /\ Elements(a) = Sent(W, p)
    BY KafkaProduces
  <2>2. topic[p] \in Seq(DOMAIN log)
    BY <1>1
  <2>3. /\ topic[p] \o a \in Seq(DOMAIN log) /\ Len(topic[p]) \in Nat /\ Len(a) \in Nat
        /\ Len(topic[p] \o a) = Len(topic[p]) + Len(a)
        /\ Elements(topic[p] \o a) = Elements(topic[p]) \cup Elements(a)
    BY <2>2, ConcatElements
  <2>4. Len(topic[p]) <= Len(topic[p]) + Len(a)
    BY <2>3
  <2> QED BY <2>1, <2>3, <2>4
<1>3. topic' \in [Partition -> Seq(DOMAIN log)]
  BY <1>1, <1>2
<1>4. ASSUME NEW i \in DOMAIN log, InTopic(i) \/ i \in W, Kafka!HasRecord(log[i])
      PROVE  i \in Elements(topic'[Kafka!PartitionOfChange(log[i])])
  <2>1. Kafka!PartitionOfChange(log[i]) \in Partition
    <3>1. /\ log[i] \in [schema : Schema, kind : Kafka!ChangeKind]
          /\ PartitionOf \in [Schema \cup {Kafka!NoSchema} -> Partition]
      BY TargetsAssumption DEF KafkaShape, TargetsAssumption, Kafka!KafkaAssumption
    <3> QED BY <3>1 DEF Kafka!PartitionOfChange, Kafka!MessageKey, Kafka!WalSchema
  <2> QED BY <1>2, <1>4, <2>1 DEF InTopic, Sent
<1>5. ASSUME NEW i \in DOMAIN log, InTopic(i) \/ i \in W PROVE InTopic(i)'
  BY <1>4, <1>5 DEF InTopic
<1> QED BY <1>2, <1>3, <1>5

LEMMA KafkaOvertakes ==
  ASSUME KafkaShape, NEW W \in SUBSET Elements(pending), topic' = Kafka!Produced(W),
         UNCHANGED log,
         NEW i \in DOMAIN log, NEW j \in DOMAIN log, i < j, Kafka!HasRecord(log[j]),
         NEW p \in Partition, p = Kafka!PartitionOfChange(log[j]), Overtakes(p, i, j)'
  PROVE  j \notin W /\ (Overtakes(p, i, j) \/ i \in W)
<1>1. PICK a \in Seq(DOMAIN log) :
         topic'[p] = topic[p] \o a /\ Ascending(a) /\ Elements(a) = Sent(W, p)
  BY KafkaProduces
<1> DEFINE s == topic[p]
           c == topic'[p]
<1>2. s \in Seq(DOMAIN log) /\ c = s \o a /\ DOMAIN log \subseteq Int
  BY <1>1 DEF KafkaShape
<1>3. PICK o \in DOMAIN c : c[o] = i /\ \A q \in DOMAIN c : c[q] = j => q < o
  BY DEF Overtakes
<1>4. Overtakes(p, i, j) <=>
        \E x \in DOMAIN s : s[x] = i /\ \A q \in DOMAIN s : s[q] = j => q < x
  BY DEF Overtakes
<1> HIDE DEF s, c
<1>5. /\ Len(s) \in Nat /\ Len(a) \in Nat
      /\ DOMAIN s = 1..Len(s) /\ DOMAIN c = 1..Len(s) + Len(a)
      /\ \A k \in 1..Len(s) : c[k] = s[k]
      /\ \A k \in 1..Len(a) : c[Len(s) + k] = a[k]
  BY <1>2, ConcatElements
<1>6. DOMAIN a = 1..Len(a)
  BY LenProperties
<1>7. CASE o \in DOMAIN s
  <2>1. DOMAIN s \subseteq DOMAIN c
    BY <1>5
  <2>2. Overtakes(p, i, j)
    BY <1>3, <1>4, <1>5, <1>7, <2>1
  <2>3. j \notin W
    <3> SUFFICES ASSUME j \in W PROVE FALSE
      OBVIOUS
    <3>1. PICK k \in DOMAIN a : a[k] = j
      BY <1>1 DEF Elements, Sent
    <3>2. Len(s) + k \in DOMAIN c /\ c[Len(s) + k] = j /\ ~(Len(s) + k < o)
      BY <1>5, <1>6, <1>7, <3>1
    <3> QED BY <1>3, <3>2
  <2> QED BY <2>2, <2>3
<1>8. CASE o \notin DOMAIN s
  <2>1. o - Len(s) \in DOMAIN a /\ Len(s) + (o - Len(s)) = o
    BY <1>5, <1>6, <1>8
  <2>2. a[o - Len(s)] = i
    BY <1>3, <1>5, <1>6, <2>1
  <2>3. i \in W
    BY <1>1, <2>1, <2>2 DEF Elements, Sent
  <2>4. j \notin W
    <3> SUFFICES ASSUME j \in W PROVE FALSE
      OBVIOUS
    <3>1. PICK k \in DOMAIN a : a[k] = j
      BY <1>1 DEF Elements, Sent
    <3>2. Len(s) + k \in DOMAIN c /\ c[Len(s) + k] = j
      BY <1>5, <1>6, <3>1
    <3>3. Len(s) + k < o
      BY <1>3, <3>2
    <3>4. k < o - Len(s)
      BY <1>5, <1>6, <3>3
    <3>5. a[k] < a[o - Len(s)]
      BY <1>1, <2>1, <3>4 DEF Ascending
    <3>6. j < i
      BY <2>2, <3>1, <3>5
    <3> QED BY <1>2, <3>6
  <2> QED BY <2>3, <2>4
<1> QED BY <1>7, <1>8

WriterInv == KafkaShape /\ KafkaSent /\ KafkaInOrder

LEMMA KafkaPartition ==
  ASSUME KafkaShape, NEW i \in DOMAIN log
  PROVE  Kafka!PartitionOfChange(log[i]) \in Partition
<1>1. /\ log[i] \in [schema : Schema, kind : Kafka!ChangeKind]
      /\ PartitionOf \in [Schema \cup {Kafka!NoSchema} -> Partition]
  BY TargetsAssumption DEF KafkaShape, TargetsAssumption, Kafka!KafkaAssumption
<1> QED BY <1>1 DEF Kafka!PartitionOfChange, Kafka!MessageKey, Kafka!WalSchema

LEMMA WriterStarts == Kafka!KafkaInit => WriterInv
<1> SUFFICES ASSUME Kafka!KafkaInit PROVE WriterInv
  OBVIOUS
<1>1. /\ log \in [1..KLogLength -> Changes] /\ KLogLength \in Nat /\ next = 1
      /\ pending = <<>> /\ confirmed = 0 /\ topic = [p \in Partition |-> <<>>]
      /\ Changes \subseteq [schema : Schema, kind : Kafka!ChangeKind]
  BY TargetsAssumption DEF Kafka!KafkaInit, TargetsAssumption, Kafka!KafkaAssumption
<1>2. /\ log \in Seq(Changes) /\ DOMAIN log = 1..KLogLength
  BY <1>1, SeqDef
<1>3. Len(log) \in Nat /\ DOMAIN log = 1..Len(log)
  BY <1>2, LenProperties
<1>4. \A i \in DOMAIN log : log[i] \in [schema : Schema, kind : Kafka!ChangeKind]
  BY <1>1
<1>5. <<>> \in Seq(DOMAIN log) /\ Elements(pending) = {} /\ Ascending(pending)
  BY <1>1, EmptyElements
<1>6. KafkaShape
  BY <1>1, <1>3, <1>4, <1>5 DEF KafkaShape
<1>7. KafkaSent
  BY <1>1 DEF KafkaSent
<1>8. KafkaInOrder
  <2> SUFFICES ASSUME NEW i \in DOMAIN log, NEW j \in DOMAIN log,
                      Overtakes(Kafka!PartitionOfChange(log[j]), i, j)
               PROVE  FALSE
    BY DEF KafkaInOrder
  <2> DEFINE p == Kafka!PartitionOfChange(log[j])
  <2>1. p \in Partition
    BY <1>6, KafkaPartition
  <2> HIDE DEF p
  <2>2. DOMAIN topic[p] = {}
    BY <1>1, <2>1
  <2>3. ~Overtakes(p, i, j)
    BY <2>2 DEF Overtakes
  <2> QED BY <2>3 DEF p
<1> QED BY <1>6, <1>7, <1>8 DEF WriterInv

LEMMA WriterProcesses == WriterInv /\ Kafka!Process => WriterInv'
<1> SUFFICES ASSUME WriterInv, Kafka!Process PROVE WriterInv'
  OBVIOUS
<1>1. /\ writer = "running" /\ next <= Len(log) /\ next' = next + 1
      /\ pending' = IF log[next].kind = "big" THEN pending ELSE Append(pending, next)
      /\ UNCHANGED <<log, writer, confirmed, topic>>
  BY DEF Kafka!Process
<1>2. /\ Len(log) \in Nat /\ DOMAIN log = 1..Len(log) /\ next \in DOMAIN log
      /\ confirmed \in 0..Len(log) /\ confirmed < next
      /\ pending \in Seq(DOMAIN log) /\ Ascending(pending) /\ DOMAIN log \subseteq Int
      /\ \A i \in Elements(pending) : i < next
  BY <1>1 DEF WriterInv, KafkaShape
<1>3. Elements(pending) \subseteq DOMAIN log
  BY <1>2, ElementsIn
<1>4. /\ pending' \in Seq(DOMAIN log) /\ Ascending(pending')
      /\ Elements(pending) \subseteq Elements(pending')
      /\ Elements(pending') \subseteq Elements(pending) \cup {next}
      /\ log[next].kind # "big" => next \in Elements(pending')
  <2>1. CASE log[next].kind = "big"
    BY <1>1, <1>2, <2>1
  <2>2. CASE log[next].kind # "big"
    <3> DEFINE s == Append(pending, next)
    <3>1. s \in Seq(DOMAIN log) /\ Elements(s) = Elements(pending) \cup {next} /\ Ascending(s)
      BY <1>2, AppendElements
    <3> HIDE DEF s
    <3>2. pending' = s
      BY <1>1, <2>2 DEF s
    <3> QED BY <3>1, <3>2
  <2> QED BY <2>1, <2>2
<1>5. Kafka!HasRecord(log[next]) => next \in Elements(pending')
  BY <1>4 DEF Kafka!HasRecord
<1>6. KafkaShape'
  <2>1. next' \in 1..Len(log) + 1 /\ confirmed < next'
    BY <1>1, <1>2
  <2>2. ASSUME NEW i \in Elements(pending')
        PROVE  /\ confirmed < i /\ i < next'
               /\ \A j \in i..next' - 1 : Kafka!HasRecord(log[j]) => j \in Elements(pending')
    <3>1. i \in DOMAIN log /\ (i = next \/ i \in Elements(pending))
      BY <1>2, <1>3, <1>4
    <3>2. confirmed < i /\ i < next'
      <4>1. i \in Elements(pending) => confirmed < i /\ i < next
        BY DEF WriterInv, KafkaShape
      <4> QED BY <1>1, <1>2, <3>1, <4>1
    <3>3. ASSUME NEW j \in i..next' - 1, Kafka!HasRecord(log[j]), j # next
          PROVE  j \in Elements(pending')
      <4>1. j \in i..next - 1 /\ i # next
        BY <1>1, <1>2, <3>1, <3>3
      <4>2. j \in Elements(pending)
        BY <3>1, <3>3, <4>1 DEF WriterInv, KafkaShape
      <4> QED BY <1>4, <4>2
    <3> QED BY <1>5, <3>2, <3>3
  <2> QED BY <1>1, <1>4, <2>1, <2>2 DEF WriterInv, KafkaShape
<1>7. KafkaSent'
  <2>1. \A i : InTopic(i)' <=> InTopic(i)
    BY <1>1 DEF InTopic
  <2>2. ASSUME NEW i \in 1..next' - 1 PROVE InTopic(i) \/ i \in Elements(pending')
    <3>1. i = next \/ i \in 1..next - 1
      BY <1>1, <1>2
    <3>2. CASE i = next
      BY <1>5, <3>2 DEF InTopic
    <3>3. CASE i \in 1..next - 1
      BY <1>1, <1>4, <3>3 DEF WriterInv, KafkaSent
    <3> QED BY <3>1, <3>2, <3>3
  <2> QED BY <1>1, <2>1, <2>2 DEF WriterInv, KafkaSent
<1>8. KafkaInOrder'
  <2> SUFFICES ASSUME NEW i \in DOMAIN log, NEW j \in DOMAIN log, i < j,
                      Kafka!HasRecord(log[j]), Overtakes(Kafka!PartitionOfChange(log[j]), i, j)
               PROVE  confirmed < j /\ (j \in Elements(pending') \/ next' <= j)
    BY <1>1 DEF KafkaInOrder, Overtakes
  <2>1. confirmed < j /\ (j \in Elements(pending) \/ next <= j)
    BY <1>1 DEF WriterInv, KafkaInOrder
  <2>2. next <= j => j = next \/ next' <= j
    BY <1>1, <1>2
  <2> QED BY <1>4, <1>5, <2>1, <2>2
<1> QED BY <1>6, <1>7, <1>8 DEF WriterInv

LEMMA WriterRestarts == WriterInv /\ Kafka!RestartWriter => WriterInv'
<1> SUFFICES ASSUME WriterInv, Kafka!RestartWriter PROVE WriterInv'
  OBVIOUS
<1>1. /\ next' = confirmed + 1 /\ pending' = <<>> /\ UNCHANGED <<log, confirmed, topic>>
  BY DEF Kafka!RestartWriter
<1>2. Len(log) \in Nat /\ DOMAIN log = 1..Len(log) /\ confirmed \in 0..Len(log)
  BY DEF WriterInv, KafkaShape
<1>3. pending' \in Seq(DOMAIN log) /\ Elements(pending') = {} /\ Ascending(pending')
  BY <1>1, EmptyElements
<1>4. next' \in 1..Len(log) + 1 /\ confirmed < next' /\ next' - 1 = confirmed
  BY <1>1, <1>2
<1>5. KafkaShape'
  BY <1>1, <1>3, <1>4 DEF WriterInv, KafkaShape
<1>6. KafkaSent'
  <2>1. \A i : InTopic(i)' <=> InTopic(i)
    BY <1>1 DEF InTopic
  <2> QED BY <1>1, <1>4, <2>1 DEF WriterInv, KafkaSent
<1>7. KafkaInOrder'
  <2> SUFFICES ASSUME NEW i \in DOMAIN log, NEW j \in DOMAIN log, i < j,
                      Kafka!HasRecord(log[j]), Overtakes(Kafka!PartitionOfChange(log[j]), i, j)
               PROVE  confirmed < j /\ next' <= j
    BY <1>1 DEF KafkaInOrder, Overtakes
  <2>1. confirmed < j
    BY DEF WriterInv, KafkaInOrder
  <2> QED BY <1>1, <1>2, <2>1
<1> QED BY <1>5, <1>6, <1>7 DEF WriterInv

\* The first n that are collected, and the rest.
LEMMA WriterCuts ==
  ASSUME KafkaShape, NEW n \in DOMAIN pending
  PROVE  LET a == SubSeq(pending, 1, n)
             b == SubSeq(pending, n + 1, Len(pending))
         IN  /\ a \in Seq(DOMAIN log) /\ b \in Seq(DOMAIN log) /\ Ascending(b)
             /\ Kafka!ToSet(a) = Elements(a)
             /\ Elements(pending) = Elements(a) \cup Elements(b)
             /\ \A x \in Elements(a), y \in Elements(b) : x < y
             /\ pending[n] \in Elements(a) /\ \A x \in Elements(a) : x <= pending[n]
<1>1. /\ pending \in Seq(DOMAIN log) /\ Ascending(pending) /\ DOMAIN log \in SUBSET Int
      /\ DOMAIN log = 1..Len(log)
  BY DEF KafkaShape
<1>2. n \in 0..Len(pending) /\ n > 0
  BY <1>1, LenProperties
<1>3. \A a : Kafka!ToSet(a) = Elements(a)
  BY DEF Kafka!ToSet, Elements
<1> QED BY <1>1, <1>2, <1>3, CutAscending

LEMMA WriterSends ==
  ASSUME WriterInv, NEW n \in DOMAIN pending, Kafka!SendBatch(n)
  PROVE  WriterInv'
<1> DEFINE a == SubSeq(pending, 1, n)
           b == SubSeq(pending, n + 1, Len(pending))
           W == Elements(a)
<1>1. /\ b \in Seq(DOMAIN log) /\ Ascending(b) /\ Kafka!ToSet(a) = W
      /\ Elements(pending) = W \cup Elements(b)
      /\ \A x \in W, y \in Elements(b) : x < y
      /\ pending[n] \in W /\ \A x \in W : x <= pending[n]
  BY WriterCuts DEF WriterInv
<1>2. /\ writer = "running" /\ topic' = Kafka!Produced(Kafka!ToSet(a)) /\ pending' = b
      /\ confirmed' = pending[n] \/ confirmed' = confirmed
      /\ UNCHANGED <<log, next, writer>>
  BY DEF Kafka!SendBatch
<1> HIDE DEF a, b
<1>3. /\ Len(log) \in Nat /\ DOMAIN log = 1..Len(log) /\ next \in 1..Len(log) + 1
      /\ confirmed \in 0..Len(log) /\ confirmed < next
      /\ \A i \in Elements(pending) :
           /\ confirmed < i /\ i < next
           /\ \A j \in i..next - 1 : Kafka!HasRecord(log[j]) => j \in Elements(pending)
  BY DEF WriterInv, KafkaShape
<1>4. Elements(pending) \subseteq DOMAIN log
  BY ElementsIn DEF WriterInv, KafkaShape
<1>5. W \in SUBSET Elements(pending) /\ topic' = Kafka!Produced(W)
  BY <1>1, <1>2
<1> HIDE DEF W
<1>6. /\ topic' \in [Partition -> Seq(DOMAIN log)]
      /\ \A i \in DOMAIN log : InTopic(i) \/ i \in W => InTopic(i)'
  BY <1>2, <1>5, KafkaAdds DEF WriterInv
<1>7. confirmed' \in 0..Len(log) /\ confirmed' < next /\ \A i \in Elements(b) : confirmed' < i
  BY <1>1, <1>2, <1>3, <1>4
<1>8. KafkaShape'
  <2>1. ASSUME NEW i \in Elements(b), NEW j \in i..next - 1, Kafka!HasRecord(log[j])
        PROVE  j \in Elements(b)
    <3>1. i \in DOMAIN log
      BY <1>1, <1>4
    <3>2. j \in Elements(pending)
      BY <1>1, <1>3, <2>1
    <3>3. j \notin W
      <4>1. j \in W => j < i
        BY <1>1
      <4> QED BY <1>3, <3>1, <4>1
    <3> QED BY <1>1, <3>2, <3>3
  <2> QED BY <1>1, <1>2, <1>3, <1>6, <1>7, <2>1 DEF WriterInv, KafkaShape
<1>9. \A i \in 1..next - 1 : i \in DOMAIN log /\ (InTopic(i)' \/ i \in Elements(b))
  <2>1. \A i \in 1..next - 1 : InTopic(i) \/ i \in Elements(pending)
    BY <1>2 DEF WriterInv, KafkaSent
  <2>2. \A i \in 1..next - 1 : i \in DOMAIN log
    BY <1>3
  <2> QED BY <1>1, <1>6, <2>1, <2>2
<1>10. KafkaSent'
  <2>1. ASSUME NEW i \in 1..confirmed' PROVE InTopic(i)'
    <3>1. i \in 1..next - 1 /\ ~(confirmed' < i)
      BY <1>3, <1>7
    <3> QED BY <1>7, <1>9, <3>1
  <2> QED BY <1>2, <1>9, <2>1 DEF KafkaSent
<1>11. KafkaInOrder'
  <2> SUFFICES ASSUME NEW i \in DOMAIN log, NEW j \in DOMAIN log, i < j,
                      Kafka!HasRecord(log[j]), Overtakes(Kafka!PartitionOfChange(log[j]), i, j)'
               PROVE  confirmed' < j /\ (j \in Elements(b) \/ next <= j)
    BY <1>2 DEF KafkaInOrder
  <2> DEFINE p == Kafka!PartitionOfChange(log[j])
  <2>1. p \in Partition
    BY KafkaPartition DEF WriterInv
  <2>2. j \notin W /\ (Overtakes(p, i, j) \/ i \in W)
    <3>1. Overtakes(p, i, j)'
      BY <1>2
    <3> HIDE DEF p
    <3>2. p = Kafka!PartitionOfChange(log[j])
      BY DEF p
    <3> QED BY <1>2, <1>5, <2>1, <3>1, <3>2, KafkaOvertakes DEF WriterInv
  <2>3. j \in Elements(pending) \/ next <= j
    <3>1. CASE Overtakes(p, i, j)
      BY <1>2, <3>1 DEF WriterInv, KafkaInOrder
    <3>2. CASE i \in W
      <4>1. j < next => j \in i..next - 1
        BY <1>3
      <4>2. j < next \/ next <= j
        BY <1>3
      <4> QED BY <1>3, <1>5, <3>2, <4>1, <4>2
    <3> QED BY <2>2, <3>1, <3>2
  <2>4. j \in Elements(b) \/ next <= j
    BY <1>1, <2>2, <2>3
  <2>5. next <= j => confirmed' < j
    BY <1>3, <1>7
  <2> QED BY <1>7, <2>4, <2>5
<1> QED BY <1>8, <1>10, <1>11 DEF WriterInv

LEMMA WriterFails ==
  ASSUME WriterInv, NEW n \in DOMAIN pending, Kafka!SendBatchFails(n)
  PROVE  WriterInv'
<1>1. /\ writer' = "failed" /\ pending' = <<>> /\ UNCHANGED <<log, next, confirmed>>
  BY DEF Kafka!SendBatchFails
<1>2. PICK W \in SUBSET Elements(pending) : topic' = Kafka!Produced(W)
  <2>1. PICK V \in SUBSET Kafka!ToSet(SubSeq(pending, 1, n)) : topic' = Kafka!Produced(V)
    BY DEF Kafka!SendBatchFails
  <2>2. Kafka!ToSet(SubSeq(pending, 1, n)) \subseteq Elements(pending)
    BY WriterCuts DEF WriterInv
  <2> QED BY <2>1, <2>2
<1>3. /\ topic' \in [Partition -> Seq(DOMAIN log)]
      /\ \A i \in DOMAIN log : InTopic(i) \/ i \in W => InTopic(i)'
  BY <1>1, <1>2, KafkaAdds DEF WriterInv
<1>4. pending' \in Seq(DOMAIN log) /\ Elements(pending') = {} /\ Ascending(pending')
  BY <1>1, EmptyElements
<1>5. KafkaShape'
  BY <1>1, <1>3, <1>4 DEF WriterInv, KafkaShape
<1>6. KafkaSent'
  <2>1. \A i \in 1..confirmed : i \in DOMAIN log /\ InTopic(i)
    BY DEF WriterInv, KafkaShape, KafkaSent
  <2> QED BY <1>1, <1>3, <2>1 DEF KafkaSent
<1>7. KafkaInOrder'
  <2> SUFFICES ASSUME NEW i \in DOMAIN log, NEW j \in DOMAIN log, i < j,
                      Kafka!HasRecord(log[j]), Overtakes(Kafka!PartitionOfChange(log[j]), i, j)'
               PROVE  confirmed < j
    BY <1>1 DEF KafkaInOrder
  <2> DEFINE p == Kafka!PartitionOfChange(log[j])
  <2>1. p \in Partition
    BY KafkaPartition DEF WriterInv
  <2>2. Overtakes(p, i, j) \/ i \in W
    <3>1. Overtakes(p, i, j)'
      BY <1>1
    <3> HIDE DEF p
    <3>2. p = Kafka!PartitionOfChange(log[j])
      BY DEF p
    <3> QED BY <1>1, <1>2, <2>1, <3>1, <3>2, KafkaOvertakes DEF WriterInv
  <2>3. CASE Overtakes(p, i, j)
    BY <2>3 DEF WriterInv, KafkaInOrder
  <2>4. CASE i \in W
    <3>1. confirmed < i /\ confirmed \in Int /\ DOMAIN log \subseteq Int
      BY <1>2, <2>4 DEF WriterInv, KafkaShape
    <3> QED BY <3>1
  <2> QED BY <2>2, <2>3, <2>4
<1> QED BY <1>5, <1>6, <1>7 DEF WriterInv
-----------------------------------------------------------------------------
(* The Kafka reader.                                                       *)

ReaderInv == ReaderShape /\ ReaderFlow

LEMMA ReaderStarts == Kafka!KafkaInit => ReaderInv
<1> SUFFICES ASSUME Kafka!KafkaInit PROVE ReaderInv
  OBVIOUS
<1>1. /\ fetched = [p \in Partition |-> 0] /\ begin = [p \in Partition |-> 0]
      /\ committed = [p \in Partition |-> -1] /\ held = <<>>
      /\ reader = "closed" /\ sink = "running"
  BY DEF Kafka!KafkaInit, Kafka!Nothing
<1>2. held \in Seq(Partition \X Nat) /\ DOMAIN held = {}
  BY <1>1, EmptySeq
<1>3. ReaderShape
  BY <1>1, <1>2 DEF ReaderShape
<1>4. \A p \in Partition : begin[p]..committed[p] - 1 = {}
  BY <1>1
<1>5. ReaderFlow
  BY <1>1, <1>2, <1>4 DEF ReaderFlow
<1> QED BY <1>3, <1>5 DEF ReaderInv

LEMMA ReaderParts ==
  ASSUME ReaderInv
  PROVE  /\ Len(held) \in Nat /\ DOMAIN held = 1..Len(held)
         /\ \A k \in DOMAIN held : /\ held[k] \in Partition \X Nat
                                   /\ held[k] = <<held[k][1], held[k][2]>>
                                   /\ held[k][1] \in Partition /\ held[k][2] \in Nat
BY LenProperties DEF ReaderInv, ReaderShape

\* The writer only adds to the topic.
LEMMA ReaderWaits ==
  ASSUME ReaderInv, KafkaShape, KafkaShape', UNCHANGED Kafka!readerVars,
         \A p \in Partition : Len(topic[p]) <= Len(topic'[p])
  PROVE  ReaderInv'
<1>1. UNCHANGED <<reader, fetched, begin, committed, held, sink, handled, logged>>
  BY DEF Kafka!readerVars
<1>2. ASSUME NEW k \in DOMAIN held PROVE held[k][2] < Len(topic'[held[k][1]])
  <2>1. held[k][1] \in Partition /\ held[k][2] \in Nat
    BY ReaderParts
  <2>2. held[k][2] < Len(topic[held[k][1]])
    BY DEF ReaderInv, ReaderShape
  <2>3. \A p \in Partition : Len(topic[p]) \in Nat /\ Len(topic'[p]) \in Nat
    BY LenProperties DEF KafkaShape
  <2> DEFINE p == held[k][1]
             x == Len(topic[p])
             y == Len(topic'[p])
  <2>4. x \in Nat /\ y \in Nat /\ x <= y /\ held[k][2] < x
    BY <2>1, <2>2, <2>3
  <2> HIDE DEF x, y
  <2>5. held[k][2] < y
    BY <2>1, <2>4
  <2> QED BY <2>5 DEF y
<1>3. ReaderShape'
  BY <1>1, <1>2 DEF ReaderInv, ReaderShape
<1>4. ReaderFlow'
  BY <1>1 DEF ReaderInv, ReaderFlow, Settled
<1> QED BY <1>3, <1>4 DEF ReaderInv

\* Where a partition is fetched from when it is handed out.
LEMMA ReaderBegins ==
  ASSUME ReaderInv, KafkaShape, NEW p \in Partition,
         NEW b, b = IF committed[p] = Kafka!Nothing THEN Kafka!StartingAt(p) ELSE begin[p]
  PROVE  /\ Kafka!StartingAt(p) \in Nat /\ b \in Nat
         /\ StartOffset = "earliest" => b = 0
         /\ \A o \in b..committed[p] - 1 : <<p, o>> \in Settled
         /\ \A o \in b..Kafka!StartingAt(p) - 1 : <<p, o>> \in Settled
         /\ b = begin[p] \/ \A o \in Nat : o < Len(topic[p]) => b..o - 1 = {}
<1>1. /\ committed[p] \in Nat \cup {-1} /\ begin[p] \in Nat
      /\ StartOffset = "earliest" => begin[p] = 0
      /\ \A o \in begin[p]..committed[p] - 1 : <<p, o>> \in Settled
  BY DEF ReaderInv, ReaderShape, ReaderFlow
<1>2. Len(topic[p]) \in Nat
  BY LenProperties DEF KafkaShape
<1>3. CASE committed[p] = -1
  <2>1. b = Kafka!StartingAt(p)
        /\ b = IF StartOffset = "earliest" THEN 0 ELSE Len(topic[p])
    BY <1>3 DEF Kafka!StartingAt, Kafka!Nothing
  <2>2. b \in Nat
    BY <1>2, <2>1
  <2>3. b..committed[p] - 1 = {} /\ b..b - 1 = {}
    BY <1>3, <2>2
  <2>4. CASE StartOffset = "earliest"
    BY <1>1, <2>1, <2>2, <2>3, <2>4
  <2>5. CASE StartOffset # "earliest"
    <3>1. b = Len(topic[p])
      BY <2>1, <2>5
    <3>2. \A o \in Nat : o < b => b..o - 1 = {}
      BY <2>2
    <3> QED BY <2>1, <2>2, <2>3, <2>5, <3>1, <3>2
  <2> QED BY <2>4, <2>5
<1>4. CASE committed[p] # -1
  <2>1. committed[p] # Kafka!Nothing /\ committed[p] \in Nat
    BY <1>1, <1>4 DEF Kafka!Nothing
  <2>2. Kafka!StartingAt(p) = committed[p]
    BY <2>1 DEF Kafka!StartingAt
  <2>3. b = begin[p]
    BY <2>1
  <2> QED BY <1>1, <2>1, <2>2, <2>3
<1> QED BY <1>3, <1>4

LEMMA ReaderOpens == ReaderInv /\ KafkaShape /\ Kafka!OpenReader => ReaderInv'
<1> SUFFICES ASSUME ReaderInv, KafkaShape, Kafka!OpenReader PROVE ReaderInv'
  OBVIOUS
<1>1. /\ fetched' = [p \in Partition |-> Kafka!StartingAt(p)]
      /\ begin' = [p \in Partition |->
                     IF committed[p] = Kafka!Nothing THEN Kafka!StartingAt(p) ELSE begin[p]]
      /\ held' = <<>> /\ sink' = "running" /\ UNCHANGED <<committed, handled, logged, topic>>
  BY DEF Kafka!OpenReader, Kafka!writerVars
<1>2. ASSUME NEW p \in Partition
      PROVE  /\ fetched'[p] \in Nat /\ begin'[p] \in Nat
             /\ StartOffset = "earliest" => begin'[p] = 0
             /\ \A o \in begin'[p]..committed[p] - 1 : <<p, o>> \in Settled
             /\ \A o \in begin'[p]..fetched'[p] - 1 : <<p, o>> \in Settled
  <2>1. /\ fetched'[p] = Kafka!StartingAt(p)
        /\ begin'[p] = IF committed[p] = Kafka!Nothing THEN Kafka!StartingAt(p) ELSE begin[p]
    BY <1>1
  <2> QED BY <2>1, ReaderBegins
<1>3. held' \in Seq(Partition \X Nat) /\ DOMAIN held' = {}
  BY <1>1, EmptySeq
<1>4. ReaderShape'
  <2>1. fetched' \in [Partition -> Nat] /\ begin' \in [Partition -> Nat]
    BY <1>1, <1>2
  <2> QED BY <1>1, <1>2, <1>3, <2>1 DEF ReaderInv, ReaderShape
<1>5. Settled' = Settled
  BY <1>1 DEF Settled
<1>6. ReaderFlow'
  BY <1>1, <1>2, <1>3, <1>5 DEF ReaderFlow
<1> QED BY <1>4, <1>6 DEF ReaderInv

LEMMA ReaderRebalances ==
  ASSUME ReaderInv, KafkaShape, NEW p \in Partition, Kafka!Rebalance(p)
  PROVE  ReaderInv'
<1> DEFINE b == IF committed[p] = Kafka!Nothing THEN Kafka!StartingAt(p) ELSE begin[p]
<1>1. /\ fetched' = [fetched EXCEPT ![p] = Kafka!StartingAt(p)]
      /\ begin' = [begin EXCEPT ![p] = b]
      /\ UNCHANGED <<reader, committed, held, sink, handled, logged, topic>>
  BY DEF Kafka!Rebalance, Kafka!writerVars
<1>2. /\ Kafka!StartingAt(p) \in Nat /\ b \in Nat
      /\ StartOffset = "earliest" => b = 0
      /\ \A o \in b..committed[p] - 1 : <<p, o>> \in Settled
      /\ \A o \in b..Kafka!StartingAt(p) - 1 : <<p, o>> \in Settled
      /\ b = begin[p] \/ \A o \in Nat : o < Len(topic[p]) => b..o - 1 = {}
  BY ReaderBegins
<1> HIDE DEF b
<1>3. fetched \in [Partition -> Nat] /\ begin \in [Partition -> Nat]
  BY DEF ReaderInv, ReaderShape
<1>4. /\ fetched' \in [Partition -> Nat] /\ begin' \in [Partition -> Nat]
      /\ fetched'[p] = Kafka!StartingAt(p) /\ begin'[p] = b
      /\ \A q \in Partition : q # p => fetched'[q] = fetched[q] /\ begin'[q] = begin[q]
  BY <1>1, <1>2, <1>3
<1>5. ReaderShape'
  <2>1. StartOffset = "earliest" => \A q \in Partition : begin'[q] = 0
    BY <1>2, <1>4 DEF ReaderInv, ReaderShape
  <2> QED BY <1>1, <1>4, <2>1 DEF ReaderInv, ReaderShape
<1>6. Settled' = Settled
  BY <1>1 DEF Settled
<1>7. \A q \in Partition : \A o \in begin'[q]..committed[q] - 1 : <<q, o>> \in Settled
  BY <1>2, <1>4 DEF ReaderInv, ReaderFlow
<1>8. ASSUME NEW k \in DOMAIN held, NEW o \in begin'[held[k][1]]..held[k][2] - 1
      PROVE  <<held[k][1], o>> \in Settled \/ \E l \in 1..k - 1 : held[l] = <<held[k][1], o>>
  <2>1. held[k][1] \in Partition /\ held[k][2] \in Nat /\ held[k][2] < Len(topic[held[k][1]])
    BY ReaderParts DEF ReaderInv, ReaderShape
  <2>2. begin'[held[k][1]] = begin[held[k][1]]
    <3>1. CASE held[k][1] = p /\ b # begin[p]
      BY <1>2, <1>4, <1>8, <2>1, <3>1
    <3> QED BY <1>4, <2>1, <3>1
  <2> QED BY <1>8, <2>2 DEF ReaderInv, ReaderFlow
<1>9. ASSUME reader = "running", sink = "running", NEW q \in Partition,
             NEW o \in begin'[q]..fetched'[q] - 1
      PROVE  <<q, o>> \in Settled \/ <<q, o>> \in Elements(held)
  <2>1. CASE q = p
    BY <1>2, <1>4, <1>9, <2>1
  <2>2. CASE q # p
    BY <1>4, <1>9, <2>2 DEF ReaderInv, ReaderFlow
  <2> QED BY <2>1, <2>2
<1>10. \A q \in Partition : \A o \in begin'[q]..committed'[q] - 1 : <<q, o>> \in Settled'
  BY <1>1, <1>6, <1>7
<1>11. \A k \in DOMAIN held' : \A o \in begin'[held'[k][1]]..held'[k][2] - 1 :
         \/ <<held'[k][1], o>> \in Settled'
         \/ \E l \in 1..k - 1 : held'[l] = <<held'[k][1], o>>
  <2>1. held' = held
    BY <1>1
  <2> QED BY <1>6, <1>8, <2>1, Zenon
<1>12. reader' = "running" /\ sink' = "running" =>
         \A q \in Partition : \A o \in begin'[q]..fetched'[q] - 1 :
           <<q, o>> \in Settled' \/ <<q, o>> \in Elements(held)'
  <2>1. Elements(held)' = Elements(held) /\ reader' = reader /\ sink' = sink
    BY <1>1 DEF Elements
  <2> QED BY <1>6, <1>9, <2>1, Zenon
<1>13. ReaderFlow'
  BY <1>10, <1>11, <1>12 DEF ReaderFlow
<1> QED BY <1>5, <1>13 DEF ReaderInv

LEMMA ReaderListens ==
  ASSUME ReaderInv, KafkaShape, NEW p \in Partition, Kafka!Listen(p)
  PROVE  ReaderInv'
<1> DEFINE f == fetched[p]
           record == <<p, f>>
<1>1. /\ reader = "running" /\ f < Len(topic[p])
      /\ fetched' = [fetched EXCEPT ![p] = f + 1]
      /\ \/ sink # "stopped" /\ held' = Append(held, record) /\ logged' = logged
         \/ logged' = logged \cup {record} /\ held' = held
      /\ UNCHANGED <<reader, begin, committed, sink, handled, topic>>
  BY DEF Kafka!Listen, Kafka!writerVars
<1>2. /\ fetched \in [Partition -> Nat] /\ f \in Nat /\ begin \in [Partition -> Nat]
      /\ held \in Seq(Partition \X Nat)
  BY DEF ReaderInv, ReaderShape
<1>3. /\ fetched' \in [Partition -> Nat] /\ fetched'[p] = f + 1
      /\ \A q \in Partition : q # p => fetched'[q] = fetched[q]
  BY <1>1, <1>2
<1>4. record \in Partition \X Nat
  BY <1>2
<1>5. Settled \subseteq Settled'
  BY <1>1 DEF Settled
<1> HIDE DEF f
<1>6. \A q \in Partition : \A o \in begin[q]..committed[q] - 1 : <<q, o>> \in Settled'
  BY <1>5 DEF ReaderInv, ReaderFlow
<1>7. CASE logged' = logged \cup {record} /\ held' = held
  <2>1. ReaderShape'
    BY <1>1, <1>3, <1>7 DEF ReaderInv, ReaderShape
  <2>2. <<p, f>> \in Settled'
    BY <1>7 DEF Settled
  <2>3. ASSUME sink = "running", NEW q \in Partition, NEW o \in begin[q]..fetched'[q] - 1
        PROVE  <<q, o>> \in Settled' \/ <<q, o>> \in Elements(held)
    <3>1. (q = p /\ o = f) \/ o \in begin[q]..fetched[q] - 1
      BY <1>2, <1>3, <2>3 DEF f
    <3>2. CASE q = p /\ o = f
      <4>1. <<q, o>> \in Settled'
        BY <1>7, <3>2 DEF Settled
      <4> QED BY <4>1
    <3>3. CASE o \in begin[q]..fetched[q] - 1
      BY <1>1, <1>5, <2>3, <3>3 DEF ReaderInv, ReaderFlow
    <3> QED BY <3>1, <3>2, <3>3
  <2>4. \A k \in DOMAIN held : \A o \in begin[held[k][1]]..held[k][2] - 1 :
          <<held[k][1], o>> \in Settled' \/ \E l \in 1..k - 1 : held[l] = <<held[k][1], o>>
    BY <1>5 DEF ReaderInv, ReaderFlow
  <2>5. ReaderFlow'
    <3>1. UNCHANGED <<reader, begin, committed, sink, held>>
      BY <1>1, <1>7
    <3> HIDE DEF record
    <3> QED BY <1>6, <2>3, <2>4, <3>1 DEF ReaderFlow
  <2> QED BY <2>1, <2>5 DEF ReaderInv
<1>8. CASE sink # "stopped" /\ held' = Append(held, record) /\ logged' = logged
  <2> HIDE DEF record
  <2>1. /\ held' \in Seq(Partition \X Nat) /\ Len(held') = Len(held) + 1
        /\ \A k \in 1..Len(held) : held'[k] = held[k]
        /\ held'[Len(held) + 1] = record
    BY <1>2, <1>4, <1>8, AppendProperties
  <2>2. /\ Len(held) \in Nat /\ DOMAIN held = 1..Len(held) /\ DOMAIN held' = 1..Len(held) + 1
        /\ Elements(held') = Elements(held) \cup {record}
    <3>1. Elements(Append(held, record)) = Elements(held) \cup {record}
      BY <1>2, <1>4, AppendElements
    <3> QED BY <1>2, <1>8, <2>1, <3>1, LenProperties
  <2>3. record[1] = p /\ record[2] = f
    BY DEF record
  <2>4. ReaderShape'
    <3>1. ASSUME NEW k \in DOMAIN held' PROVE held'[k][2] < Len(topic[held'[k][1]])
      <4>1. CASE k = Len(held) + 1
        BY <1>1, <2>1, <2>3, <4>1
      <4>2. CASE k # Len(held) + 1
        <5>1. k \in DOMAIN held /\ held'[k] = held[k]
          BY <2>1, <2>2, <4>2
        <5>2. held[k][2] < Len(topic[held[k][1]])
          BY <5>1 DEF ReaderInv, ReaderShape
        <5> QED BY <5>1, <5>2
      <4> QED BY <4>1, <4>2
    <3> QED BY <1>1, <1>3, <2>1, <3>1 DEF ReaderInv, ReaderShape
  <2>5. ASSUME sink = "running", NEW q \in Partition, NEW o \in begin[q]..fetched'[q] - 1
        PROVE  <<q, o>> \in Settled' \/ <<q, o>> \in Elements(held')
    <3>1. (q = p /\ o = f) \/ o \in begin[q]..fetched[q] - 1
      BY <1>2, <1>3, <2>5 DEF f
    <3>2. CASE q = p /\ o = f
      BY <2>2, <3>2 DEF record
    <3>3. CASE o \in begin[q]..fetched[q] - 1
      BY <1>1, <1>5, <2>2, <2>5, <3>3 DEF ReaderInv, ReaderFlow
    <3> QED BY <3>1, <3>2, <3>3
  <2>6. ASSUME NEW k \in DOMAIN held', NEW o \in begin[held'[k][1]]..held'[k][2] - 1
        PROVE  <<held'[k][1], o>> \in Settled' \/ \E l \in 1..k - 1 : held'[l] = <<held'[k][1], o>>
    <3>1. CASE k = Len(held) + 1
      <4>1. sink = "running"
        BY <1>8 DEF ReaderInv, ReaderShape
      <4>2. o \in begin[p]..fetched[p] - 1
        BY <2>1, <2>3, <2>6, <3>1 DEF f
      <4>3. <<p, o>> \in Settled \/ <<p, o>> \in Elements(held)
        BY <1>1, <4>1, <4>2 DEF ReaderInv, ReaderFlow
      <4>4. CASE <<p, o>> \in Settled
        BY <1>5, <2>1, <2>3, <3>1, <4>4
      <4>5. CASE <<p, o>> \in Elements(held)
        <5>1. PICK l \in DOMAIN held : held[l] = <<p, o>>
          BY <4>5 DEF Elements
        <5>2. l \in 1..k - 1 /\ held'[l] = <<p, o>> /\ held'[k][1] = p
          BY <2>1, <2>2, <2>3, <3>1, <5>1
        <5> QED BY <5>2
      <4> QED BY <4>3, <4>4, <4>5
    <3>2. CASE k # Len(held) + 1
      <4>1. k \in DOMAIN held /\ held'[k] = held[k] /\ \A l \in 1..k - 1 : held'[l] = held[l]
        BY <2>1, <2>2, <3>2
      <4>2. <<held[k][1], o>> \in Settled \/ \E l \in 1..k - 1 : held[l] = <<held[k][1], o>>
        BY <2>6, <4>1 DEF ReaderInv, ReaderFlow
      <4> QED BY <1>5, <4>1, <4>2
    <3> QED BY <3>1, <3>2
  <2>7. ReaderFlow'
    BY <1>1, <1>6, <2>5, <2>6 DEF ReaderFlow
  <2> QED BY <2>4, <2>7 DEF ReaderInv
<1> QED BY <1>1, <1>7, <1>8

\* A batch of the target: its first records, and what is behind them.
LEMMA ReaderCuts ==
  ASSUME ReaderInv, NEW n \in DOMAIN held
  PROVE  LET a == SubSeq(held, 1, n)
             b == SubSeq(held, n + 1, Len(held))
         IN  /\ b \in Seq(Partition \X Nat) /\ DOMAIN b = 1..Len(held) - n
             /\ Kafka!ToSet(a) = Elements(a) /\ Elements(a) = {held[k] : k \in 1..n}
             /\ \A k \in 1..Len(held) - n : b[k] = held[n + k]
             /\ Elements(held) = Elements(a) \cup Elements(b)
<1> DEFINE T == Partition \X Nat
           a == SubSeq(held, 1, n)
           b == SubSeq(held, n + 1, Len(held))
<1>1. held \in Seq(T) /\ n \in 0..Len(held)
  BY ReaderParts DEF ReaderInv, ReaderShape
<1> HIDE DEF T
<1>2. /\ a \in Seq(T) /\ b \in Seq(T)
      /\ Len(a) = n /\ Len(b) = Len(held) - n
      /\ \A k \in 1..n : a[k] = held[k]
      /\ \A k \in 1..Len(held) - n : b[k] = held[n + k]
      /\ Elements(held) = Elements(a) \cup Elements(b)
  BY <1>1, Cut, SMTT(30)
<1> HIDE DEF a, b
<1>3. DOMAIN a = 1..n /\ DOMAIN b = 1..Len(held) - n
  BY <1>2, LenProperties
<1>4. Elements(a) = {a[k] : k \in 1..n} /\ Kafka!ToSet(a) = Elements(a)
  BY <1>3 DEF Kafka!ToSet, Elements
<1>5. Elements(a) = {held[k] : k \in 1..n}
  BY <1>2, <1>4
<1> QED BY <1>2, <1>3, <1>4, <1>5 DEF a, b, T

\* The offset committed for a partition of the batch, which leaves nothing behind.
LEMMA ReaderCommits ==
  ASSUME ReaderInv, KafkaShape, NEW n \in DOMAIN held, NEW p \in Partition,
         NEW c, c = Kafka!Committed(SubSeq(held, 1, n), p)
  PROVE  /\ c \in Nat \cup {-1}
         /\ \A o \in begin[p]..c - 1 :
              <<p, o>> \in Settled \cup Elements(SubSeq(held, 1, n))
<1> DEFINE a == SubSeq(held, 1, n)
           S == Kafka!OffsetsOf(a, p)
<1>1. Elements(a) = {held[k] : k \in 1..n} /\ Kafka!ToSet(a) = Elements(a)
  BY ReaderCuts
<1>2. Kafka!Committed(a, p) = IF S = {} THEN committed[p]
                              ELSE 1 + CHOOSE o \in S : \A q \in S : q <= o
  BY DEF Kafka!Committed
<1>3. S = {r[2] : r \in {s \in Elements(a) : s[1] = p}}
  BY <1>1 DEF Kafka!OffsetsOf
<1> HIDE DEF a, S
<1>4. c = IF S = {} THEN committed[p] ELSE 1 + CHOOSE o \in S : \A q \in S : q <= o
  BY <1>2 DEF a
<1>5. begin[p] \in Nat /\ committed[p] \in Nat \cup {-1}
      /\ \A o \in begin[p]..committed[p] - 1 : <<p, o>> \in Settled
  BY DEF ReaderInv, ReaderShape, ReaderFlow
<1>6. CASE S = {}
  BY <1>4, <1>5, <1>6 DEF a
<1>7. CASE S # {}
  <2>1. \A q \in S : \E k \in 1..n : held[k] = <<p, q>>
    <3> SUFFICES ASSUME NEW q \in S PROVE \E k \in 1..n : held[k] = <<p, q>>
      OBVIOUS
    <3>1. PICK s \in Elements(a) : s[1] = p /\ s[2] = q
      BY <1>3
    <3>2. PICK k \in 1..n : s = held[k]
      BY <1>1, <3>1
    <3>3. k \in DOMAIN held
      BY ReaderParts
    <3>4. held[k] = <<held[k][1], held[k][2]>>
      BY <3>3, ReaderParts
    <3> QED BY <3>1, <3>2, <3>4
  <2>2. \A q \in S : q \in Nat /\ q < Len(topic[p])
    <3> SUFFICES ASSUME NEW q \in S PROVE q \in Nat /\ q < Len(topic[p])
      OBVIOUS
    <3>1. PICK k \in 1..n : held[k] = <<p, q>>
      BY <2>1
    <3>2. k \in DOMAIN held
      BY ReaderParts
    <3>3. held[k][2] \in Nat /\ held[k][2] < Len(topic[held[k][1]])
      BY <3>2, ReaderParts DEF ReaderInv, ReaderShape
    <3> QED BY <3>1, <3>3
  <2>3. Len(topic[p]) \in Nat
    BY LenProperties DEF KafkaShape
  <2>4. S \in SUBSET (0..Len(topic[p]))
    BY <2>2, <2>3
  <2>5. \E o \in S : \A q \in S : q <= o
    BY <1>7, <2>3, <2>4, Greatest
  <2>6. PICK o \in S : c = 1 + o
    BY <1>4, <1>7, <2>5
  <2>7. PICK k \in 1..n : held[k] = <<p, o>>
    BY <2>1, <2>6
  <2>8. o \in Nat /\ k \in DOMAIN held /\ held[k][1] = p /\ held[k][2] = o
    BY <2>2, <2>6, <2>7, ReaderParts
  <2>9. ASSUME NEW x \in begin[p]..c - 1 PROVE <<p, x>> \in Settled \cup Elements(a)
    <3>1. CASE x = o
      BY <1>1, <2>7, <3>1
    <3>2. CASE x # o
      <4>1. x \in begin[p]..o - 1
        BY <1>5, <2>6, <2>8, <2>9, <3>2
      <4>2. <<p, x>> \in Settled \/ \E l \in 1..k - 1 : held[l] = <<p, x>>
        BY <2>8, <4>1 DEF ReaderInv, ReaderFlow
      <4>3. \A l \in 1..k - 1 : l \in 1..n
        <5>1. n \in Int
          BY ReaderParts
        <5> QED BY <2>7, <5>1
      <4> QED BY <1>1, <4>2, <4>3
    <3> QED BY <3>1, <3>2
  <2> QED BY <2>6, <2>8, <2>9 DEF a
<1> QED BY <1>6, <1>7

LEMMA ReaderSinkSends ==
  ASSUME ReaderInv, KafkaShape, NEW n \in DOMAIN held, Kafka!SinkSends(n)
  PROVE  ReaderInv'
<1> DEFINE a == SubSeq(held, 1, n)
           b == SubSeq(held, n + 1, Len(held))
<1>1. /\ handled' = handled \cup Kafka!ToSet(a)
      /\ committed' = [p \in Partition |-> Kafka!Committed(a, p)] \/ committed' = committed
      /\ \/ held' = b /\ sink' = sink
         \/ held' = <<>> /\ sink' = "stopped"
      /\ UNCHANGED <<reader, fetched, begin, logged, topic>>
  BY DEF Kafka!SinkSends, Kafka!writerVars
<1>2. /\ b \in Seq(Partition \X Nat) /\ DOMAIN b = 1..Len(held) - n
      /\ Kafka!ToSet(a) = Elements(a) /\ Elements(a) = {held[k] : k \in 1..n}
      /\ \A k \in 1..Len(held) - n : b[k] = held[n + k]
      /\ Elements(held) = Elements(a) \cup Elements(b)
  BY ReaderCuts
<1>3. \A p \in Partition :
        /\ Kafka!Committed(a, p) \in Nat \cup {-1}
        /\ \A o \in begin[p]..Kafka!Committed(a, p) - 1 : <<p, o>> \in Settled \cup Elements(a)
  BY ReaderCommits
<1> HIDE DEF a, b
<1>4. Settled \cup Elements(a) \subseteq Settled'
  BY <1>1, <1>2 DEF Settled
<1>5. \A k \in 1..Len(held) - n : n + k \in DOMAIN held /\ n + k \in Nat
  BY ReaderParts
<1>6. \A p \in Partition :
        /\ committed'[p] \in Nat \cup {-1}
        /\ \A o \in begin[p]..committed'[p] - 1 : <<p, o>> \in Settled'
  BY <1>1, <1>3, <1>4 DEF ReaderInv, ReaderShape, ReaderFlow
<1>7. committed' \in [Partition -> Nat \cup {-1}]
  <2>1. committed' = [p \in Partition |-> committed'[p]]
    BY <1>1 DEF ReaderInv, ReaderShape
  <2> QED BY <1>6, <2>1
<1>8. CASE held' = <<>> /\ sink' = "stopped"
  <2>1. held' \in Seq(Partition \X Nat) /\ DOMAIN held' = {}
    BY <1>8, EmptySeq
  <2>2. ReaderShape'
    BY <1>1, <1>7, <1>8, <2>1 DEF ReaderInv, ReaderShape
  <2>3. ReaderFlow'
    BY <1>1, <1>6, <1>8, <2>1 DEF ReaderFlow
  <2> QED BY <2>2, <2>3 DEF ReaderInv
<1>9. CASE held' = b /\ sink' = sink
  <2>1. \A k \in DOMAIN b : b[k][2] < Len(topic[b[k][1]])
    BY <1>2, <1>5 DEF ReaderInv, ReaderShape
  <2>2. ReaderShape'
    BY <1>1, <1>2, <1>7, <1>9, <2>1 DEF ReaderInv, ReaderShape
  <2>3. ASSUME NEW k \in DOMAIN b, NEW o \in begin[b[k][1]]..b[k][2] - 1
        PROVE  <<b[k][1], o>> \in Settled' \/ \E l \in 1..k - 1 : b[l] = <<b[k][1], o>>
    <3> DEFINE m == n + k
    <3>1. m \in DOMAIN held /\ b[k] = held[m] /\ m = n + k
      BY <1>2, <1>5
    <3> HIDE DEF m
    <3>2. <<held[m][1], o>> \in Settled \/ \E l \in 1..m - 1 : held[l] = <<held[m][1], o>>
      BY <2>3, <3>1 DEF ReaderInv, ReaderFlow
    <3>3. CASE <<held[m][1], o>> \in Settled
      BY <1>4, <3>1, <3>3
    <3>4. ASSUME NEW l \in 1..m - 1, held[l] = <<held[m][1], o>>
          PROVE  <<b[k][1], o>> \in Settled' \/ \E i \in 1..k - 1 : b[i] = <<b[k][1], o>>
      <4>1. CASE l <= n
        <5>1. l \in 1..n
          BY <4>1
        <5> QED BY <1>2, <1>4, <3>1, <3>4, <5>1
      <4>2. CASE ~(l <= n)
        <5>1. n \in Nat /\ Len(held) \in Nat
          BY ReaderParts
        <5>2. /\ l - n \in 1..k - 1 /\ l - n \in 1..Len(held) - n /\ n + (l - n) = l
          <6>1. k \in 1..Len(held) - n /\ m = n + k
            BY <1>2, <2>3, <3>1
          <6> QED BY <4>2, <5>1, <6>1
        <5>3. b[l - n] = held[l]
          BY <1>2, <5>2
        <5> QED BY <3>1, <3>4, <5>2, <5>3
      <4> QED BY <4>1, <4>2
    <3> QED BY <3>2, <3>3, <3>4
  <2>4. ASSUME reader = "running", sink = "running", NEW p \in Partition,
               NEW o \in begin[p]..fetched[p] - 1
        PROVE  <<p, o>> \in Settled' \/ <<p, o>> \in Elements(b)
    BY <1>2, <1>4, <2>4 DEF ReaderInv, ReaderFlow
  <2>5. ReaderFlow'
    BY <1>1, <1>6, <1>9, <2>3, <2>4 DEF ReaderFlow
  <2> QED BY <2>2, <2>5 DEF ReaderInv
<1> QED BY <1>1, <1>8, <1>9

\* Nothing that is fetched, held or committed changes.
LEMMA ReaderFlowStays ==
  ASSUME ReaderFlow, UNCHANGED <<fetched, begin, committed, held, sink>>, Settled' = Settled,
         reader' = reader \/ reader' # "running"
  PROVE  ReaderFlow'
<1>1. \A p \in Partition : \A o \in begin'[p]..committed'[p] - 1 : <<p, o>> \in Settled'
  BY DEF ReaderFlow
<1>2. \A k \in DOMAIN held' : \A o \in begin'[held'[k][1]]..held'[k][2] - 1 :
        <<held'[k][1], o>> \in Settled' \/ \E l \in 1..k - 1 : held'[l] = <<held'[k][1], o>>
  <2>1. \A k \in DOMAIN held : \A o \in begin[held[k][1]]..held[k][2] - 1 :
          <<held[k][1], o>> \in Settled \/ \E l \in 1..k - 1 : held[l] = <<held[k][1], o>>
    BY DEF ReaderFlow
  <2>2. held' = held /\ begin' = begin
    OBVIOUS
  <2> QED BY <2>1, <2>2
<1>3. reader' = "running" /\ sink' = "running" =>
        \A p \in Partition : \A o \in begin'[p]..fetched'[p] - 1 :
          <<p, o>> \in Settled' \/ <<p, o>> \in Elements(held')
  BY DEF ReaderFlow
<1> QED BY <1>1, <1>2, <1>3 DEF ReaderFlow

LEMMA ReaderStops ==
  ASSUME ReaderInv, Kafka!StopListening \/ Kafka!SinkFails
  PROVE  ReaderInv'
<1>1. UNCHANGED <<fetched, begin, committed, handled, logged, topic>>
  BY DEF Kafka!StopListening, Kafka!SinkFails, Kafka!writerVars
<1>2. Settled' = Settled
  BY <1>1 DEF Settled
<1>3. CASE Kafka!StopListening
  <2>1. UNCHANGED <<held, sink>> /\ reader' = "closed"
    BY <1>3 DEF Kafka!StopListening
  <2>2. ReaderShape' BY <1>1, <2>1 DEF ReaderInv, ReaderShape
  <2>3. reader' # "running"
    BY <2>1
  <2>4. ReaderFlow'
    BY <1>1, <1>2, <2>1, <2>3, ReaderFlowStays DEF ReaderInv
  <2> QED BY <2>2, <2>4 DEF ReaderInv
<1>4. CASE Kafka!SinkFails
  <2>1. held' = <<>> /\ sink' = "stopped"
    BY <1>4 DEF Kafka!SinkFails
  <2>2. held' \in Seq(Partition \X Nat) /\ DOMAIN held' = {}
    BY <2>1, EmptySeq
  <2>3. ReaderShape' BY <1>1, <2>1, <2>2 DEF ReaderInv, ReaderShape
  <2>4. ReaderFlow' BY <1>1, <1>2, <2>1, <2>2 DEF ReaderInv, ReaderFlow
  <2> QED BY <2>3, <2>4 DEF ReaderInv
<1> QED BY <1>3, <1>4

-----------------------------------------------------------------------------
(* Both, and what they keep.                                               *)

LEMMA KafkaStarts == Kafka!KafkaInit => KafkaInv
BY WriterStarts, ReaderStarts DEF WriterInv, ReaderInv, KafkaInv

LEMMA KafkaSteps == KafkaInv /\ Kafka!KafkaNext => KafkaInv'
<1> SUFFICES ASSUME KafkaInv, Kafka!KafkaNext PROVE KafkaInv'
  OBVIOUS
<1>0. WriterInv /\ ReaderInv /\ KafkaShape
  BY DEF KafkaInv, WriterInv, ReaderInv
<1>1. ASSUME WriterInv', UNCHANGED Kafka!readerVars,
             \A p \in Partition : Len(topic[p]) <= Len(topic'[p])
      PROVE  KafkaInv'
  <2>1. KafkaShape'
    BY <1>1 DEF WriterInv
  <2>2. ReaderInv'
    BY <1>0, <1>1, <2>1, ReaderWaits
  <2> QED BY <1>1, <2>2 DEF KafkaInv, WriterInv, ReaderInv
<1>2. ASSUME ReaderInv', UNCHANGED Kafka!writerVars PROVE KafkaInv'
  <2>1. UNCHANGED <<log, next, pending, writer, confirmed, topic>>
    BY <1>2 DEF Kafka!writerVars
  <2>2. KafkaShape' BY <1>0, <2>1 DEF KafkaShape
  <2>3. KafkaSent' BY <2>1 DEF KafkaInv, KafkaSent, InTopic
  <2>4. KafkaInOrder' BY <2>1 DEF KafkaInv, KafkaInOrder, Overtakes
  <2> QED BY <1>2, <2>2, <2>3, <2>4 DEF KafkaInv, ReaderInv
<1>3. ASSUME UNCHANGED topic PROVE \A p \in Partition : Len(topic[p]) <= Len(topic'[p])
  <2>1. \A p \in Partition : Len(topic[p]) \in Nat
    BY <1>0, LenProperties DEF KafkaShape
  <2> QED BY <1>3, <2>1
<1>4. CASE Kafka!Process
  <2>1. UNCHANGED topic /\ UNCHANGED Kafka!readerVars
    BY <1>4 DEF Kafka!Process, Kafka!readerVars
  <2> QED BY <1>0, <1>1, <1>3, <1>4, <2>1, WriterProcesses
<1>5. CASE Kafka!RestartWriter
  <2>1. UNCHANGED topic /\ UNCHANGED Kafka!readerVars
    BY <1>5 DEF Kafka!RestartWriter, Kafka!readerVars
  <2> QED BY <1>0, <1>1, <1>3, <1>5, <2>1, WriterRestarts
<1>6. ASSUME NEW n \in DOMAIN pending, Kafka!SendBatch(n) \/ Kafka!SendBatchFails(n)
      PROVE  KafkaInv'
  <2>1. UNCHANGED Kafka!readerVars /\ UNCHANGED log
    BY <1>6 DEF Kafka!SendBatch, Kafka!SendBatchFails, Kafka!readerVars
  <2>2. WriterInv'
    BY <1>0, <1>6, WriterSends, WriterFails
  <2>3. PICK W \in SUBSET Elements(pending) : topic' = Kafka!Produced(W)
    <3>1. PICK V \in SUBSET Kafka!ToSet(SubSeq(pending, 1, n)) : topic' = Kafka!Produced(V)
      BY <1>6 DEF Kafka!SendBatch, Kafka!SendBatchFails
    <3>2. Kafka!ToSet(SubSeq(pending, 1, n)) \subseteq Elements(pending)
      BY <1>0, WriterCuts
    <3> QED BY <3>1, <3>2
  <2>4. \A p \in Partition : Len(topic[p]) <= Len(topic'[p])
    BY <1>0, <2>1, <2>3, KafkaAdds
  <2> QED BY <1>1, <2>1, <2>2, <2>4
<1>7. CASE Kafka!OpenReader
  <2>1. UNCHANGED Kafka!writerVars
    BY <1>7 DEF Kafka!OpenReader
  <2> QED BY <1>0, <1>2, <1>7, <2>1, ReaderOpens
<1>8. CASE Kafka!StopListening \/ Kafka!SinkFails
  <2>1. UNCHANGED Kafka!writerVars
    BY <1>8 DEF Kafka!StopListening, Kafka!SinkFails
  <2> QED BY <1>0, <1>2, <1>8, <2>1, ReaderStops
<1>9. ASSUME NEW n \in DOMAIN held, Kafka!SinkSends(n) PROVE KafkaInv'
  <2>1. UNCHANGED Kafka!writerVars
    BY <1>9 DEF Kafka!SinkSends
  <2> QED BY <1>0, <1>2, <1>9, <2>1, ReaderSinkSends
<1>10. ASSUME NEW p \in Partition, Kafka!Listen(p) \/ Kafka!Rebalance(p) PROVE KafkaInv'
  <2>1. UNCHANGED Kafka!writerVars
    BY <1>10 DEF Kafka!Listen, Kafka!Rebalance
  <2> QED BY <1>0, <1>2, <1>10, <2>1, ReaderListens, ReaderRebalances
<1> QED BY <1>4, <1>5, <1>6, <1>7, <1>8, <1>9, <1>10 DEF Kafka!KafkaNext

LEMMA KafkaKeeps == KafkaInv => Kafka!NothingLostSilently
<1> SUFFICES ASSUME KafkaInv PROVE Kafka!NothingLostSilently
  OBVIOUS
<1>1. ASSUME NEW i \in 1..confirmed, Kafka!HasRecord(log[i])
      PROVE  i \in Kafka!ToSet(topic[Kafka!PartitionOfChange(log[i])])
  <2>1. i \in Elements(topic[Kafka!PartitionOfChange(log[i])])
    BY <1>1 DEF KafkaInv, KafkaSent, InTopic
  <2> QED BY <2>1 DEF Elements, Kafka!ToSet
<1>2. \A p \in Partition : \A o \in begin[p]..committed[p] - 1 : <<p, o>> \in handled \cup logged
  BY DEF KafkaInv, ReaderFlow, Settled
<1> QED BY <1>1, <1>2 DEF Kafka!NothingLostSilently

LEMMA KafkaLastOffset ==
  ASSUME KafkaShape, NEW p \in Partition, NEW i \in Elements(topic[p])
  PROVE  LET o == Kafka!LastOffset(p, i)
         IN  /\ o \in DOMAIN topic[p] /\ o \in Nat /\ topic[p][o] = i
             /\ \A q \in DOMAIN topic[p] : topic[p][q] = i => q <= o
<1> DEFINE S == {o \in DOMAIN topic[p] : topic[p][o] = i}
<1>1. Len(topic[p]) \in Nat /\ DOMAIN topic[p] = 1..Len(topic[p])
  BY LenProperties DEF KafkaShape
<1>2. S \in SUBSET (0..Len(topic[p])) /\ S # {}
  BY <1>1 DEF Elements
<1>3. PICK o \in S : \A q \in S : q <= o
  <2> HIDE DEF S
  <2> QED BY <1>1, <1>2, Greatest
<1>4. /\ o \in DOMAIN topic[p] /\ topic[p][o] = i
      /\ \A q \in DOMAIN topic[p] : topic[p][q] = i => q <= o
  BY <1>3
<1>5. LET x == Kafka!LastOffset(p, i)
      IN  /\ x \in DOMAIN topic[p] /\ topic[p][x] = i
          /\ \A q \in DOMAIN topic[p] : topic[p][q] = i => q <= x
  BY <1>4 DEF Kafka!LastOffset
<1> QED BY <1>1, <1>5

LEMMA KafkaKeepsOrder == KafkaInv => Kafka!OrderedPerSchema
<1> SUFFICES ASSUME KafkaInv, NEW i \in 1..confirmed, NEW j \in 1..confirmed,
                    i < j, log[i].schema = log[j].schema,
                    {log[i].kind, log[j].kind} \subseteq {"row", "refused", "ddl"}
             PROVE  \E p \in Partition : /\ {i, j} \subseteq Kafka!ToSet(topic[p])
                                         /\ Kafka!LastOffset(p, i) < Kafka!LastOffset(p, j)
  BY DEF Kafka!OrderedPerSchema
<1> DEFINE p == Kafka!PartitionOfChange(log[j])
<1>1. Kafka!PartitionOfChange(log[i]) = Kafka!PartitionOfChange(log[j])
  BY DEF Kafka!PartitionOfChange, Kafka!MessageKey, Kafka!WalSchema, Kafka!IsDDLEvent
<1>2. Kafka!HasRecord(log[i]) /\ Kafka!HasRecord(log[j])
  BY DEF Kafka!HasRecord
<1>3. i \in DOMAIN log /\ j \in DOMAIN log /\ KafkaShape /\ i # j /\ confirmed \in Int
  BY DEF KafkaInv, KafkaShape
<1>4. p \in Partition
  BY <1>3, KafkaPartition
<1>5. i \in Elements(topic[p]) /\ j \in Elements(topic[p])
  BY <1>1, <1>2 DEF KafkaInv, KafkaSent, InTopic
<1>6. ~Overtakes(p, i, j)
  <2>1. ~(confirmed < j)
    BY <1>3
  <2> QED BY <1>2, <1>3, <2>1 DEF KafkaInv, KafkaInOrder
<1> HIDE DEF p
<1> DEFINE x == Kafka!LastOffset(p, i)
           y == Kafka!LastOffset(p, j)
<1>7. /\ x \in DOMAIN topic[p] /\ x \in Nat /\ topic[p][x] = i
      /\ y \in DOMAIN topic[p] /\ y \in Nat /\ topic[p][y] = j
      /\ \A q \in DOMAIN topic[p] : topic[p][q] = j => q <= y
  BY <1>3, <1>4, <1>5, KafkaLastOffset
<1> HIDE DEF x, y
<1>8. x < y
  <2> SUFFICES ASSUME ~(x < y) PROVE FALSE
    OBVIOUS
  <2>1. y < x
    BY <1>3, <1>7
  <2>2. \A q \in DOMAIN topic[p] : q \in Int
    BY <1>4, LenProperties DEF KafkaInv, KafkaShape
  <2>3. \A q \in DOMAIN topic[p] : topic[p][q] = j => q < x
    BY <1>7, <2>1, <2>2
  <2> QED BY <1>6, <1>7, <2>3 DEF Overtakes
<1>9. {i, j} \subseteq Kafka!ToSet(topic[p])
  BY <1>5 DEF Elements, Kafka!ToSet
<1> QED BY <1>4, <1>8, <1>9 DEF x, y

-----------------------------------------------------------------------------
(* Whatever the configuration selects.                                     *)

LEMMA ProcessorStarts == Init => ProcessorInv
BY KafkaStarts, SearchStarts, WebhookStarts, StdoutStarts DEF Init, ProcessorInv

LEMMA ProcessorSteps == ProcessorInv /\ [Next]_vars => ProcessorInv'
<1> SUFFICES ASSUME ProcessorInv, [Next]_vars PROVE ProcessorInv'
  OBVIOUS
<1>1. CASE Next
  <2>1. target' = target
    BY <1>1 DEF Next
  <2>2. CASE target = "kafka"
    BY <1>1, <2>1, <2>2, KafkaSteps DEF Next, ProcessorInv
  <2>3. CASE target = "search"
    BY <1>1, <2>1, <2>3, SearchSteps DEF Next, ProcessorInv
  <2>4. CASE target = "webhook"
    BY <1>1, <2>1, <2>4, WebhookSteps DEF Next, ProcessorInv
  <2>5. CASE target = "stdout"
    BY <1>1, <2>1, <2>5, StdoutSteps DEF Next, ProcessorInv
  <2> QED BY <1>1, <2>2, <2>3, <2>4, <2>5 DEF Next
<1>2. CASE UNCHANGED vars
  <2>1. /\ UNCHANGED <<target, log, next, pending, confirmed, faults, out>>
        /\ UNCHANGED <<writer, topic, reader, fetched, begin, committed, held>>
        /\ UNCHANGED <<sink, handled, logged>>
        /\ UNCHANGED <<indexer, batch, rest, todo, written, lost, dropped>>
        /\ UNCHANGED <<call, inflight, sending, due, called>>
    BY <1>2 DEF vars, kafkaOnly, searchOnly, webhookOnly
  <2>2. KafkaInv => KafkaInv'
    <3> SUFFICES ASSUME KafkaInv PROVE KafkaInv'
      OBVIOUS
    <3>1. KafkaShape' BY <2>1 DEF KafkaInv, KafkaShape
    <3>2. KafkaSent' BY <2>1 DEF KafkaInv, KafkaSent, InTopic
    <3>3. KafkaInOrder' BY <2>1 DEF KafkaInv, KafkaInOrder, Overtakes
    <3>4. ReaderShape' BY <2>1 DEF KafkaInv, ReaderShape
    <3>5. ReaderFlow' BY <2>1, ReaderFlowStays DEF KafkaInv, Settled
    <3> QED BY <3>1, <3>2, <3>3, <3>4, <3>5 DEF KafkaInv
  <2>3. SearchInv => SearchInv'
    BY <2>1 DEF SearchInv, SearchShape, SearchFlow, SearchAccounted
  <2>4. WebhookInv => WebhookInv'
    BY <2>1 DEF WebhookInv, WebhookShape, WebhookFlow, AllCalled, HasMessage
  <2>5. StdoutInv => StdoutInv'
    BY <2>1 DEF StdoutInv
  <2> QED BY <2>1, <2>2, <2>3, <2>4, <2>5 DEF ProcessorInv
<1> QED BY <1>1, <1>2

(* Whatever the target, and for every log, batch, crash, failing request   *)
(* and restart: the position confirmed to the source covers nothing that   *)
(* was lost without a word.                                                *)
THEOREM ConfirmedPositionsAreAccounted == Spec => []ConfirmedIsAccounted
<1>1. ProcessorInv => ConfirmedIsAccounted
  <2> SUFFICES ASSUME ProcessorInv PROVE ConfirmedIsAccounted
    OBVIOUS
  <2>1. target \in ProcessorConfig
    BY TargetsAssumption DEF TargetsAssumption, ProcessorInv
  <2> QED
    BY <2>1, KafkaKeeps, SearchKeeps, WebhookKeeps, StdoutKeeps
    DEF ProcessorInv, ProcessorConfig, ConfirmedIsAccounted
<1> QED BY <1>1, ProcessorStarts, ProcessorSteps, PTL DEF Spec

(* The topic keeps the order of a schema's rows and DDL statements, over   *)
(* batches that were written in part, or twice.                            *)
THEOREM TopicKeepsTheOrder == Spec => []OrderedPerSchema
<1>1. ProcessorInv => OrderedPerSchema
  BY KafkaKeepsOrder DEF ProcessorInv, OrderedPerSchema
<1> QED BY <1>1, ProcessorStarts, ProcessorSteps, PTL DEF Spec

(* However documents are sent, refused, throttled, forgotten or sent again *)
(* after a crash, an index at rest shows of each row what its source has,  *)
(* unless a change of the row is in the log of what was lost: for every    *)
(* history of the source.                                                  *)
THEOREM IndexEndsAsTheSource == Spec => []IndexShowsSource
<1> DEFINE Inv == target = "search" => IndexInv
<1>1. Init => Inv
  BY IndexStarts DEF Init
<1>2. Inv /\ [Next]_vars => Inv'
  <2> SUFFICES ASSUME Inv, [Next]_vars, target' = "search" PROVE IndexInv'
    OBVIOUS
  <2>1. CASE Next
    BY <2>1, IndexSteps DEF Next
  <2>2. CASE UNCHANGED vars
    <3>1. /\ UNCHANGED <<target, log, setup, next, pending, confirmed, indexer, batch, rest, todo>>
          /\ UNCHANGED <<index, docs, deletes, written, lost, dropped>>
      BY <2>2 DEF vars, searchOnly
    <3>2. IndexInv
      BY <3>1
    <3>3. SearchInv'
      BY <3>1, <3>2 DEF IndexInv, SearchInv, SearchShape, SearchFlow, SearchAccounted
    <3>4. IndexStore'
      BY <3>1, <3>2 DEF IndexInv, IndexStore, Search!NoDoc
    <3> QED BY <3>1, <3>2, <3>3, <3>4, IndexStill DEF IndexInv
  <2> QED BY <2>1, <2>2
<1>3. Inv => IndexShowsSource
  BY IndexKeeps DEF IndexShowsSource
<1> QED BY <1>1, <1>2, <1>3, PTL DEF Spec
=============================================================================
