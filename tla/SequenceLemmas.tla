---------------------------- MODULE SequenceLemmas ---------------------------
(***************************************************************************)
(* Lemmas about sequences, which the proofs about queues cite: the members *)
(* of a sequence, sequences without repetition, suffixes, flattening, and  *)
(* induction along a sequence.                                             *)
(***************************************************************************)
EXTENDS Integers, SequencesExt, FiniteSetTheorems, SequenceTheorems, WellFoundedInduction, TLAPS

-----------------------------------------------------------------------------
(* Induction, over sets of numbers: the library's induction theorems take an *)
(* operator, which the provers cannot instantiate.                           *)

LEMMA InductionOverSet ==
    ASSUME NEW S, 0 \in S, \A n \in Nat : n \in S => n + 1 \in S
    PROVE  \A n \in Nat : n \in S
<1> DEFINE T == Nat \ S
<1>1. SUFFICES ASSUME T # {} PROVE FALSE
    OBVIOUS
<1>2. PICK m \in T : \A n \in T : <<n, m>> \notin OpToRel(<, Nat)
    <2>1. T \subseteq Nat
        OBVIOUS
    <2> HIDE DEF T
    <2>2. QED
        BY <1>1, <2>1, NatLessThanWellFounded, WFMin, Zenon
<1>3. \A n \in T : ~(n < m)
    BY <1>2, Zenon DEF OpToRel
<1>4. m \in Nat /\ m \notin S
    OBVIOUS
<1>5. m # 0
    BY <1>4
<1>6. m - 1 \in Nat /\ m - 1 < m /\ (m - 1) + 1 = m
    BY <1>4, <1>5
<1>7. m - 1 \notin S
    BY <1>4, <1>6
<1>8. QED
    BY <1>3, <1>6, <1>7

-----------------------------------------------------------------------------
-----------------------------------------------------------------------------
(* Members, and sequences without repetition *)

Unrepeated(s) == \A i, j \in DOMAIN s : i # j => s[i] # s[j]

LEMMA MembersOf ==
    ASSUME NEW T, NEW s \in Seq(T)
    PROVE  /\ \A x : x \in ToSet(s) <=> \E i \in 1 .. Len(s) : s[i] = x
           /\ \A i \in 1 .. Len(s) : s[i] \in ToSet(s)
           /\ ToSet(s) \subseteq T
           /\ ToSet(s) = {} <=> s = <<>>
<1>0. Len(s) \in Nat /\ DOMAIN s = 1 .. Len(s) /\ \A i \in 1 .. Len(s) : s[i] \in T
    OBVIOUS
<1>1. \A x : x \in ToSet(s) <=> \E i \in 1 .. Len(s) : s[i] = x
    BY <1>0, Zenon DEF ToSet
<1>2. s # <<>> => 1 \in 1 .. Len(s)
    BY <1>0, EmptySeq
<1>3. s = <<>> => 1 .. Len(s) = {}
    OBVIOUS
<1>4. ToSet(s) = {} <=> s = <<>>
    BY <1>1, <1>2, <1>3
<1>5. QED
    BY <1>0, <1>1, <1>4

LEMMA MembersEmpty == ToSet(<<>>) = {} /\ Unrepeated(<<>>)
    BY DEF ToSet, Unrepeated

LEMMA MembersAppend ==
    ASSUME NEW T, NEW s \in Seq(T), NEW x \in T
    PROVE  /\ Append(s, x) \in Seq(T)
           /\ ToSet(Append(s, x)) = ToSet(s) \cup {x}
           /\ Unrepeated(s) /\ x \notin ToSet(s) => Unrepeated(Append(s, x))
<1>1. ToSet(Append(s, x)) = ToSet(s) \cup {x}
    <2>0. Append(s, x) \in Seq(T)
        OBVIOUS
    <2>1. \A y : y \in ToSet(Append(s, x)) <=> y \in ToSet(s) \/ y = x
        <3>1. ASSUME NEW i \in 1 .. Len(s) PROVE s[i] \in ToSet(Append(s, x))
            <4>1. Append(s, x)[i] = s[i] /\ i \in 1 .. Len(Append(s, x))
                BY <3>1
            <4>2. QED
                BY <4>1, <2>0, MembersOf
        <3>2. x \in ToSet(Append(s, x))
            <4>1. Append(s, x)[Len(s) + 1] = x /\ Len(s) + 1 \in 1 .. Len(Append(s, x))
                OBVIOUS
            <4>2. QED
                BY <4>1, <2>0, MembersOf
        <3>3. ASSUME NEW i \in 1 .. Len(Append(s, x))
              PROVE  Append(s, x)[i] \in ToSet(s) \cup {x}
            BY MembersOf
        <3>4. \A y : y \in ToSet(s) <=> \E i \in 1 .. Len(s) : s[i] = y
            BY MembersOf
        <3>5. \A y : y \in ToSet(Append(s, x)) <=>
                         \E i \in 1 .. Len(Append(s, x)) : Append(s, x)[i] = y
            BY <2>0, MembersOf
        <3>6. QED
            BY <3>1, <3>2, <3>3, <3>4, <3>5, Zenon
    <2>2. QED
        BY <2>1
<1>2. ASSUME Unrepeated(s), x \notin ToSet(s) PROVE Unrepeated(Append(s, x))
    <2>1. SUFFICES ASSUME NEW i \in 1 .. Len(s) + 1, NEW j \in 1 .. Len(s) + 1, i < j
                   PROVE  Append(s, x)[i] # Append(s, x)[j]
        BY DEF Unrepeated
    <2>2. i \in 1 .. Len(s) /\ Append(s, x)[i] = s[i] /\ s[i] \in ToSet(s)
        BY <2>1, MembersOf
    <2>3. CASE j = Len(s) + 1
        BY <1>2, <2>2, <2>3
    <2>4. CASE j # Len(s) + 1
        <3>1. j \in 1 .. Len(s) /\ Append(s, x)[j] = s[j]
            BY <2>4
        <3>2. QED
            BY <1>2, <2>1, <2>2, <3>1 DEF Unrepeated
    <2>5. QED
        BY <2>3, <2>4
<1>3. QED
    BY <1>1, <1>2

LEMMA MembersConcat ==
    ASSUME NEW T, NEW s \in Seq(T), NEW t \in Seq(T)
    PROVE  /\ s \o t \in Seq(T)
           /\ ToSet(s \o t) = ToSet(s) \cup ToSet(t)
           /\ Unrepeated(s) /\ Unrepeated(t) /\ ToSet(s) \cap ToSet(t) = {} => Unrepeated(s \o t)
<1>0. /\ s \o t \in Seq(T) /\ Len(s \o t) = Len(s) + Len(t)
      /\ Len(s) \in Nat /\ Len(t) \in Nat
      /\ \A i \in 1 .. Len(s) : (s \o t)[i] = s[i]
      /\ \A i \in 1 .. Len(t) : (s \o t)[Len(s) + i] = t[i]
    OBVIOUS
<1> DEFINE u == s \o t
<1>1. u \in Seq(T) /\ Len(u) = Len(s) + Len(t)
    BY <1>0
<1>2. \A i \in 1 .. Len(s) : u[i] = s[i]
    BY <1>0
<1>3. \A i \in 1 .. Len(t) : u[Len(s) + i] = t[i]
    BY <1>0
<1> HIDE DEF u
<1>4. ASSUME NEW i \in 1 .. Len(u)
      PROVE  \/ i \in 1 .. Len(s) /\ u[i] = s[i]
             \/ i - Len(s) \in 1 .. Len(t) /\ u[i] = t[i - Len(s)]
    <2>1. CASE i <= Len(s)
        BY <1>0, <1>2, <2>1
    <2>2. CASE ~(i <= Len(s))
        <3>1. i - Len(s) \in 1 .. Len(t) /\ i = Len(s) + (i - Len(s))
            BY <1>0, <1>1, <2>2
        <3>2. QED
            BY <1>3, <3>1
    <2>3. QED
        BY <2>1, <2>2
<1>5. ToSet(u) = ToSet(s) \cup ToSet(t)
    <2>1. ASSUME NEW i \in 1 .. Len(s) PROVE s[i] \in ToSet(u)
        <3>1. i \in 1 .. Len(u)
            BY <1>0, <1>1
        <3>2. QED
            BY <1>1, <1>2, <3>1, MembersOf
    <2>2. ASSUME NEW i \in 1 .. Len(t) PROVE t[i] \in ToSet(u)
        <3>1. Len(s) + i \in 1 .. Len(u)
            BY <1>0, <1>1
        <3>2. QED
            BY <1>1, <1>3, <3>1, MembersOf
    <2>3. ASSUME NEW i \in 1 .. Len(u) PROVE u[i] \in ToSet(s) \cup ToSet(t)
        BY <1>4, MembersOf
    <2>4. \A y : y \in ToSet(s) <=> \E i \in 1 .. Len(s) : s[i] = y
        BY MembersOf
    <2>5. \A y : y \in ToSet(t) <=> \E i \in 1 .. Len(t) : t[i] = y
        BY MembersOf
    <2>6. \A y : y \in ToSet(u) <=> \E i \in 1 .. Len(u) : u[i] = y
        BY <1>1, MembersOf
    <2>7. QED
        BY <2>1, <2>2, <2>3, <2>4, <2>5, <2>6, Zenon
<1>6. ASSUME Unrepeated(s), Unrepeated(t), ToSet(s) \cap ToSet(t) = {} PROVE Unrepeated(u)
    <2>1. SUFFICES ASSUME NEW i \in 1 .. Len(u), NEW j \in 1 .. Len(u), i # j
                   PROVE  u[i] # u[j]
        BY <1>1 DEF Unrepeated
    <2>2. \A h \in 1 .. Len(s) : s[h] \in ToSet(s)
        BY MembersOf
    <2>3. \A h \in 1 .. Len(t) : t[h] \in ToSet(t)
        BY MembersOf
    <2>4. \A h, l \in 1 .. Len(s) : h # l => s[h] # s[l]
        BY <1>6 DEF Unrepeated
    <2>5. \A h, l \in 1 .. Len(t) : h # l => t[h] # t[l]
        BY <1>6 DEF Unrepeated
    <2>6. i - Len(s) # j - Len(s)
        BY <1>0, <1>1, <2>1
    <2>7. QED
        BY <1>4, <1>6, <2>1, <2>2, <2>3, <2>4, <2>5, <2>6
<1>7. QED
    BY <1>1, <1>5, <1>6 DEF u

\* A part of a sequence.
LEMMA MembersSubSeq ==
    ASSUME NEW T, NEW s \in Seq(T), NEW m \in Nat \ {0}, NEW n \in Int, n <= Len(s)
    PROVE  /\ SubSeq(s, m, n) \in Seq(T)
           /\ Len(SubSeq(s, m, n)) = IF m <= n THEN n - m + 1 ELSE 0
           /\ \A i \in 1 .. Len(SubSeq(s, m, n)) : SubSeq(s, m, n)[i] = s[m + i - 1]
           /\ ToSet(SubSeq(s, m, n)) = {s[i] : i \in m .. n}
           /\ Unrepeated(s) => Unrepeated(SubSeq(s, m, n))
<1> DEFINE u == SubSeq(s, m, n)
<1>0. Len(s) \in Nat /\ \A i \in 1 .. Len(s) : s[i] \in T
    OBVIOUS
<1>1. \A i \in m .. n : s[i] \in T
    BY <1>0
<1>2. /\ u \in Seq(T) /\ Len(u) = IF m <= n THEN n - m + 1 ELSE 0
      /\ \A i \in 1 .. n - m + 1 : u[i] = s[m + i - 1]
    BY <1>1, SubSeqProperties
<1> HIDE DEF u
<1>3. \A i \in 1 .. Len(u) : i \in 1 .. n - m + 1 /\ u[i] = s[m + i - 1] /\ m + i - 1 \in m .. n
    BY <1>2
<1>4. \A i \in m .. n : i - m + 1 \in 1 .. Len(u) /\ m + (i - m + 1) - 1 = i
    BY <1>2
<1>5. \A i \in m .. n : i - m + 1 \in 1 .. Len(u) /\ u[i - m + 1] = s[i]
    BY <1>3, <1>4
<1>6. ToSet(u) = {s[i] : i \in m .. n}
    <2>1. \A x : x \in ToSet(u) <=> \E i \in 1 .. Len(u) : u[i] = x
        BY <1>2, MembersOf
    <2>2. \A x : x \in ToSet(u) <=> \E i \in m .. n : s[i] = x
        BY <2>1, <1>3, <1>5, ZenonT(60)
    <2>3. QED
        BY <2>2, Zenon
<1>7. ASSUME Unrepeated(s) PROVE Unrepeated(u)
    <2>1. SUFFICES ASSUME NEW i \in 1 .. Len(u), NEW j \in 1 .. Len(u), i # j
                   PROVE  u[i] # u[j]
        BY <1>2 DEF Unrepeated
    <2>2. m + i - 1 # m + j - 1 /\ m + i - 1 \in 1 .. Len(s) /\ m + j - 1 \in 1 .. Len(s)
        BY <1>0, <1>2, <2>1
    <2>3. s[m + i - 1] # s[m + j - 1]
        BY <1>7, <2>2 DEF Unrepeated
    <2>4. QED
        BY <1>3, <2>3
<1>8. QED
    BY <1>2, <1>3, <1>6, <1>7 DEF u

\* The first n members and the others are apart.
LEMMA MembersSplit ==
    ASSUME NEW T, NEW s \in Seq(T), Unrepeated(s), NEW n \in 0 .. Len(s)
    PROVE  ToSet(SubSeq(s, n + 1, Len(s))) = ToSet(s) \ ToSet(SubSeq(s, 1, n))
<1>0. Len(s) \in Nat /\ n \in Int /\ n <= Len(s) /\ n + 1 \in Nat \ {0} /\ Len(s) <= Len(s)
    OBVIOUS
<1>1. ToSet(SubSeq(s, n + 1, Len(s))) = {s[i] : i \in (n + 1) .. Len(s)}
    BY <1>0, MembersSubSeq
<1>2. ToSet(SubSeq(s, 1, n)) = {s[i] : i \in 1 .. n}
    BY <1>0, MembersSubSeq
<1>3. \A x : x \in ToSet(s) <=> \E i \in 1 .. Len(s) : s[i] = x
    BY MembersOf
<1>4. \A i \in 1 .. Len(s) : i \in 1 .. n \/ i \in (n + 1) .. Len(s)
    BY <1>0
<1>5. \A i \in 1 .. n, j \in (n + 1) .. Len(s) : s[i] # s[j]
    <2>1. \A i \in 1 .. n, j \in (n + 1) .. Len(s) : i \in 1 .. Len(s) /\ j \in 1 .. Len(s) /\ i # j
        BY <1>0
    <2>2. QED
        BY <2>1 DEF Unrepeated
<1>6. \A j \in (n + 1) .. Len(s) : j \in 1 .. Len(s)
    BY <1>0
<1>7. QED
    BY <1>1, <1>2, <1>3, <1>4, <1>5, <1>6

\* A member is the head or one of the others.
LEMMA MembersHeadTail ==
    ASSUME NEW T, NEW s \in Seq(T), s # <<>>
    PROVE  ToSet(s) \subseteq {Head(s)} \cup ToSet(Tail(s))
<1>1. Len(s) \in Nat \ {0} /\ Tail(s) \in Seq(T) /\ Len(Tail(s)) = Len(s) - 1
    BY EmptySeq, HeadTailProperties
<1>2. \A i \in 1 .. Len(s) - 1 : Tail(s)[i] = s[i + 1]
    BY <1>1, HeadTailProperties
<1>3. SUFFICES ASSUME NEW i \in 1 .. Len(s) PROVE s[i] = Head(s) \/ s[i] \in ToSet(Tail(s))
    BY MembersOf
<1>4. CASE i = 1
    BY <1>1, <1>4
<1>5. CASE i # 1
    <2>1. i - 1 \in 1 .. Len(Tail(s)) /\ (i - 1) + 1 = i
        BY <1>1, <1>5
    <2>2. Tail(s)[i - 1] = s[i]
        BY <1>1, <1>2, <2>1
    <2>3. QED
        BY <1>1, <2>1, <2>2, MembersOf
<1>6. QED
    BY <1>4, <1>5

\* Without its head a sequence without repetition has one member less.
LEMMA MembersTail ==
    ASSUME NEW T, NEW s \in Seq(T), s # <<>>, Unrepeated(s)
    PROVE  /\ Tail(s) \in Seq(T) /\ Head(s) \in T /\ Unrepeated(Tail(s))
           /\ ToSet(Tail(s)) = ToSet(s) \ {Head(s)} /\ Head(s) \in ToSet(s)
<1>1. Len(s) \in Nat \ {0} /\ Tail(s) \in Seq(T) /\ Len(Tail(s)) = Len(s) - 1
    BY EmptySeq, HeadTailProperties
<1>2. \A i \in 1 .. Len(s) - 1 : Tail(s)[i] = s[i + 1]
    BY <1>1, HeadTailProperties
<1>3. Head(s) = s[1] /\ 1 \in 1 .. Len(s) /\ \A i \in 1 .. Len(s) : s[i] \in T
    BY <1>1
<1>4. Unrepeated(Tail(s))
    BY <1>1, <1>2 DEF Unrepeated
<1>5. \A x : x \in ToSet(Tail(s)) <=> \E i \in 1 .. Len(s) - 1 : s[i + 1] = x
    BY <1>1, <1>2, MembersOf
<1>6. \A x : x \in ToSet(s) <=> \E i \in 1 .. Len(s) : s[i] = x
    BY MembersOf
<1>7. \A i, j \in 1 .. Len(s) : s[i] = s[j] => i = j
    BY <1>1 DEF Unrepeated
<1>8. \A i \in 1 .. Len(s) : i = 1 \/ (i - 1 \in 1 .. Len(s) - 1 /\ (i - 1) + 1 = i)
    BY <1>1
<1>9. \A i \in 1 .. Len(s) - 1 : i + 1 \in 1 .. Len(s) /\ i + 1 # 1
    BY <1>1
<1>10. ASSUME NEW x PROVE x \in ToSet(Tail(s)) <=> x \in ToSet(s) /\ x # Head(s)
    <2>1. ASSUME x \in ToSet(Tail(s)) PROVE x \in ToSet(s) /\ x # Head(s)
        <3>1. PICK i \in 1 .. Len(s) - 1 : s[i + 1] = x
            BY <1>5, <2>1
        <3>2. QED
            BY <1>3, <1>6, <1>7, <1>9, <3>1
    <2>2. ASSUME x \in ToSet(s), x # Head(s) PROVE x \in ToSet(Tail(s))
        <3>1. PICK i \in 1 .. Len(s) : s[i] = x
            BY <1>6, <2>2
        <3>2. i - 1 \in 1 .. Len(s) - 1 /\ s[(i - 1) + 1] = x
            BY <1>3, <1>8, <2>2, <3>1
        <3>3. QED
            BY <1>5, <3>2, Zenon
    <2>3. QED
        BY <2>1, <2>2
<1>11. QED
    BY <1>1, <1>3, <1>4, <1>6, <1>10

\* A sequence without repetition is as long as the set of its members is large.
LEMMA LengthIsCardinality ==
    ASSUME NEW T, NEW s \in Seq(T), Unrepeated(s)
    PROVE  IsFiniteSet(ToSet(s)) /\ Cardinality(ToSet(s)) = Len(s)
<1>1. Len(s) \in Nat /\ s \in [1 .. Len(s) -> ToSet(s)]
    BY MembersOf
<1>2. s \in Bijection(1 .. Len(s), ToSet(s))
    BY <1>1, MembersOf DEF Unrepeated, Bijection, Injection, Surjection, IsInjective
<1>3. IsFiniteSet(1 .. Len(s)) /\ Cardinality(1 .. Len(s)) = Len(s)
    BY <1>1, FS_Interval
<1>4. QED
    BY <1>2, <1>3, FS_Bijection DEF ExistsBijection

-----------------------------------------------------------------------------
(* Suffixes *)

LEMMA SuffixAt ==
    ASSUME NEW T, NEW s \in Seq(T), NEW t \in Seq(T)
    PROVE  IsSuffix(s, t) <=>
              /\ Len(s) <= Len(t)
              /\ \A i \in 1 .. Len(s) : s[i] = t[Len(t) - Len(s) + i]
<1> DEFINE rs == Reverse(s)
           rt == Reverse(t)
<1>0. Len(s) \in Nat /\ Len(t) \in Nat /\ s \in [1 .. Len(s) -> T] /\ t \in [1 .. Len(t) -> T]
    OBVIOUS
<1>1. /\ rs \in Seq(T) /\ Len(rs) = Len(s) /\ \A i \in 1 .. Len(s) : rs[i] = s[Len(s) - i + 1]
      /\ rt \in Seq(T) /\ Len(rt) = Len(t) /\ \A i \in 1 .. Len(t) : rt[i] = t[Len(t) - i + 1]
    BY <1>0, Z3 DEF Reverse
<1>2. IsSuffix(s, t) <=> Len(rs) <= Len(rt) /\ SubSeq(rs, 1, Len(rs)) = SubSeq(rt, 1, Len(rs))
    BY DEF IsSuffix, IsPrefix
<1> HIDE DEF rs, rt
<1>3. SubSeq(rs, 1, Len(rs)) = rs
    BY <1>1
<1>4. ASSUME Len(s) <= Len(t)
      PROVE  SubSeq(rt, 1, Len(rs)) = rs <=> \A i \in 1 .. Len(s) : rt[i] = rs[i]
    <2> DEFINE p == SubSeq(rt, 1, Len(s))
    <2>1. p \in Seq(T) /\ Len(p) = Len(s) /\ \A i \in 1 .. Len(s) : p[i] = rt[i]
        BY <1>0, <1>1, <1>4, MembersSubSeq
    <2> HIDE DEF p
    <2>2. p = rs <=> \A i \in 1 .. Len(s) : p[i] = rs[i]
        BY <1>1, <2>1, SeqEqual
    <2>3. QED
        BY <1>1, <2>1, <2>2 DEF p
<1>5. ASSUME Len(s) <= Len(t)
      PROVE  (\A i \in 1 .. Len(s) : rt[i] = rs[i]) <=>
                 \A i \in 1 .. Len(s) : s[i] = t[Len(t) - Len(s) + i]
    <2>1. \A i \in 1 .. Len(s) : rt[i] = t[Len(t) - i + 1] /\ rs[i] = s[Len(s) - i + 1]
        BY <1>0, <1>1, <1>5
    <2>2. \A i \in 1 .. Len(s) :
              Len(s) - i + 1 \in 1 .. Len(s) /\ Len(t) - Len(s) + (Len(s) - i + 1) = Len(t) - i + 1
        BY <1>0
    <2>3. \A i \in 1 .. Len(s) :
              Len(s) - (Len(s) - i + 1) + 1 = i /\ Len(t) - (Len(s) - i + 1) + 1 = Len(t) - Len(s) + i
        BY <1>0
    <2>4. ASSUME \A i \in 1 .. Len(s) : rt[i] = rs[i], NEW i \in 1 .. Len(s)
          PROVE  s[i] = t[Len(t) - Len(s) + i]
        <3>1. PICK j \in 1 .. Len(s) : j = Len(s) - i + 1
            BY <2>2
        <3>2. Len(s) - j + 1 = i /\ Len(t) - j + 1 = Len(t) - Len(s) + i
            BY <2>3, <3>1
        <3>3. QED
            BY <2>1, <2>4, <3>2
    <2>5. ASSUME \A i \in 1 .. Len(s) : s[i] = t[Len(t) - Len(s) + i], NEW i \in 1 .. Len(s)
          PROVE  rt[i] = rs[i]
        <3>1. PICK j \in 1 .. Len(s) : j = Len(s) - i + 1
            BY <2>2
        <3>2. Len(t) - Len(s) + j = Len(t) - i + 1
            BY <2>2, <3>1
        <3>3. QED
            BY <2>1, <2>5, <3>1, <3>2
    <2>6. QED
        BY <2>4, <2>5
<1>6. QED
    BY <1>1, <1>2, <1>3, <1>4, <1>5

\* What is added to a sequence is added to its suffix, which then may lose its first members.
LEMMA SuffixConcat ==
    ASSUME NEW T, NEW s \in Seq(T), NEW t \in Seq(T), NEW u \in Seq(T), IsSuffix(s, t),
           NEW m \in Nat \ {0}
    PROVE  IsSuffix(SubSeq(s \o u, m, Len(s \o u)), t \o u)
<1> DEFINE su == s \o u
           tu == t \o u
           p  == SubSeq(su, m, Len(su))
<1>0. Len(s) \in Nat /\ Len(t) \in Nat /\ Len(u) \in Nat
    OBVIOUS
<1>1. Len(s) <= Len(t) /\ \A i \in 1 .. Len(s) : s[i] = t[Len(t) - Len(s) + i]
    BY SuffixAt
<1>2. /\ su \in Seq(T) /\ Len(su) = Len(s) + Len(u)
      /\ \A i \in 1 .. Len(s) + Len(u) : su[i] = IF i <= Len(s) THEN s[i] ELSE u[i - Len(s)]
    BY ConcatProperties
<1>3. /\ tu \in Seq(T) /\ Len(tu) = Len(t) + Len(u)
      /\ \A i \in 1 .. Len(t) + Len(u) : tu[i] = IF i <= Len(t) THEN t[i] ELSE u[i - Len(t)]
    BY ConcatProperties
<1> HIDE DEF su, tu
<1>4. /\ p \in Seq(T) /\ Len(p) = IF m <= Len(su) THEN Len(su) - m + 1 ELSE 0
      /\ \A i \in 1 .. Len(p) : p[i] = su[m + i - 1]
    <2>1. Len(su) \in Int /\ Len(su) <= Len(su)
        BY <1>2
    <2>2. QED
        BY <1>2, <2>1, MembersSubSeq
<1>5. \A i \in 1 .. Len(su) : su[i] = tu[Len(tu) - Len(su) + i]
    <2>1. TAKE i \in 1 .. Len(su)
    <2> DEFINE j == Len(tu) - Len(su) + i
    <2>2. j = Len(t) - Len(s) + i /\ j \in 1 .. Len(t) + Len(u)
        BY <1>0, <1>1, <1>2, <1>3
    <2>3. CASE i <= Len(s)
        <3>1. j <= Len(t) /\ su[i] = s[i] /\ s[i] = t[Len(t) - Len(s) + i]
            BY <1>0, <1>1, <1>2, <2>2, <2>3
        <3>2. QED
            BY <1>3, <2>2, <3>1
    <2>4. CASE ~(i <= Len(s))
        <3>1. ~(j <= Len(t)) /\ j - Len(t) = i - Len(s)
            BY <1>0, <2>2, <2>4
        <3>2. su[i] = u[i - Len(s)] /\ tu[j] = u[j - Len(t)]
            BY <1>2, <1>3, <2>2, <2>4, <3>1
        <3>3. QED
            BY <3>1, <3>2
    <2>5. QED
        BY <2>3, <2>4
<1> HIDE DEF p
<1>6. Len(p) <= Len(su) /\ Len(su) <= Len(tu) /\ Len(p) \in Nat /\ Len(su) \in Nat /\ Len(tu) \in Nat
    BY <1>0, <1>1, <1>2, <1>3, <1>4
<1>7. ASSUME NEW i \in 1 .. Len(p) PROVE p[i] = tu[Len(tu) - Len(p) + i]
    <2>1. m + i - 1 \in 1 .. Len(su) /\ Len(tu) - Len(su) + (m + i - 1) = Len(tu) - Len(p) + i
        BY <1>4, <1>6
    <2>2. QED
        BY <1>4, <1>5, <2>1
<1>8. IsSuffix(p, tu)
    <2>1. Len(p) <= Len(tu)
        BY <1>6
    <2>2. QED
        BY <1>3, <1>4, <1>7, <2>1, SuffixAt
<1>9. QED
    BY <1>8 DEF p, su, tu

-----------------------------------------------------------------------------
(* Flattening a sequence of sequences *)

\* f holds what FlattenSeq has after each member of ss.
FlattenedBy(ss, f) ==
    \A n \in 1 .. Len(ss) : f[n] = IF n = 1 THEN ss[n] ELSE f[n - 1] \o ss[n]

LEMMA FlattenDef ==
    ASSUME NEW T, NEW ss \in Seq(Seq(T)), ss # <<>>
    PROVE  \E f : FlattenedBy(ss, f) /\ FlattenSeq(ss) = f[Len(ss)]
<1> DEFINE step(f, n) == IF n = 1 THEN ss[n] ELSE f[n - 1] \o ss[n]
           g == CHOOSE f : f = [n \in 1 .. Len(ss) |-> step(f, n)]
           partial(m, h) == h = [n \in 1 .. m |-> step(h, n)]
           D == {m \in Nat : m <= Len(ss) => \E h : partial(m, h)}
<1>0. Len(ss) \in Nat /\ Len(ss) # 0
    BY EmptySeq
<1>1. FlattenSeq(ss) = g[Len(ss)]
    BY <1>0, Zenon DEF FlattenSeq
<1>2. 0 \in D
    <2> DEFINE h == [n \in 1 .. 0 |-> <<>>]
    <2>1. \A n \in 1 .. 0 : step(h, n) = <<>>
        OBVIOUS
    <2>2. partial(0, h)
        BY <2>1
    <2>3. QED
        BY <2>2
<1>3. ASSUME NEW m \in Nat, m \in D PROVE m + 1 \in D
    <2>0. m + 1 \in Nat
        OBVIOUS
    <2>1. SUFFICES ASSUME m + 1 <= Len(ss) PROVE \E h : partial(m + 1, h)
        BY <2>0, Zenon
    <2>2. PICK h : partial(m, h)
        <3>1. m <= Len(ss)
            BY <1>0, <2>1
        <3>2. QED
            BY <1>3, <3>1, Zenon
    <2> DEFINE k == [n \in 1 .. (m + 1) |-> IF n = m + 1 THEN step(h, m + 1) ELSE h[n]]
    <2>3. \A n \in 1 .. (m + 1) : k[n] = step(k, n)
        <3>1. TAKE n \in 1 .. (m + 1)
        <3>2. n # 1 => n - 1 \in 1 .. m /\ k[n - 1] = h[n - 1]
            OBVIOUS
        <3>3. n # m + 1 => n \in 1 .. m /\ k[n] = h[n]
            OBVIOUS
        <3>4. n \in 1 .. m => h[n] = step(h, n)
            BY <2>2
        <3>5. step(k, n) = step(h, n)
            BY <3>2
        <3>6. k[m + 1] = step(h, m + 1)
            OBVIOUS
        <3> HIDE DEF k, step
        <3>7. QED
            BY <3>3, <3>4, <3>5, <3>6
    <2>4. partial(m + 1, k)
        <3>1. k = [n \in 1 .. (m + 1) |-> k[n]]
            OBVIOUS
        <3> HIDE DEF k, step
        <3>2. QED
            BY <2>3, <3>1
    <2>5. QED
        BY <2>4
<1>4. \E f : f = [n \in 1 .. Len(ss) |-> step(f, n)]
    <2>1. \A n \in Nat : n \in D
        <3> HIDE DEF D
        <3>1. QED
            BY <1>2, <1>3, InductionOverSet
    <2>2. Len(ss) \in D
        BY <1>0, <2>1
    <2>3. \E h : partial(Len(ss), h)
        <3>1. Len(ss) <= Len(ss)
            BY <1>0
        <3>2. QED
            BY <2>2, <3>1, Zenon
    <2>4. QED
        BY <2>3, Zenon
<1>5. g = [n \in 1 .. Len(ss) |-> step(g, n)]
    BY <1>4, Zenon
<1>6. FlattenedBy(ss, g)
    <2> HIDE DEF g
    <2>1. \A n \in 1 .. Len(ss) : g[n] = step(g, n)
        BY <1>5
    <2>2. QED
        BY <1>0, <2>1 DEF FlattenedBy
<1>7. QED
    BY <1>1, <1>6

LEMMA FlattenedSeq ==
    ASSUME NEW T, NEW ss \in Seq(Seq(T)), NEW f, FlattenedBy(ss, f)
    PROVE  \A n \in 1 .. Len(ss) : f[n] \in Seq(T)
<1> DEFINE D == {n \in Nat : n \in 1 .. Len(ss) => f[n] \in Seq(T)}
<1>0. Len(ss) \in Nat /\ \A n \in 1 .. Len(ss) : ss[n] \in Seq(T)
    OBVIOUS
<1>1. 0 \in D
    OBVIOUS
<1>2. ASSUME NEW n \in Nat, n \in D PROVE n + 1 \in D
    <2>1. SUFFICES ASSUME n + 1 \in 1 .. Len(ss) PROVE f[n + 1] \in Seq(T)
        OBVIOUS
    <2>2. CASE n = 0
        BY <1>0, <2>1, <2>2 DEF FlattenedBy
    <2>3. CASE n # 0
        <3>1. n \in 1 .. Len(ss) /\ (n + 1) - 1 = n /\ n + 1 # 1
            BY <1>0, <2>1, <2>3
        <3>2. f[n] \in Seq(T) /\ ss[n + 1] \in Seq(T) /\ f[n + 1] = f[n] \o ss[n + 1]
            BY <1>0, <1>2, <2>1, <3>1 DEF FlattenedBy
        <3>3. QED
            BY <3>2, ConcatProperties
    <2>4. QED
        BY <2>2, <2>3
<1>3. \A n \in Nat : n \in D
    <2> HIDE DEF D
    <2>1. QED
        BY <1>1, <1>2, InductionOverSet
<1>4. QED
    BY <1>0, <1>3

\* They agree on what two sequences of sequences have in common.
Extends(uu, ss) == Len(ss) <= Len(uu) /\ \A n \in 1 .. Len(ss) : ss[n] = uu[n]

LEMMA FlattenedSame ==
    ASSUME NEW T, NEW ss \in Seq(Seq(T)), NEW uu \in Seq(Seq(T)), NEW f, NEW g
    PROVE  (FlattenedBy(ss, f) /\ FlattenedBy(uu, g) /\ Extends(uu, ss)) =>
              \A n \in 1 .. Len(ss) : f[n] = g[n]
<1> SUFFICES ASSUME FlattenedBy(ss, f), FlattenedBy(uu, g), Extends(uu, ss)
             PROVE  \A n \in 1 .. Len(ss) : f[n] = g[n]
    OBVIOUS
<1> DEFINE D == {n \in Nat : n \in 1 .. Len(ss) => f[n] = g[n]}
<1>0. Len(ss) \in Nat /\ Len(uu) \in Nat
    OBVIOUS
<1>1. 0 \in D
    OBVIOUS
<1>2. ASSUME NEW n \in Nat, n \in D PROVE n + 1 \in D
    <2>1. SUFFICES ASSUME n + 1 \in 1 .. Len(ss) PROVE f[n + 1] = g[n + 1]
        OBVIOUS
    <2>2. n + 1 \in 1 .. Len(ss) /\ n + 1 \in 1 .. Len(uu) /\ (n + 1) - 1 = n
        BY <1>0, <2>1 DEF Extends
    <2>3. /\ f[n + 1] = IF n + 1 = 1 THEN ss[n + 1] ELSE f[n] \o ss[n + 1]
          /\ g[n + 1] = IF n + 1 = 1 THEN uu[n + 1] ELSE g[n] \o uu[n + 1]
        BY <2>2 DEF FlattenedBy
    <2>4. n + 1 # 1 => f[n] = g[n]
        BY <1>2, <2>1
    <2>5. ss[n + 1] = uu[n + 1]
        BY <2>1 DEF Extends
    <2>6. QED
        BY <2>3, <2>4, <2>5
<1>3. \A n \in Nat : n \in D
    <2> HIDE DEF D
    <2>1. QED
        BY <1>1, <1>2, InductionOverSet
<1>4. QED
    BY <1>3

LEMMA FlattenEmpty == FlattenSeq(<<>>) = <<>>
<1>1. Len(<<>>) = 0
    OBVIOUS
<1>2. QED
    BY <1>1, Zenon DEF FlattenSeq

LEMMA FlattenType ==
    ASSUME NEW T, NEW ss \in Seq(Seq(T))
    PROVE  FlattenSeq(ss) \in Seq(T)
<1>1. CASE ss = <<>>
    BY <1>1, FlattenEmpty, EmptySeq, Zenon
<1>2. CASE ss # <<>>
    <2>1. PICK f : FlattenedBy(ss, f) /\ FlattenSeq(ss) = f[Len(ss)]
        BY <1>2, FlattenDef
    <2>2. Len(ss) \in 1 .. Len(ss)
        BY <1>2, EmptySeq
    <2>3. QED
        BY <2>1, <2>2, FlattenedSeq
<1>3. QED
    BY <1>1, <1>2

LEMMA FlattenAppend ==
    ASSUME NEW T, NEW ss \in Seq(Seq(T)), NEW s \in Seq(T)
    PROVE  FlattenSeq(Append(ss, s)) = FlattenSeq(ss) \o s
<1> DEFINE tt == Append(ss, s)
           m == Len(ss)
<1>0. /\ m \in Nat /\ tt \in Seq(Seq(T)) /\ tt # <<>> /\ Len(tt) = m + 1
      /\ \A n \in 1 .. m : tt[n] = ss[n]
      /\ tt[m + 1] = s
    BY AppendProperties, LenProperties
<1> HIDE DEF tt
<1>1. PICK g : FlattenedBy(tt, g) /\ FlattenSeq(tt) = g[m + 1]
    BY <1>0, FlattenDef
<1>2. CASE ss = <<>>
    <2>1. m = 0 /\ 1 \in 1 .. Len(tt)
        BY <1>0, <1>2
    <2>2. g[1] = tt[1]
        BY <1>1, <2>1 DEF FlattenedBy
    <2>3. FlattenSeq(tt) = s
        BY <1>0, <1>1, <2>1, <2>2
    <2>4. QED
        BY <1>2, <2>3, FlattenEmpty, ConcatEmptySeq DEF tt
<1>3. CASE ss # <<>>
    <2>1. m # 0 /\ m + 1 \in 1 .. Len(tt) /\ (m + 1) - 1 = m /\ m \in 1 .. m /\ m + 1 # 1
        BY <1>0, <1>3, EmptySeq
    <2>2. g[m + 1] = g[m] \o tt[m + 1]
        BY <1>1, <2>1 DEF FlattenedBy
    <2>3. PICK f : FlattenedBy(ss, f) /\ FlattenSeq(ss) = f[m]
        BY <1>3, FlattenDef
    <2>4. f[m] = g[m]
        <3>0. tt \in Seq(Seq(T))
            BY <1>0
        <3>1. Extends(tt, ss)
            BY <1>0 DEF Extends
        <3>2. (FlattenedBy(ss, f) /\ FlattenedBy(tt, g) /\ Extends(tt, ss)) =>
                  \A n \in 1 .. Len(ss) : f[n] = g[n]
            BY <3>0, FlattenedSame, SMT
        <3>3. \A n \in 1 .. Len(ss) : f[n] = g[n]
            BY <1>1, <2>3, <3>1, <3>2, Zenon
        <3>4. QED
            BY <2>1, <3>3
    <2>5. QED
        BY <1>0, <1>1, <2>2, <2>3, <2>4 DEF tt
<1>4. QED
    BY <1>2, <1>3

LEMMA FlattenHead ==
    ASSUME NEW T, NEW ss \in Seq(Seq(T)), ss # <<>>
    PROVE  FlattenSeq(ss) = Head(ss) \o FlattenSeq(Tail(ss))
<1> DEFINE tt == Tail(ss)
           h == Head(ss)
           m == Len(tt)
<1>0. /\ tt \in Seq(Seq(T)) /\ m \in Nat /\ Len(ss) = m + 1 /\ h \in Seq(T)
      /\ \A n \in 1 .. m : tt[n] = ss[n + 1] /\ tt[n] \in Seq(T)
      /\ h = ss[1]
    BY HeadTailProperties, LenProperties
<1>1. PICK f : FlattenedBy(ss, f) /\ FlattenSeq(ss) = f[m + 1]
    BY <1>0, FlattenDef
<1>2. f[1] = h
    <2>1. 1 \in 1 .. Len(ss)
        BY <1>0
    <2>2. QED
        BY <1>0, <1>1, <2>1 DEF FlattenedBy
<1> HIDE DEF tt, h, m
<1>3. CASE tt = <<>>
    <2>1. m = 0
        BY <1>3 DEF m
    <2>2. QED
        <3>1. FlattenSeq(ss) = h
            BY <1>1, <1>2, <2>1
        <3>2. FlattenSeq(tt) = <<>> /\ h \o <<>> = h
            BY <1>0, <1>3, FlattenEmpty, ConcatEmptySeq, Zenon
        <3>3. FlattenSeq(ss) = h \o FlattenSeq(tt)
            BY <3>1, <3>2, Zenon
        <3>4. QED
            BY <3>3 DEF tt, h
<1>4. CASE tt # <<>>
    <2>0. m \in 1 .. m /\ m + 1 # 1
        BY <1>0, <1>4, EmptySeq DEF m
    <2>1. PICK g : FlattenedBy(tt, g) /\ FlattenSeq(tt) = g[m]
        BY <1>0, <1>4, FlattenDef DEF m
    <2>2. \A n \in 1 .. m : g[n] \in Seq(T)
        BY <1>0, <2>1, FlattenedSeq DEF m
    <2> DEFINE D == {n \in Nat : n \in 1 .. m => f[n + 1] = h \o g[n]}
    <2>3. 0 \in D
        OBVIOUS
    <2>4. ASSUME NEW n \in Nat, n \in D PROVE n + 1 \in D
        <3>1. SUFFICES ASSUME n + 1 \in 1 .. m PROVE f[(n + 1) + 1] = h \o g[n + 1]
            OBVIOUS
        <3>2. /\ (n + 1) + 1 \in 1 .. Len(ss) /\ ((n + 1) + 1) - 1 = n + 1 /\ (n + 1) + 1 # 1
              /\ (n + 1) - 1 = n
            BY <1>0, <3>1
        <3>3. f[(n + 1) + 1] = f[n + 1] \o tt[n + 1]
            BY <1>0, <1>1, <3>1, <3>2 DEF FlattenedBy
        <3>4. g[n + 1] = IF n + 1 = 1 THEN tt[n + 1] ELSE g[n] \o tt[n + 1]
            BY <2>1, <3>1, <3>2 DEF FlattenedBy, m
        <3>5. CASE n = 0
            <4>1. n + 1 = 1
                BY <3>5
            <4>2. f[n + 1] = h /\ g[n + 1] = tt[n + 1]
                BY <1>2, <3>4, <4>1
            <4>3. QED
                BY <3>3, <4>2
        <3>6. CASE n # 0
            <4>1. n \in 1 .. m /\ n + 1 # 1
                BY <1>0, <3>1, <3>6
            <4>2. f[n + 1] = h \o g[n] /\ g[n] \in Seq(T) /\ tt[n + 1] \in Seq(T)
                BY <1>0, <2>2, <2>4, <3>1, <4>1
            <4>3. (h \o g[n]) \o tt[n + 1] = h \o (g[n] \o tt[n + 1])
                <5>1. \A a, b, c \in Seq(T) : (a \o b) \o c = a \o (b \o c)
                    BY ConcatAssociative, SMTT(30)
                <5>2. QED
                    BY <1>0, <4>2, <5>1, Zenon
            <4>4. QED
                BY <3>3, <3>4, <4>1, <4>2, <4>3
        <3>7. QED
            BY <3>5, <3>6
    <2>5. \A n \in Nat : n \in D
        <3> HIDE DEF D
        <3>1. QED
            BY <2>3, <2>4, InductionOverSet
    <2>6. f[m + 1] = h \o g[m]
        BY <1>0, <2>0, <2>5
    <2>7. QED
        BY <1>1, <2>1, <2>6 DEF tt, h
<1>5. QED
    BY <1>3, <1>4

=============================================================================
