------------------------ MODULE Subsequences_proofs ------------------------
(* Induction over the natural numbers as a fact about sets, and what the      *)
(* elements of a sequence that are in a set make up.                          *)
EXTENDS Subsequences, SequenceTheorems, WellFoundedInduction, TLAPS

LEMMA LeastNumber ==
    ASSUME NEW S, S \subseteq Nat, S # {}
    PROVE  \E m \in S : \A n \in S : m <= n
<1> DEFINE R == {ss \in Nat \X Nat : ss[1] < ss[2]}
<1>1. IsWellFoundedOn(R, Nat)
  BY NatLessThanWellFounded DEF OpToRel
<1>2. PICK m \in S : \A n \in S : <<n, m>> \notin R
  <2> HIDE DEF R
  <2> QED BY <1>1, WFMin
<1>3. \A n \in S : m <= n
  <2> SUFFICES ASSUME NEW n \in S PROVE m <= n
    OBVIOUS
  <2>1. ~ (n < m)
    BY <1>2
  <2> QED BY <2>1
<1> QED BY <1>3

LEMMA SetInduction ==
    ASSUME NEW S, 0 \in S, \A n \in Nat : n \in S => n + 1 \in S
    PROVE  Nat \subseteq S
<1> SUFFICES ASSUME Nat \ S # {} PROVE FALSE
  OBVIOUS
<1>1. PICK m \in Nat \ S : \A n \in Nat \ S : m <= n
  BY LeastNumber
<1> QED BY <1>1, m # 0, m - 1 \in Nat, m - 1 + 1 = m

(* The function that Kept is defined by exists.                               *)
UpTo(s, K, f, n) ==
    f = [i \in 0 .. n |->
            IF i = 0 THEN <<>>
            ELSE IF s[i] \in K THEN Append(f[i - 1], s[i]) ELSE f[i - 1]]

LEMMA UpToExists ==
    ASSUME NEW s, NEW K, NEW n \in Nat
    PROVE  \E f : UpTo(s, K, f, n)
<1> DEFINE N == {k \in Nat : \E f : UpTo(s, K, f, k)}
<1>1. 0 \in N
  <2>1. UpTo(s, K, [i \in 0 .. 0 |-> <<>>], 0)
    BY DEF UpTo
  <2> QED BY <2>1
<1>2. ASSUME NEW k \in Nat, k \in N PROVE k + 1 \in N
  <2>1. PICK f : UpTo(s, K, f, k)
    BY <1>2
  <2> DEFINE g == [i \in 0 .. k + 1 |->
                     IF i = 0 THEN <<>>
                     ELSE IF s[i] \in K THEN Append(f[i - 1], s[i]) ELSE f[i - 1]]
  <2>2. ASSUME NEW i \in 0 .. k PROVE g[i] = f[i]
    <3>1. g[i] = IF i = 0 THEN <<>>
                 ELSE IF s[i] \in K THEN Append(f[i - 1], s[i]) ELSE f[i - 1]
      OBVIOUS
    <3>2. f[i] = IF i = 0 THEN <<>>
                 ELSE IF s[i] \in K THEN Append(f[i - 1], s[i]) ELSE f[i - 1]
      BY <2>1 DEF UpTo
    <3> QED BY <3>1, <3>2
  <2>3. UpTo(s, K, g, k + 1)
    <3>1. ASSUME NEW i \in 0 .. k + 1, i # 0 PROVE g[i - 1] = f[i - 1]
      BY <2>2, <3>1, i - 1 \in 0 .. k
    <3>2. \A i \in 0 .. k + 1 :
             g[i] = IF i = 0 THEN <<>>
                    ELSE IF s[i] \in K THEN Append(g[i - 1], s[i]) ELSE g[i - 1]
      BY <3>1
    <3> QED BY <3>2 DEF UpTo
  <2> HIDE DEF g
  <2> QED BY <2>3
<1> HIDE DEF N
<1>3. n \in N
  BY <1>1, <1>2, SetInduction
<1> QED BY <1>3 DEF N

(* One step of it.                                                            *)
LEMMA UpToStep ==
    ASSUME NEW s, NEW K, NEW f, NEW n \in Nat, UpTo(s, K, f, n), NEW k \in Nat, k + 1 <= n
    PROVE  f[k + 1] = IF s[k + 1] \in K THEN Append(f[k], s[k + 1]) ELSE f[k]
<1>1. \A i \in 0 .. n : f[i] = IF i = 0 THEN <<>>
                               ELSE IF s[i] \in K THEN Append(f[i - 1], s[i]) ELSE f[i - 1]
  BY DEF UpTo
<1>2. PICK j \in 0 .. n : j = k + 1
  OBVIOUS
<1>3. j # 0 /\ j - 1 = k
  BY <1>2
<1>4. f[j] = IF s[j] \in K THEN Append(f[j - 1], s[j]) ELSE f[j - 1]
  BY <1>1, <1>3
<1> QED BY <1>2, <1>3, <1>4

(* The prefixes of a sequence, and what is kept of each.                      *)
LEMMA KeptUpTo ==
    ASSUME NEW T, NEW s \in Seq(T), NEW K
    PROVE  \E f : UpTo(s, K, f, Len(s)) /\ Kept(s, K) = f[Len(s)]
<1> DEFINE f == CHOOSE g : UpTo(s, K, g, Len(s))
<1>1. UpTo(s, K, f, Len(s))
  BY UpToExists
<1>2. Kept(s, K) = f[Len(s)]
  BY DEF Kept, UpTo
<1> HIDE DEF f
<1> QED BY <1>1, <1>2

LEMMA UpToAgree ==
    ASSUME NEW T, NEW s \in Seq(T), NEW t \in Seq(T), NEW K, NEW n \in Nat, NEW m \in Nat, 
           n <= m, NEW f, NEW g, UpTo(s, K, f, n), UpTo(t, K, g, m), 
           \A i \in 1 .. n : s[i] = t[i]
    PROVE  f[n] = g[n]
<1> DEFINE N == {k \in Nat : k <= n => f[k] = g[k]}
<1>1. 0 \in N
  BY DEF UpTo
<1>2. ASSUME NEW k \in Nat, k \in N PROVE k + 1 \in N
  <2> SUFFICES ASSUME k + 1 <= n PROVE f[k + 1] = g[k + 1]
    OBVIOUS
  <2>1. f[k] = g[k] /\ s[k + 1] = t[k + 1]
    BY <1>2
  <2>2. f[k + 1] = IF s[k + 1] \in K THEN Append(f[k], s[k + 1]) ELSE f[k]
    BY UpToStep
  <2>3. g[k + 1] = IF t[k + 1] \in K THEN Append(g[k], t[k + 1]) ELSE g[k]
    <3>1. k + 1 <= m
      OBVIOUS
    <3> QED BY <3>1, UpToStep
  <2> QED BY <2>1, <2>2, <2>3
<1> HIDE DEF N
<1>3. n \in N
  BY <1>1, <1>2, SetInduction
<1> QED BY <1>3 DEF N

LEMMA KeptEmpty == ASSUME NEW K PROVE Kept(<<>>, K) = <<>>
<1>1. <<>> \in Seq({}) /\ Len(<<>>) = 0
  OBVIOUS
<1>2. PICK f : UpTo(<<>>, K, f, 0) /\ Kept(<<>>, K) = f[0]
  BY <1>1, KeptUpTo
<1> QED BY <1>2 DEF UpTo

LEMMA KeptAppend ==
    ASSUME NEW T, NEW s \in Seq(T), NEW x \in T, NEW K
    PROVE  Kept(Append(s, x), K) = IF x \in K THEN Append(Kept(s, K), x) ELSE Kept(s, K)
<1> DEFINE t == Append(s, x)
           n == Len(s)
<1>1. t \in Seq(T) /\ Len(t) = n + 1 /\ t[n + 1] = x /\ \A i \in 1 .. n : t[i] = s[i]
  OBVIOUS
<1>2. n \in Nat
  OBVIOUS
<1> HIDE DEF t
<1>3. PICK f : UpTo(s, K, f, n) /\ Kept(s, K) = f[n]
  BY KeptUpTo
<1>4. PICK g : UpTo(t, K, g, n + 1) /\ Kept(t, K) = g[n + 1]
  BY <1>1, KeptUpTo
<1> HIDE DEF n
<1>5. f[n] = g[n]
  BY <1>1, <1>2, <1>3, <1>4, UpToAgree, n <= n + 1, n + 1 \in Nat
<1>6. g[n + 1] = IF t[n + 1] \in K THEN Append(g[n], t[n + 1]) ELSE g[n]
  BY <1>2, <1>4, UpToStep, n + 1 <= n + 1, n + 1 \in Nat
<1> QED BY <1>1, <1>3, <1>4, <1>5, <1>6 DEF t

(* Induction over the sequences of a set, as a fact about sets.               *)
LEMMA SeqInduction ==
    ASSUME NEW T, NEW S, <<>> \in S,
           \A s \in Seq(T), x \in T : s \in S => Append(s, x) \in S
    PROVE  Seq(T) \subseteq S
<1> DEFINE N == {n \in Nat : \A s \in Seq(T) : Len(s) = n => s \in S}
<1>1. 0 \in N
  <2>1. \A s \in Seq(T) : Len(s) = 0 => s = <<>>
    BY EmptySeq
  <2> QED BY <2>1
<1>2. ASSUME NEW n \in Nat, n \in N PROVE n + 1 \in N
  <2> SUFFICES ASSUME NEW s \in Seq(T), Len(s) = n + 1 PROVE s \in S
    OBVIOUS
  <2>1. s # <<>>
    OBVIOUS
  <2>2. PICK t \in Seq(T), x \in T : s = Append(t, x)
    BY <2>1, SequenceEmptyOrAppend
  <2>3. Len(t) = n
    BY <2>2
  <2> QED BY <1>2, <2>2, <2>3
<1> HIDE DEF N
<1>3. Nat \subseteq N
  BY <1>1, <1>2, SetInduction
<1> QED BY <1>3 DEF N

(* What is kept is of the sequence and of the set.                            *)
LEMMA KeptType ==
    ASSUME NEW T, NEW s \in Seq(T), NEW K
    PROVE  Kept(s, K) \in Seq(T \cap K) /\ Kept(s, K) \in Seq(T)
<1> DEFINE S == {r \in Seq(T) : Kept(r, K) \in Seq(T \cap K)}
<1>1. <<>> \in S
  <2>1. <<>> \in Seq(T) /\ <<>> \in Seq(T \cap K)
    OBVIOUS
  <2> QED BY <2>1, KeptEmpty
<1>2. ASSUME NEW r \in Seq(T), NEW x \in T, r \in S PROVE Append(r, x) \in S
  <2>1. Append(r, x) \in Seq(T)
    OBVIOUS
  <2>2. Kept(r, K) \in Seq(T \cap K)
    BY <1>2
  <2>3. Kept(Append(r, x), K) \in Seq(T \cap K)
    <3>1. CASE x \in K
      <4>1. x \in T \cap K
        BY <3>1
      <4>2. Append(Kept(r, K), x) \in Seq(T \cap K)
        BY <2>2, <4>1
      <4> QED BY <3>1, <4>2, KeptAppend
    <3>2. CASE x \notin K
      BY <2>2, <3>2, KeptAppend
    <3> QED BY <3>1, <3>2
  <2> QED BY <2>1, <2>3
<1> HIDE DEF S
<1>3. s \in S
  BY <1>1, <1>2, SeqInduction
<1>4. Kept(s, K) \in Seq(T \cap K)
  BY <1>3 DEF S
<1>5. Seq(T \cap K) \subseteq Seq(T)
  OBVIOUS
<1> QED BY <1>4, <1>5

LEMMA KeptConcat ==
    ASSUME NEW T, NEW s \in Seq(T), NEW t \in Seq(T), NEW K
    PROVE  Kept(s \o t, K) = Kept(s, K) \o Kept(t, K)
<1> DEFINE S == {r \in Seq(T) : Kept(s \o r, K) = Kept(s, K) \o Kept(r, K)}
<1>1. <<>> \in S
  <2>1. s \o <<>> = s /\ Kept(s, K) \o <<>> = Kept(s, K)
    BY KeptType, ConcatEmptySeq
  <2>2. Kept(s \o <<>>, K) = Kept(s, K) \o Kept(<<>>, K)
    BY <2>1, KeptEmpty
  <2>3. <<>> \in Seq(T)
    OBVIOUS
  <2> QED BY <2>2, <2>3
<1>2. ASSUME NEW r \in Seq(T), NEW x \in T, r \in S PROVE Append(r, x) \in S
  <2>1. Append(r, x) \in Seq(T) /\ s \o r \in Seq(T)
    OBVIOUS
  <2>2. s \o Append(r, x) = Append(s \o r, x)
    OBVIOUS
  <2>3. Kept(s, K) \in Seq(T) /\ Kept(r, K) \in Seq(T)
    BY KeptType
  <2>4. Kept(s, K) \o Append(Kept(r, K), x) = Append(Kept(s, K) \o Kept(r, K), x)
    BY <2>3
  <2>5. Kept(s \o r, K) = Kept(s, K) \o Kept(r, K)
    BY <1>2
  <2>6. Kept(Append(s \o r, x), K) = IF x \in K THEN Append(Kept(s \o r, K), x) ELSE Kept(s \o r, K)
    BY <2>1, KeptAppend
  <2>7. Kept(Append(r, x), K) = IF x \in K THEN Append(Kept(r, K), x) ELSE Kept(r, K)
    BY KeptAppend
  <2> QED BY <2>1, <2>2, <2>4, <2>5, <2>6, <2>7
<1> HIDE DEF S
<1>3. t \in S
  BY <1>1, <1>2, SeqInduction
<1> QED BY <1>3 DEF S

LEMMA KeptAll ==
    ASSUME NEW T, NEW s \in Seq(T), NEW K, \A i \in 1 .. Len(s) : s[i] \in K
    PROVE  Kept(s, K) = s
<1> DEFINE S == {r \in Seq(T) : (\A i \in 1 .. Len(r) : r[i] \in K) => Kept(r, K) = r}
<1>1. <<>> \in S
  BY KeptEmpty
<1>2. ASSUME NEW r \in Seq(T), NEW x \in T, r \in S PROVE Append(r, x) \in S
  <2>0. Append(r, x) \in Seq(T)
    OBVIOUS
  <2> SUFFICES ASSUME \A i \in 1 .. Len(Append(r, x)) : Append(r, x)[i] \in K
               PROVE  Kept(Append(r, x), K) = Append(r, x)
    BY <2>0
  <2>1. \A i \in 1 .. Len(r) : r[i] \in K
    <3> SUFFICES ASSUME NEW i \in 1 .. Len(r) PROVE r[i] \in K
      OBVIOUS
    <3>1. i \in 1 .. Len(Append(r, x)) /\ Append(r, x)[i] = r[i]
      OBVIOUS
    <3> QED BY <3>1
  <2>2. x \in K
    <3>1. Len(r) + 1 \in 1 .. Len(Append(r, x)) /\ Append(r, x)[Len(r) + 1] = x
      OBVIOUS
    <3> QED BY <3>1
  <2> QED BY <1>2, <2>1, <2>2, KeptAppend
<1> HIDE DEF S
<1>3. s \in S
  BY <1>1, <1>2, SeqInduction
<1> QED BY <1>3 DEF S

LEMMA KeptNone ==
    ASSUME NEW T, NEW s \in Seq(T), NEW K, \A i \in 1 .. Len(s) : s[i] \notin K
    PROVE  Kept(s, K) = <<>>
<1> DEFINE S == {r \in Seq(T) : (\A i \in 1 .. Len(r) : r[i] \notin K) => Kept(r, K) = <<>>}
<1>1. <<>> \in S
  BY KeptEmpty
<1>2. ASSUME NEW r \in Seq(T), NEW x \in T, r \in S PROVE Append(r, x) \in S
  <2>0. Append(r, x) \in Seq(T)
    OBVIOUS
  <2> SUFFICES ASSUME \A i \in 1 .. Len(Append(r, x)) : Append(r, x)[i] \notin K
               PROVE  Kept(Append(r, x), K) = <<>>
    BY <2>0
  <2>1. \A i \in 1 .. Len(r) : r[i] \notin K
    <3> SUFFICES ASSUME NEW i \in 1 .. Len(r) PROVE r[i] \notin K
      OBVIOUS
    <3>1. i \in 1 .. Len(Append(r, x)) /\ Append(r, x)[i] = r[i]
      OBVIOUS
    <3> QED BY <3>1
  <2>2. x \notin K
    <3>1. Len(r) + 1 \in 1 .. Len(Append(r, x)) /\ Append(r, x)[Len(r) + 1] = x
      OBVIOUS
    <3> QED BY <3>1
  <2> QED BY <1>2, <2>1, <2>2, KeptAppend
<1> HIDE DEF S
<1>3. s \in S
  BY <1>1, <1>2, SeqInduction
<1> QED BY <1>3 DEF S

(* Only the elements of the sequence decide.                                  *)
LEMMA KeptAgree ==
    ASSUME NEW T, NEW s \in Seq(T), NEW J, NEW K,
           \A i \in 1 .. Len(s) : s[i] \in J <=> s[i] \in K
    PROVE  Kept(s, J) = Kept(s, K)
<1> DEFINE S == {r \in Seq(T) : (\A i \in 1 .. Len(r) : r[i] \in J <=> r[i] \in K)
                                 => Kept(r, J) = Kept(r, K)}
<1>1. <<>> \in S
  BY KeptEmpty
<1>2. ASSUME NEW r \in Seq(T), NEW x \in T, r \in S PROVE Append(r, x) \in S
  <2>0. Append(r, x) \in Seq(T)
    OBVIOUS
  <2> SUFFICES ASSUME \A i \in 1 .. Len(Append(r, x)) : Append(r, x)[i] \in J <=> Append(r, x)[i] \in K
               PROVE  Kept(Append(r, x), J) = Kept(Append(r, x), K)
    BY <2>0
  <2>1. \A i \in 1 .. Len(r) : r[i] \in J <=> r[i] \in K
    <3> SUFFICES ASSUME NEW i \in 1 .. Len(r) PROVE r[i] \in J <=> r[i] \in K
      OBVIOUS
    <3>1. i \in 1 .. Len(Append(r, x)) /\ Append(r, x)[i] = r[i]
      OBVIOUS
    <3> QED BY <3>1
  <2>2. x \in J <=> x \in K
    <3>1. Len(r) + 1 \in 1 .. Len(Append(r, x)) /\ Append(r, x)[Len(r) + 1] = x
      OBVIOUS
    <3> QED BY <3>1
  <2>3. Kept(r, J) = Kept(r, K)
    BY <1>2, <2>1
  <2>4. /\ Kept(Append(r, x), J) = IF x \in J THEN Append(Kept(r, J), x) ELSE Kept(r, J)
        /\ Kept(Append(r, x), K) = IF x \in K THEN Append(Kept(r, K), x) ELSE Kept(r, K)
    BY KeptAppend
  <2> QED BY <2>2, <2>3, <2>4
<1> HIDE DEF S
<1>3. s \in S
  BY <1>1, <1>2, SeqInduction
<1> QED BY <1>3 DEF S

LEMMA KeptTwice ==
    ASSUME NEW T, NEW s \in Seq(T), NEW J, NEW K
    PROVE  Kept(Kept(s, J), K) = Kept(s, J \cap K)
<1> DEFINE S == {r \in Seq(T) : Kept(Kept(r, J), K) = Kept(r, J \cap K)}
<1>1. <<>> \in S
  <2>1. Kept(Kept(<<>>, J), K) = Kept(<<>>, J \cap K)
    BY KeptEmpty
  <2>2. <<>> \in Seq(T)
    OBVIOUS
  <2> QED BY <2>1, <2>2
<1>2. ASSUME NEW r \in Seq(T), NEW x \in T, r \in S PROVE Append(r, x) \in S
  <2>1. Append(r, x) \in Seq(T) /\ Kept(r, J) \in Seq(T)
    <3>1. Kept(r, J) \in Seq(T)
      BY KeptType
    <3> QED BY <3>1
  <2>2. Kept(Kept(r, J), K) = Kept(r, J \cap K)
    BY <1>2
  <2>3. Kept(Append(r, x), J) = IF x \in J THEN Append(Kept(r, J), x) ELSE Kept(r, J)
    BY KeptAppend
  <2>4. Kept(Append(r, x), J \cap K)
          = IF x \in J \cap K THEN Append(Kept(r, J \cap K), x) ELSE Kept(r, J \cap K)
    BY KeptAppend
  <2>5. Kept(Append(Kept(r, J), x), K)
          = IF x \in K THEN Append(Kept(Kept(r, J), K), x) ELSE Kept(Kept(r, J), K)
    BY <2>1, KeptAppend
  <2>6. Kept(Kept(Append(r, x), J), K) = Kept(Append(r, x), J \cap K)
    <3>1. CASE x \in J /\ x \in K
      BY <2>2, <2>3, <2>4, <2>5, <3>1
    <3>2. CASE x \in J /\ x \notin K
      BY <2>2, <2>3, <2>4, <2>5, <3>2
    <3>3. CASE x \notin J
      BY <2>2, <2>3, <2>4, <3>3
    <3> QED BY <3>1, <3>2, <3>3
  <2> QED BY <2>1, <2>6
<1> HIDE DEF S
<1>3. s \in S
  BY <1>1, <1>2, SeqInduction
<1> QED BY <1>3 DEF S

(* The places of the kept elements, in their order.                           *)
Places(s, K, e) ==
    /\ e \in [1 .. Len(Kept(s, K)) -> 1 .. Len(s)]
    /\ \A i \in 1 .. Len(Kept(s, K)) : Kept(s, K)[i] = s[e[i]]
    /\ \A i, j \in 1 .. Len(Kept(s, K)) : i < j => e[i] < e[j]
    /\ \A k \in 1 .. Len(s) : s[k] \in K => \E i \in 1 .. Len(Kept(s, K)) : e[i] = k

LEMMA KeptPlaces ==
    ASSUME NEW T, NEW s \in Seq(T), NEW K
    PROVE  \E e : Places(s, K, e)
<1> DEFINE S == {r \in Seq(T) : \E e : Places(r, K, e)}
<1>1. <<>> \in S
  <2>1. Places(<<>>, K, [i \in 1 .. 0 |-> 0])
    BY KeptEmpty DEF Places
  <2> QED BY <2>1
<1>2. ASSUME NEW r \in Seq(T), NEW x \in T, r \in S PROVE Append(r, x) \in S
  <2>1. PICK e : Places(r, K, e)
    BY <1>2
  <2> DEFINE t == Append(r, x)
             n == Len(Kept(r, K))
  <2>2. t \in Seq(T) /\ Len(t) = Len(r) + 1 /\ t[Len(r) + 1] = x
        /\ \A i \in 1 .. Len(r) : t[i] = r[i]
    OBVIOUS
  <2>3. Kept(r, K) \in Seq(T) /\ n \in Nat /\ Len(r) \in Nat
    BY KeptType, LenProperties
  <2>4. CASE x \notin K
    <3>1. Kept(t, K) = Kept(r, K)
      BY <2>4, KeptAppend
    <3>2. Places(t, K, e)
      <4> HIDE DEF t
      <4>1. 1 .. Len(r) \subseteq 1 .. Len(t)
        BY <2>2, <2>3
      <4>2. \A k \in 1 .. Len(t) : k \in 1 .. Len(r) \/ k = Len(r) + 1
        BY <2>2, <2>3
      <4>3. \A i \in 1 .. n : e[i] \in 1 .. Len(r)
        BY <2>1 DEF Places
      <4> QED BY <2>1, <2>2, <2>4, <3>1, <4>1, <4>2, <4>3 DEF Places
    <3> QED BY <2>2, <3>2
  <2>5. CASE x \in K
    <3> DEFINE d == [i \in 1 .. n + 1 |-> IF i = n + 1 THEN Len(r) + 1 ELSE e[i]]
    <3>1. Kept(t, K) = Append(Kept(r, K), x)
      BY <2>5, KeptAppend
    <3>2. Len(Kept(t, K)) = n + 1 /\ Kept(t, K)[n + 1] = x
          /\ \A i \in 1 .. n : Kept(t, K)[i] = Kept(r, K)[i]
      BY <2>3, <3>1
    <3>3. \A i \in 1 .. n : d[i] = e[i] /\ e[i] \in 1 .. Len(r)
      BY <2>1, <2>3 DEF Places
    <3>4. d[n + 1] = Len(r) + 1
      BY <2>3
    <3>5. \A i \in 1 .. n + 1 : i \in 1 .. n \/ i = n + 1
      BY <2>3
    <3>6. \A k \in 1 .. Len(t) : k \in 1 .. Len(r) \/ k = Len(r) + 1
      BY <2>2, <2>3
    <3>7. Places(t, K, d)
      <4>1. d \in [1 .. n + 1 -> 1 .. Len(t)]
        <5>1. \A i \in 1 .. n + 1 : d[i] \in 1 .. Len(t)
          <6> HIDE DEF t, d
          <6> SUFFICES ASSUME NEW i \in 1 .. n + 1 PROVE d[i] \in 1 .. Len(t)
            OBVIOUS
          <6>1. CASE i = n + 1
            BY <2>2, <2>3, <3>4, <6>1
          <6>2. CASE i \in 1 .. n
            <7>1. d[i] \in 1 .. Len(r)
              BY <3>3, <6>2
            <7> QED BY <2>2, <2>3, <7>1
          <6> QED BY <3>5, <6>1, <6>2
        <5> QED BY <5>1
      <4> HIDE DEF d, t
      <4>2. \A i \in 1 .. n + 1 : Kept(t, K)[i] = t[d[i]]
        BY <2>1, <2>2, <3>2, <3>3, <3>4, <3>5 DEF Places
      <4>3. \A i, j \in 1 .. n + 1 : i < j => d[i] < d[j]
        <5> SUFFICES ASSUME NEW i \in 1 .. n + 1, NEW j \in 1 .. n + 1, i < j
                     PROVE  d[i] < d[j]
          OBVIOUS
        <5>1. i \in 1 .. n
          BY <2>3
        <5>2. CASE j = n + 1
          BY <2>3, <3>3, <3>4, <5>1, <5>2
        <5>3. CASE j \in 1 .. n
          BY <2>1, <3>3, <5>1, <5>3 DEF Places
        <5> QED BY <3>5, <5>2, <5>3
      <4>4. ASSUME NEW k \in 1 .. Len(t), t[k] \in K
            PROVE  \E i \in 1 .. n + 1 : d[i] = k
        <5>1. CASE k = Len(r) + 1
          BY <2>3, <3>4, <5>1, n + 1 \in 1 .. n + 1
        <5>2. CASE k \in 1 .. Len(r)
          <6>1. PICK i \in 1 .. n : e[i] = k
            BY <2>1, <2>2, <4>4, <5>2 DEF Places
          <6>2. i \in 1 .. n + 1
            BY <2>3
          <6> QED BY <3>3, <6>1, <6>2
        <5> QED BY <3>6, <5>1, <5>2
      <4> QED BY <3>2, <4>1, <4>2, <4>3, <4>4 DEF Places
    <3> QED BY <2>2, <3>7
  <2> QED BY <2>4, <2>5
<1> HIDE DEF S
<1>3. s \in S
  BY <1>1, <1>2, SeqInduction
<1> QED BY <1>3 DEF S
==============================================================================
