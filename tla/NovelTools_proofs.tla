-------------------------- MODULE NovelTools_proofs --------------------------
(***************************************************************************)
(* What holds of the tools of a novel for every value of the constants:    *)
(* the knowledge files (KnowledgeBase and the modules it is made of), the  *)
(* todos (TodoList) and the gate before the tools (ToolGate).              *)
(***************************************************************************)
EXTENDS KnowledgeBase, TodoList, ToolGate, FiniteSetTheorems, Subsequences_proofs

(***************************************************************************)
(* Sequences one after the other, and the greatest of some numbers.        *)
(***************************************************************************)
(* A function that is defined by a step from each number to the next.      *)
Iter(f, T, n, b, step) ==
  /\ f \in [0 .. n -> T]
  /\ f[0] = b
  /\ \A k \in 1 .. n : f[k] = step[k][f[k - 1]]

LEMMA Recursion ==
  ASSUME NEW T, NEW n \in Nat, NEW b \in T, NEW step \in [1 .. n -> [T -> T]]
  PROVE  \E f : Iter(f, T, n, b, step)
<1> DEFINE Is(f, m) == /\ f \in [0 .. m -> T]
                       /\ f[0] = b
                       /\ \A k \in 1 .. m : f[k] = step[k][f[k - 1]]
           N == {m \in Nat : m <= n => \E f : Is(f, m)}
<1>1. 0 \in N
  <2>1. Is([k \in 0 .. 0 |-> b], 0)
    OBVIOUS
  <2> QED BY <2>1
<1>2. ASSUME NEW m \in Nat, m \in N PROVE m + 1 \in N
  <2> SUFFICES ASSUME m + 1 <= n PROVE \E f : Is(f, m + 1)
    OBVIOUS
  <2>1. PICK f : Is(f, m)
    BY <1>2
  <2> DEFINE x == step[m + 1][f[m]]
             g == [k \in 0 .. m + 1 |-> IF k = m + 1 THEN x ELSE f[k]]
  <2>2. x \in T
    <3>1. f[m] \in T /\ m + 1 \in 1 .. n
      BY <2>1
    <3> QED BY <3>1
  <2> HIDE DEF x
  <2>3. g \in [0 .. m + 1 -> T]
    <3>1. ASSUME NEW k \in 0 .. m + 1, k # m + 1 PROVE f[k] \in T
      BY <2>1, <3>1, k \in 0 .. m
    <3> QED BY <2>2, <3>1
  <2>4. g[0] = b
    BY <2>1
  <2>5. ASSUME NEW k \in 1 .. m + 1 PROVE g[k] = step[k][g[k - 1]]
    <3>1. g[k - 1] = f[k - 1] /\ k - 1 \in 0 .. m + 1 /\ k - 1 # m + 1 /\ k \in 0 .. m + 1
      OBVIOUS
    <3>2. CASE k = m + 1
      <4>1. k - 1 = m
        BY <3>2
      <4> QED BY <3>1, <3>2, <4>1 DEF x
    <3>3. CASE k # m + 1
      <4>1. k \in 1 .. m
        BY <3>3
      <4>2. f[k] = step[k][f[k - 1]]
        BY <2>1, <4>1
      <4> QED BY <3>1, <3>3, <4>2
    <3> QED BY <3>2, <3>3
  <2> HIDE DEF g
  <2>6. Is(g, m + 1)
    BY <2>3, <2>4, <2>5
  <2> QED BY <2>6
<1> HIDE DEF N
<1>3. n \in N
  BY <1>1, <1>2, SetInduction
<1>4. PICK f : Is(f, n)
  BY <1>3 DEF N
<1> QED BY <1>4 DEF Iter

(* What is joined of the first parts.                                      *)
JoinedUpTo(parts, f) ==
  f = [k \in 0 .. Len(parts) |-> IF k = 0 THEN <<>> ELSE f[k - 1] \o parts[k]]

JoinSteps(T, parts, f) ==
  /\ f \in [0 .. Len(parts) -> Seq(T)]
  /\ f[0] = <<>> /\ Joined(parts) = f[Len(parts)]
  /\ \A k \in 1 .. Len(parts) : f[k] = f[k - 1] \o parts[k]

LEMMA JoinedSteps ==
  ASSUME NEW T, NEW parts \in Seq(Seq(T))
  PROVE  \E f : JoinSteps(T, parts, f)
<1> DEFINE n == Len(parts)
           S == Seq(T)
           step == [k \in 1 .. n |-> [s \in S |-> s \o parts[k]]]
<1>1. n \in Nat /\ <<>> \in S
  OBVIOUS
<1>2. step \in [1 .. n -> [S -> S]]
  <2>1. ASSUME NEW s \in S, NEW k \in 1 .. n PROVE s \o parts[k] \in S
    OBVIOUS
  <2> QED BY <2>1
<1>3. ASSUME NEW s \in S, NEW k \in 1 .. n PROVE step[k][s] = s \o parts[k]
  OBVIOUS
<1> HIDE DEF step, S, n
<1>4. PICK f : /\ f \in [0 .. n -> S]
               /\ f[0] = <<>>
               /\ \A k \in 1 .. n : f[k] = step[k][f[k - 1]]
  <2>1. PICK f : Iter(f, S, n, <<>>, step)
    BY <1>1, <1>2, Recursion
  <2> QED BY <2>1 DEF Iter
<1>5. \A k \in 1 .. n : f[k] = f[k - 1] \o parts[k]
  <2> SUFFICES ASSUME NEW k \in 1 .. n PROVE f[k] = f[k - 1] \o parts[k]
    OBVIOUS
  <2>1. f[k - 1] \in S
    BY <1>1, <1>4, k - 1 \in 0 .. n
  <2> QED BY <1>3, <1>4, <2>1
<1>6. JoinedUpTo(parts, f)
  <2>1. \A k \in 0 .. n : k # 0 => k \in 1 .. n
    BY <1>1
  <2> QED BY <1>4, <1>5, <2>1 DEF JoinedUpTo, n
<1> DEFINE g == CHOOSE h : JoinedUpTo(parts, h)
<1>7. JoinedUpTo(parts, g)
  BY <1>6
<1>8. Joined(parts) = g[n]
  BY DEF Joined, JoinedUpTo, n
<1> HIDE DEF g
<1>9. g[0] = <<>> /\ \A k \in 1 .. n : g[k] = g[k - 1] \o parts[k]
  <2>1. \A k \in 0 .. n : g[k] = IF k = 0 THEN <<>> ELSE g[k - 1] \o parts[k]
    BY <1>7 DEF JoinedUpTo, n
  <2>2. 0 \in 0 .. n /\ \A k \in 1 .. n : k \in 0 .. n /\ k # 0
    BY <1>1
  <2> QED BY <2>1, <2>2
<1>10. g \in [0 .. n -> S]
  <2> DEFINE N == {k \in Nat : k <= n => g[k] \in S}
  <2>1. 0 \in N
    BY <1>1, <1>9
  <2>2. ASSUME NEW k \in Nat, k \in N PROVE k + 1 \in N
    <3> SUFFICES ASSUME k + 1 <= n PROVE g[k + 1] \in S
      OBVIOUS
    <3>1. k + 1 \in 1 .. n /\ k + 1 - 1 = k
      BY <1>1
    <3>2. g[k + 1] = g[k] \o parts[k + 1]
      <4>1. PICK j \in 1 .. n : j = k + 1
        BY <3>1
      <4>2. j - 1 = k
        BY <4>1
      <4>3. g[j] = g[j - 1] \o parts[j]
        BY <1>9
      <4> QED BY <4>1, <4>2, <4>3
    <3>4. g[k] \in S
      BY <1>1, <2>2 DEF N
    <3>3. parts[k + 1] \in S
      BY <3>1 DEF n, S
    <3> QED BY <3>2, <3>3, <3>4 DEF S
  <2> HIDE DEF N
  <2>3. Nat \subseteq N
    BY <2>1, <2>2, SetInduction
  <2>4. \A k \in 0 .. n : g[k] \in S
    BY <1>1, <2>3 DEF N
  <2> QED BY <1>7, <2>4 DEF JoinedUpTo, n
<1> QED BY <1>8, <1>9, <1>10 DEF n, S, JoinSteps
LEMMA MaxOfBounded ==
  ASSUME NEW n \in Nat, NEW S, S \subseteq 0 .. n, S # {}
  PROVE  Max(S) \in S /\ \A j \in S : j <= Max(S)
<1> DEFINE D == {n - i : i \in S}
<1>1. D \subseteq Nat /\ D # {} /\ S \subseteq Nat
  <2>1. \A i \in S : i \in Nat /\ n - i \in Nat
    OBVIOUS
  <2> QED BY <2>1
<1>2. PICK m \in D : \A d \in D : m <= d
  <2> HIDE DEF D
  <2> QED BY <1>1, LeastNumber
<1>3. PICK k \in S : m = n - k
  BY <1>2
<1>4. ASSUME NEW j \in S PROVE j <= k
  <2>1. m <= n - j
    BY <1>2
  <2>2. j \in Nat /\ k \in Nat
    BY <1>1
  <2> HIDE DEF D
  <2> QED BY <1>3, <2>1, <2>2
<1> HIDE DEF D
<1> QED BY <1>1, <1>4 DEF Max

LEMMA JoinedType ==
  ASSUME NEW T, NEW parts \in Seq(Seq(T)) PROVE Joined(parts) \in Seq(T)
<1>1. Len(parts) \in 0 .. Len(parts)
  OBVIOUS
<1>2. PICK f : JoinSteps(T, parts, f)
  BY JoinedSteps
<1> QED BY <1>1, <1>2 DEF JoinSteps

LEMMA JoinedSet ==
  ASSUME NEW T, NEW parts \in Seq(Seq(T))
  PROVE  ToSet(Joined(parts)) = UNION {ToSet(parts[i]) : i \in DOMAIN parts}
<1>0. PICK f : JoinSteps(T, parts, f)
  BY JoinedSteps
<1>1. /\ f \in [0 .. Len(parts) -> Seq(T)]
      /\ f[0] = <<>> /\ Joined(parts) = f[Len(parts)]
      /\ \A k \in 1 .. Len(parts) : f[k] = f[k - 1] \o parts[k]
  BY <1>0 DEF JoinSteps
<1> DEFINE n == Len(parts)
           U(k) == UNION {ToSet(parts[i]) : i \in 1 .. k}
           N == {k \in Nat : k <= n => ToSet(f[k]) = U(k)}
<1>2. n \in Nat /\ DOMAIN parts = 1 .. n
  OBVIOUS
<1>3. 0 \in N
  <2>1. U(0) = {}
    OBVIOUS
  <2>2. ToSet(<<>>) = {}
    BY DEF ToSet
  <2> QED BY <1>1, <2>1, <2>2
<1>4. ASSUME NEW k \in Nat, k \in N PROVE k + 1 \in N
  <2> SUFFICES ASSUME k + 1 <= n PROVE ToSet(f[k + 1]) = U(k + 1)
    OBVIOUS
  <2>1. f[k + 1] = f[k] \o parts[k + 1] /\ f[k] \in Seq(T) /\ parts[k + 1] \in Seq(T)
    <3>1. PICK j \in 1 .. n : j = k + 1
      BY <1>2
    <3>2. j - 1 = k /\ k \in 0 .. n
      BY <1>2, <3>1
    <3>3. f[j] = f[j - 1] \o parts[j] /\ parts[j] \in Seq(T)
      <4>1. parts[j] \in Seq(T)
        OBVIOUS
      <4> QED BY <1>1, <4>1
    <3>4. f[k] \in Seq(T)
      BY <1>1, <3>2
    <3> HIDE DEF n
    <3> QED BY <3>1, <3>2, <3>3, <3>4
  <2>2. ToSet(f[k]) = U(k)
    BY <1>4
  <2>3. U(k + 1) = U(k) \cup ToSet(parts[k + 1])
    <3>1. 1 .. k + 1 = (1 .. k) \cup {k + 1}
      OBVIOUS
    <3> QED BY <3>1
  <2>4. ASSUME NEW s \in Seq(T), NEW t \in Seq(T) PROVE ToSet(s \o t) = ToSet(s) \cup ToSet(t)
    <3>1. \A i \in 1 .. Len(s) : (s \o t)[i] = s[i] /\ i \in 1 .. Len(s \o t)
      OBVIOUS
    <3>2. \A i \in 1 .. Len(t) : (s \o t)[Len(s) + i] = t[i] /\ Len(s) + i \in 1 .. Len(s \o t)
      OBVIOUS
    <3>3. \A i \in 1 .. Len(s \o t) : \/ i \in 1 .. Len(s) /\ (s \o t)[i] = s[i]
                                      \/ i - Len(s) \in 1 .. Len(t) /\ (s \o t)[i] = t[i - Len(s)]
      OBVIOUS
    <3>4. DOMAIN (s \o t) = 1 .. Len(s \o t) /\ DOMAIN s = 1 .. Len(s) /\ DOMAIN t = 1 .. Len(t)
      OBVIOUS
    <3> DEFINE u == s \o t
    <3> HIDE DEF u
    <3>5. ToSet(u) \subseteq ToSet(s) \cup ToSet(t)
      BY <3>3, <3>4 DEF ToSet, u
    <3>6. ToSet(s) \subseteq ToSet(u)
      BY <3>1, <3>4 DEF ToSet, u
    <3>7. ToSet(t) \subseteq ToSet(u)
      BY <3>2, <3>4 DEF ToSet, u
    <3> QED BY <3>5, <3>6, <3>7 DEF u
  <2> HIDE DEF U
  <2> QED BY <2>1, <2>2, <2>3, <2>4
<1> HIDE DEF N, U
<1>5. Nat \subseteq N
  BY <1>3, <1>4, SetInduction
<1>6. ToSet(f[n]) = U(n)
  BY <1>2, <1>5 DEF N
<1> QED BY <1>1, <1>2, <1>6 DEF U

LEMMA KeptOfTwo ==
  ASSUME NEW T, NEW K
  PROVE  \A u, v \in Seq(T) : Kept(u \o v, K) = Kept(u, K) \o Kept(v, K)
BY KeptConcat

(* What is kept of joined sequences, when only one of them has any of it.  *)
LEMMA JoinedKept ==
  ASSUME NEW T, NEW parts \in Seq(Seq(T)), NEW K, NEW b \in Nat,
         \A i \in 1 .. Len(parts) : i # b => Kept(parts[i], K) = <<>>
  PROVE  Kept(Joined(parts), K) = IF b \in 1 .. Len(parts) THEN Kept(parts[b], K) ELSE <<>>
<1>0. PICK f : JoinSteps(T, parts, f)
  BY JoinedSteps
<1>1. /\ f \in [0 .. Len(parts) -> Seq(T)]
      /\ f[0] = <<>> /\ Joined(parts) = f[Len(parts)]
      /\ \A k \in 1 .. Len(parts) : f[k] = f[k - 1] \o parts[k]
  BY <1>0 DEF JoinSteps
<1> DEFINE n == Len(parts)
           Here(k) == IF b \in 1 .. k THEN Kept(parts[b], K) ELSE <<>>
           N == {k \in Nat : k <= n => Kept(f[k], K) = Here(k)}
<1>2. n \in Nat
  OBVIOUS
<1>3. 0 \in N
  BY <1>1, KeptEmpty
<1>4. ASSUME NEW k \in Nat, k \in N PROVE k + 1 \in N
  <2> SUFFICES ASSUME k + 1 <= n PROVE Kept(f[k + 1], K) = Here(k + 1)
    OBVIOUS
  <2>1. f[k + 1] = f[k] \o parts[k + 1] /\ f[k] \in Seq(T) /\ parts[k + 1] \in Seq(T)
    <3>1. PICK j \in 1 .. n : j = k + 1
      BY <1>2
    <3>2. j - 1 = k /\ k \in 0 .. n
      BY <1>2, <3>1
    <3>3. f[j] = f[j - 1] \o parts[j] /\ parts[j] \in Seq(T)
      <4>1. parts[j] \in Seq(T)
        OBVIOUS
      <4> QED BY <1>1, <4>1
    <3>4. f[k] \in Seq(T)
      BY <1>1, <3>2
    <3> HIDE DEF n
    <3> QED BY <3>1, <3>2, <3>3, <3>4
  <2>2. Kept(f[k], K) = Here(k)
    BY <1>4
  <2>3. Kept(f[k + 1], K) = Kept(f[k], K) \o Kept(parts[k + 1], K)
    BY <2>1, KeptOfTwo
  <2>4. Kept(parts[k + 1], K) \in Seq(T)
    BY <2>1, KeptType
  <2>5. CASE b = k + 1
    <3>1. Kept(f[k], K) = <<>> /\ Here(k + 1) = Kept(parts[k + 1], K)
      BY <2>2, <2>5
    <3> QED BY <2>3, <2>4, <3>1
  <2>6. CASE b # k + 1
    <3>1. Here(k + 1) = Here(k)
      BY <2>6
    <3>2. Kept(parts[k + 1], K) = <<>>
      BY <2>6, k + 1 \in 1 .. n
    <3>3. Kept(f[k], K) \in Seq(T)
      BY <2>1, KeptType
    <3> HIDE DEF Here
    <3> QED BY <2>2, <2>3, <3>1, <3>2, <3>3
  <2> QED BY <2>5, <2>6
<1> HIDE DEF N, Here
<1>5. Nat \subseteq N
  BY <1>3, <1>4, SetInduction
<1>6. Kept(f[n], K) = Here(n)
  BY <1>2, <1>5 DEF N
<1> QED BY <1>1, <1>6 DEF Here

(* The last of what is kept is the element of the last place.              *)
LEMMA LastOfKept ==
  ASSUME NEW T, NEW s \in Seq(T), NEW K
  PROVE  LET I == {i \in 1 .. Len(s) : s[i] \in K} IN
         /\ (I = {}) = (Kept(s, K) = <<>>)
         /\ I # {} => Max(I) \in I /\ s[Max(I)] = Last(Kept(s, K))
<1> DEFINE I == {i \in 1 .. Len(s) : s[i] \in K}
           m == Len(Kept(s, K))
<1>1. PICK e : Places(s, K, e)
  BY KeptPlaces
<1>2. Kept(s, K) \in Seq(T) /\ m \in Nat
  BY KeptType, LenProperties
<1>3. Len(s) \in Nat
  OBVIOUS
<1>4. \A i \in 1 .. m : Kept(s, K)[i] \in K
  <2>1. Kept(s, K) \in Seq(T \cap K)
    BY KeptType
  <2> QED BY <2>1
<1>5. \A i \in 1 .. m : e[i] \in I
  BY <1>1, <1>4 DEF Places
<1>6. CASE m = 0
  <2>1. Kept(s, K) = <<>>
    BY <1>2, <1>6
  <2>2. I = {}
    BY <1>1, <1>6 DEF Places
  <2> QED BY <2>1, <2>2
<1>7. CASE m # 0
  <2>1. m \in 1 .. m /\ Kept(s, K) # <<>>
    BY <1>2, <1>7
  <2>2. I # {} /\ e[m] \in I
    BY <1>5, <2>1
  <2>3. Max(I) \in I /\ \A i \in I : i <= Max(I)
    <3>1. I \subseteq 0 .. Len(s)
      OBVIOUS
    <3> HIDE DEF I
    <3> QED BY <1>3, <2>2, <3>1, MaxOfBounded
  <2>4. PICK i \in 1 .. m : e[i] = Max(I)
    BY <1>1, <2>3 DEF Places
  <2>5. i = m
    <3>1. i < m => e[i] < e[m]
      BY <1>1, <2>1 DEF Places
    <3>2. e[m] <= e[i] /\ e[m] \in Nat /\ e[i] \in Nat
      BY <2>2, <2>3, <2>4, <1>5
    <3> QED BY <1>2, <3>1, <3>2
  <2>6. s[Max(I)] = Kept(s, K)[m]
    BY <1>1, <2>1, <2>4, <2>5 DEF Places
  <2>7. Last(Kept(s, K)) = Kept(s, K)[m]
    BY DEF Last
  <2>8. s[Max(I)] = Last(Kept(s, K))
    BY <2>6, <2>7
  <2> QED BY <2>1, <2>2, <2>3, <2>8
<1> QED BY <1>6, <1>7

(***************************************************************************)
(* What is kept of a sequence whose element at one place changes.          *)
(***************************************************************************)
(* The first of what is kept is the element of the first place.            *)
FirstPlace(s, K) ==
  LET I == {i \in 1 .. Len(s) : s[i] \in K} IN
  /\ (I = {}) = (Kept(s, K) = <<>>)
  /\ I # {} => /\ Min(I) \in I /\ Min(I) \in 1 .. Len(s) /\ s[Min(I)] \in K
               /\ 1 \in 1 .. Len(Kept(s, K)) /\ s[Min(I)] = Kept(s, K)[1]
LEMMA FirstOfKept ==
  ASSUME NEW T, NEW s \in Seq(T), NEW K
  PROVE  FirstPlace(s, K)
<1> DEFINE I == {i \in 1 .. Len(s) : s[i] \in K}
           m == Len(Kept(s, K))
<1>1. PICK e : Places(s, K, e)
  BY KeptPlaces
<1>2. Kept(s, K) \in Seq(T) /\ m \in Nat
  BY KeptType, LenProperties
<1>3. Len(s) \in Nat
  OBVIOUS
<1>4. \A i \in 1 .. m : Kept(s, K)[i] \in K
  <2>1. Kept(s, K) \in Seq(T \cap K)
    BY KeptType
  <2> QED BY <2>1
<1>5. \A i \in 1 .. m : e[i] \in I
  BY <1>1, <1>4 DEF Places
<1>6. CASE m = 0
  <2>1. Kept(s, K) = <<>>
    BY <1>2, <1>6
  <2>2. I = {}
    BY <1>1, <1>6 DEF Places
  <2> QED BY <2>1, <2>2 DEF FirstPlace
<1>7. CASE m # 0
  <2>1. 1 \in 1 .. m /\ Kept(s, K) # <<>>
    BY <1>2, <1>7
  <2>2. I # {} /\ e[1] \in I
    BY <1>5, <2>1
  <2>3. Min(I) \in I /\ \A i \in I : Min(I) <= i
    <3>1. I \subseteq Nat
      OBVIOUS
    <3> HIDE DEF I
    <3>2. \E x \in I : \A i \in I : x <= i
      BY <2>2, <3>1, LeastNumber
    <3> QED BY <3>2 DEF Min
  <2>4. PICK i \in 1 .. m : e[i] = Min(I)
    BY <1>1, <2>3 DEF Places
  <2>5. i = 1
    <3>1. 1 < i => e[1] < e[i]
      BY <1>1, <2>1 DEF Places
    <3>2. e[i] <= e[1] /\ e[1] \in Nat /\ e[i] \in Nat
      BY <2>2, <2>3, <2>4, <1>5
    <3> QED BY <1>2, <3>1, <3>2
  <2>6. s[Min(I)] = Kept(s, K)[1]
    BY <1>1, <2>1, <2>4, <2>5 DEF Places
  <2> QED BY <2>1, <2>2, <2>3, <2>6 DEF FirstPlace
<1> QED BY <1>6, <1>7

(* What is kept are the elements that are in the set.                      *)
LEMMA KeptElements ==
  ASSUME NEW T, NEW s \in Seq(T), NEW K
  PROVE  /\ ToSet(Kept(s, K)) = ToSet(s) \cap K
         /\ \A i \in 1 .. Len(s) : s[i] \in K => \E j \in 1 .. Len(Kept(s, K)) : Kept(s, K)[j] = s[i]
<1>1. PICK e : Places(s, K, e)
  BY KeptPlaces
<1>2. Kept(s, K) \in Seq(T \cap K)
  BY KeptType
<1>3. DOMAIN s = 1 .. Len(s) /\ DOMAIN Kept(s, K) = 1 .. Len(Kept(s, K))
  BY <1>2
<1>4. \A j \in 1 .. Len(Kept(s, K)) : /\ Kept(s, K)[j] \in K
                                      /\ e[j] \in 1 .. Len(s) /\ Kept(s, K)[j] = s[e[j]]
  BY <1>1, <1>2 DEF Places
<1>5. \A i \in 1 .. Len(s) : s[i] \in K => \E j \in 1 .. Len(Kept(s, K)) : Kept(s, K)[j] = s[i]
  BY <1>1 DEF Places
<1>6. \A y \in ToSet(Kept(s, K)) : y \in ToSet(s) \cap K
  BY <1>3, <1>4 DEF ToSet
<1>7. \A y \in ToSet(s) \cap K : y \in ToSet(Kept(s, K))
  BY <1>3, <1>5 DEF ToSet
<1> QED BY <1>5, <1>6, <1>7

(* One element is changed.                                                 *)
One(x, K) == IF x \in K THEN <<x>> ELSE <<>>
Around(T, s, i, x, K, a, b) ==
  /\ a \in Seq(T) /\ b \in Seq(T)
  /\ Kept(s, K) = a \o One(s[i], K) \o b
  /\ Kept([s EXCEPT ![i] = x], K) = a \o One(x, K) \o b

LEMMA KeptOne ==
  ASSUME NEW T, NEW x \in T, NEW K PROVE Kept(<<x>>, K) = One(x, K)
<1>1. <<>> \in Seq(T) /\ Append(<<>>, x) = <<x>>
  OBVIOUS
<1>2. Kept(<<x>>, K) = IF x \in K THEN Append(Kept(<<>>, K), x) ELSE Kept(<<>>, K)
  BY <1>1, KeptAppend
<1> QED BY <1>1, <1>2, KeptEmpty DEF One

LEMMA KeptAround ==
  ASSUME NEW T, NEW s \in Seq(T), NEW i \in 1 .. Len(s), NEW x \in T, NEW K
  PROVE  \E a, b : Around(T, s, i, x, K, a, b)
<1> DEFINE p == SubSeq(s, 1, i - 1)
           q == SubSeq(s, i + 1, Len(s))
           t == [s EXCEPT ![i] = x]
<1>1. p \in Seq(T) /\ q \in Seq(T) /\ s[i] \in T
  OBVIOUS
<1>a. ASSUME NEW y \in T
      PROVE  p \o <<y>> \o q = [j \in 1 .. Len(s) |-> IF j = i THEN y ELSE s[j]]
  <2> DEFINE u == p \o <<y>> \o q
             n == Len(s)
  <2>1. n \in Nat /\ i \in 1 .. n
    OBVIOUS
  <2>2. Len(p) = i - 1 /\ \A j \in 1 .. i - 1 : p[j] = s[j]
    OBVIOUS
  <2>3. Len(q) = n - i /\ \A j \in 1 .. n - i : q[j] = s[j + i]
    OBVIOUS
  <2> HIDE DEF p, q, n
  <2>4. u \in Seq(T) /\ Len(u) = n
    BY <1>1, <2>1, <2>2, <2>3
  <2>5. \A j \in 1 .. n : u[j] = IF j < i THEN p[j] ELSE IF j = i THEN y ELSE q[j - i]
    BY <1>1, <2>1, <2>2, <2>3
  <2>6. \A j \in 1 .. n : u[j] = IF j = i THEN y ELSE s[j]
    <3> SUFFICES ASSUME NEW j \in 1 .. n PROVE u[j] = IF j = i THEN y ELSE s[j]
      OBVIOUS
    <3>1. CASE j < i
      <4>1. j \in 1 .. i - 1 /\ j # i
        BY <2>1, <3>1
      <4> QED BY <2>2, <2>5, <3>1, <4>1
    <3>2. CASE j = i
      <4>1. ~ (j < i)
        BY <2>1, <3>2
      <4> QED BY <2>5, <3>2, <4>1
    <3>3. CASE j > i
      <4>1. j - i \in 1 .. n - i /\ (j - i) + i = j /\ ~ (j < i) /\ j # i
        BY <2>1, <3>3
      <4>2. q[j - i] = s[(j - i) + i]
        BY <2>3, <4>1
      <4> QED BY <2>5, <4>1, <4>2
    <3>4. j < i \/ j = i \/ j > i
      <4>1. j \in Int /\ i \in Int
        BY <2>1
      <4> QED BY <4>1
    <3> QED BY <3>1, <3>2, <3>3, <3>4
  <2> HIDE DEF u
  <2>7. u = [j \in 1 .. n |-> u[j]]
    BY <2>4
  <2> QED BY <2>6, <2>7 DEF u, n
<1>2. s = p \o <<s[i]>> \o q
  <2>1. s = [j \in 1 .. Len(s) |-> IF j = i THEN s[i] ELSE s[j]]
    OBVIOUS
  <2> HIDE DEF p, q
  <2> QED BY <1>1, <1>a, <2>1
<1>3. t = p \o <<x>> \o q
  <2>1. t = [j \in 1 .. Len(s) |-> IF j = i THEN x ELSE s[j]]
    OBVIOUS
  <2> HIDE DEF p, q, t
  <2> QED BY <1>a, <2>1
<1> HIDE DEF p, q, t
<1>4. \A y \in T : Kept(p \o <<y>> \o q, K) = Kept(p, K) \o One(y, K) \o Kept(q, K)
  <2> SUFFICES ASSUME NEW y \in T
               PROVE  Kept(p \o <<y>> \o q, K) = Kept(p, K) \o One(y, K) \o Kept(q, K)
    OBVIOUS
  <2>1. <<y>> \in Seq(T) /\ p \o <<y>> \in Seq(T)
    BY <1>1
  <2>2. Kept(p \o <<y>>, K) = Kept(p, K) \o Kept(<<y>>, K)
    BY <1>1, <2>1, KeptOfTwo
  <2>3. Kept((p \o <<y>>) \o q, K) = Kept(p \o <<y>>, K) \o Kept(q, K)
    BY <1>1, <2>1, KeptOfTwo
  <2>4. Kept(<<y>>, K) = One(y, K)
    BY KeptOne
  <2> QED BY <2>2, <2>3, <2>4
<1>5. Around(T, s, i, x, K, Kept(p, K), Kept(q, K))
  BY <1>1, <1>2, <1>3, <1>4, KeptType DEF Around, t
<1> QED BY <1>5

LEMMA KeptNotChanged ==
  ASSUME NEW T, NEW s \in Seq(T), NEW i \in 1 .. Len(s), NEW x \in T, NEW K,
         s[i] \notin K, x \notin K
  PROVE  Kept([s EXCEPT ![i] = x], K) = Kept(s, K)
<1>1. PICK a, b : Around(T, s, i, x, K, a, b)
  BY KeptAround
<1> QED BY <1>1 DEF Around, One

LEMMA KeptChanged ==
  ASSUME NEW T, NEW s \in Seq(T), NEW i \in 1 .. Len(s), NEW x \in T, NEW K,
         s[i] \in K, Len(Kept(s, K)) <= 1
  PROVE  Kept([s EXCEPT ![i] = x], K) = One(x, K) /\ Kept(s, K) = <<s[i]>>
<1>1. PICK a, b : Around(T, s, i, x, K, a, b)
  BY KeptAround
<1>2. a \in Seq(T) /\ b \in Seq(T) /\ Kept(s, K) = a \o <<s[i]>> \o b /\ s[i] \in T
  BY <1>1 DEF Around, One
<1>3. Len(a) + 1 + Len(b) <= 1
  <2>1. Len(a \o <<s[i]>> \o b) = Len(a) + 1 + Len(b)
    BY <1>2
  <2> QED BY <1>2, <2>1
<1>4. Len(a) = 0 /\ Len(b) = 0
  <2>1. Len(a) \in Nat /\ Len(b) \in Nat
    BY <1>2
  <2> QED BY <1>3, <2>1
<1>5. a = <<>> /\ b = <<>>
  BY <1>2, <1>4
<1>6. One(x, K) \in Seq(T)
  BY DEF One
<1> QED BY <1>1, <1>2, <1>5, <1>6 DEF Around

(***************************************************************************)
(* PlotThreads: the types of the logs, and which threads are open.         *)
(***************************************************************************)
ThreadTypes == threads \in Seq(Thread) /\ causes \in Seq(Cause) /\ tracks \in Seq(Track)

(* The logs hold rows: what the tools tell of them is proved of any logs.  *)
LEMMA LogsAreTyped == ThreadsSpec => []ThreadTypes
<1>1. ThreadsInit => ThreadTypes
  BY DEF ThreadsInit, ThreadTypes
<1>2. ThreadTypes /\ [ThreadsNext]_threadVars => ThreadTypes'
  <2> SUFFICES ASSUME ThreadTypes, [ThreadsNext]_threadVars PROVE ThreadTypes'
    OBVIOUS
  <2>1. CASE UNCHANGED threadVars
    BY <2>1 DEF threadVars, ThreadTypes
  <2>2. CASE \E row \in Thread : AppendThread(row)
    BY <2>2 DEF AppendThread, ThreadTypes
  <2>3. CASE \E row \in Cause : AppendCause(row)
    BY <2>3 DEF AppendCause, ThreadTypes
  <2>4. CASE \E row \in Track : AppendTrack(row)
    BY <2>4 DEF AppendTrack, ThreadTypes
  <2> QED BY <2>1, <2>2, <2>3, <2>4 DEF ThreadsNext
<1> QED BY <1>1, <1>2, PTL DEF ThreadsSpec

---------------------------------------------------------------------------
(* ForeshadowTracker after each row.                                       *)
Opens == UNION {[D -> Chapter] : D \in SUBSET Ids}
NextOpen(open, r) == IF Tracked(r) THEN StepThread(open, r) ELSE open
OpenUpTo(f) ==
  f = [k \in 0 .. Len(threads) |->
         IF k = 0 THEN <<>>
         ELSE IF Tracked(threads[k]) THEN StepThread(f[k - 1], threads[k]) ELSE f[k - 1]]
OpenSteps(f) ==
  /\ f \in [0 .. Len(threads) -> Opens]
  /\ f[0] = <<>> /\ OpenThreads = f[Len(threads)]
  /\ \A k \in 1 .. Len(threads) : f[k] = NextOpen(f[k - 1], threads[k])

LEMMA OpenType ==
  ASSUME NEW open, NEW r \in Thread
  PROVE  /\ open \in Opens => NextOpen(open, r) \in Opens
         /\ open \in Opens => /\ DOMAIN open \subseteq Ids
                              /\ open = [i \in DOMAIN open |-> open[i]]
                              /\ \A i \in DOMAIN open : open[i] \in Chapter
<1> SUFFICES ASSUME open \in Opens
             PROVE  /\ NextOpen(open, r) \in Opens /\ DOMAIN open \subseteq Ids
                    /\ open = [i \in DOMAIN open |-> open[i]]
                    /\ \A i \in DOMAIN open : open[i] \in Chapter
  OBVIOUS
<1>1. PICK D \in SUBSET Ids : open \in [D -> Chapter]
  BY DEF Opens
<1>2. r.id \in Ids /\ r.expected \in Chapter /\ r.state \in States
  BY DEF Thread
<1>3. [i \in D \cup {r.id} |-> IF i = r.id THEN r.expected ELSE open[i]] \in [D \cup {r.id} -> Chapter]
  BY <1>1, <1>2
<1>4. [i \in D \ {r.id} |-> open[i]] \in [D \ {r.id} -> Chapter]
  BY <1>1
<1>5. D \cup {r.id} \in SUBSET Ids /\ D \ {r.id} \in SUBSET Ids
  BY <1>2
<1>6. NextOpen(open, r) \in Opens
  BY <1>1, <1>3, <1>4, <1>5 DEF NextOpen, StepThread, Opens
<1> QED BY <1>1, <1>6

LEMMA OpensExist == ASSUME ThreadTypes PROVE \E f : OpenSteps(f)
<1> DEFINE n == Len(threads)
           step == [k \in 1 .. n |-> [open \in Opens |-> NextOpen(open, threads[k])]]
<1>1. n \in Nat /\ <<>> \in Opens
  <2>1. <<>> \in [{} -> Chapter]
    OBVIOUS
  <2>2. <<>> \in Opens
    BY <2>1, {} \in SUBSET Ids DEF Opens
  <2> QED BY <2>2 DEF ThreadTypes
<1>2. \A k \in 1 .. n : threads[k] \in Thread
  BY DEF ThreadTypes
<1>3. step \in [1 .. n -> [Opens -> Opens]]
  <2>1. ASSUME NEW k \in 1 .. n, NEW open \in Opens PROVE NextOpen(open, threads[k]) \in Opens
    BY <1>2, OpenType
  <2> QED BY <2>1
<1>4. ASSUME NEW k \in 1 .. n, NEW open \in Opens PROVE step[k][open] = NextOpen(open, threads[k])
  OBVIOUS
<1> HIDE DEF step, n
<1>5. PICK f : Iter(f, Opens, n, <<>>, step)
  BY <1>1, <1>3, Recursion
<1>6. f \in [0 .. n -> Opens] /\ f[0] = <<>>
  BY <1>5 DEF Iter
<1>7. \A k \in 1 .. n : f[k] = NextOpen(f[k - 1], threads[k])
  <2> SUFFICES ASSUME NEW k \in 1 .. n PROVE f[k] = NextOpen(f[k - 1], threads[k])
    OBVIOUS
  <2>1. f[k - 1] \in Opens /\ f[k] = step[k][f[k - 1]]
    BY <1>1, <1>5, k - 1 \in 0 .. n DEF Iter
  <2> QED BY <1>4, <2>1
<1>8. OpenUpTo(f)
  <2>1. \A k \in 0 .. n : k # 0 => k \in 1 .. n
    BY <1>1
  <2> QED BY <1>6, <1>7, <2>1 DEF OpenUpTo, NextOpen, n
<1> DEFINE g == CHOOSE h : OpenUpTo(h)
<1>9. OpenUpTo(g) /\ OpenThreads = g[n]
  BY <1>8 DEF OpenThreads, OpenUpTo, n
<1> HIDE DEF g
<1>10. g[0] = <<>> /\ \A k \in 1 .. n : g[k] = NextOpen(g[k - 1], threads[k])
  <2>1. \A k \in 0 .. n : g[k] = IF k = 0 THEN <<>> ELSE NextOpen(g[k - 1], threads[k])
    BY <1>9 DEF OpenUpTo, NextOpen, n
  <2>2. 0 \in 0 .. n /\ \A k \in 1 .. n : k \in 0 .. n /\ k # 0
    BY <1>1
  <2> QED BY <2>1, <2>2
<1>11. \A k \in 0 .. n : g[k] \in Opens
  <2> DEFINE N == {k \in Nat : k <= n => g[k] \in Opens}
  <2>1. 0 \in N
    BY <1>1, <1>10
  <2>2. ASSUME NEW k \in Nat, k \in N PROVE k + 1 \in N
    <3> SUFFICES ASSUME k + 1 <= n PROVE g[k + 1] \in Opens
      OBVIOUS
    <3>1. PICK j \in 1 .. n : j = k + 1 /\ j - 1 = k
      BY <1>1
    <3>2. g[k] \in Opens
      BY <1>1, <2>2
    <3>3. NextOpen(g[k], threads[j]) \in Opens
      BY <1>2, <3>2, OpenType
    <3> QED BY <1>10, <3>1, <3>3
  <2> HIDE DEF N
  <2>3. Nat \subseteq N
    BY <2>1, <2>2, SetInduction
  <2> QED BY <1>1, <2>3 DEF N
<1>12. g \in [0 .. n -> Opens]
  BY <1>9, <1>11 DEF OpenUpTo, n
<1> QED BY <1>9, <1>10, <1>12 DEF OpenSteps, n

(* A thread is open after a row when the last row that decides is pending. *)
OpenIn(i, k) == \E j \in 1 .. k :
  /\ threads[j].id = i /\ Decides(threads[j]) /\ threads[j].state = "pending"
  /\ \A m \in j + 1 .. k : threads[m].id = i => ~Decides(threads[m]) \/ threads[m].state = "pending"

LEMMA OpenAfterRow ==
  ASSUME ThreadTypes, NEW i \in Ids, NEW k \in Nat, k + 1 <= Len(threads)
  PROVE  OpenIn(i, k + 1) =
           LET r == threads[k + 1] IN
           IF r.id # i \/ ~Decides(r) THEN OpenIn(i, k) ELSE r.state = "pending"
<1> DEFINE r == threads[k + 1]
<1>1. CASE r.id # i \/ ~Decides(r)
  <2>1. ASSUME OpenIn(i, k) PROVE OpenIn(i, k + 1)
    <3>1. PICK j \in 1 .. k :
            /\ threads[j].id = i /\ Decides(threads[j]) /\ threads[j].state = "pending"
            /\ \A m \in j + 1 .. k : threads[m].id = i => ~Decides(threads[m]) \/ threads[m].state = "pending"
      BY <2>1 DEF OpenIn
    <3>2. \A m \in j + 1 .. k + 1 : m \in j + 1 .. k \/ m = k + 1
      OBVIOUS
    <3>3. j \in 1 .. k + 1
      OBVIOUS
    <3> QED BY <1>1, <3>1, <3>2, <3>3 DEF OpenIn
  <2>2. ASSUME OpenIn(i, k + 1) PROVE OpenIn(i, k)
    <3>1. PICK j \in 1 .. k + 1 :
            /\ threads[j].id = i /\ Decides(threads[j]) /\ threads[j].state = "pending"
            /\ \A m \in j + 1 .. k + 1 : threads[m].id = i => ~Decides(threads[m]) \/ threads[m].state = "pending"
      BY <2>2 DEF OpenIn
    <3>2. j \in 1 .. k
      BY <1>1, <3>1
    <3>3. \A m \in j + 1 .. k : m \in j + 1 .. k + 1
      OBVIOUS
    <3> QED BY <3>1, <3>2, <3>3 DEF OpenIn
  <2>3. OpenIn(i, k) \in BOOLEAN /\ OpenIn(i, k + 1) \in BOOLEAN
    BY DEF OpenIn
  <2> QED BY <1>1, <2>1, <2>2, <2>3
<1>2. CASE ~(r.id # i \/ ~Decides(r))
  <2>1. ASSUME r.state = "pending" PROVE OpenIn(i, k + 1)
    <3>1. k + 1 \in 1 .. k + 1 /\ (k + 1) + 1 .. k + 1 = {}
      OBVIOUS
    <3> QED BY <1>2, <2>1, <3>1 DEF OpenIn
  <2>2. ASSUME OpenIn(i, k + 1) PROVE r.state = "pending"
    <3>1. PICK j \in 1 .. k + 1 :
            /\ threads[j].id = i /\ Decides(threads[j]) /\ threads[j].state = "pending"
            /\ \A m \in j + 1 .. k + 1 : threads[m].id = i => ~Decides(threads[m]) \/ threads[m].state = "pending"
      BY <2>2 DEF OpenIn
    <3>2. j = k + 1 \/ k + 1 \in j + 1 .. k + 1
      OBVIOUS
    <3> QED BY <1>2, <3>1, <3>2
  <2>3. OpenIn(i, k + 1) \in BOOLEAN
    BY DEF OpenIn
  <2> QED BY <1>2, <2>1, <2>2, <2>3
<1> QED BY <1>1, <1>2

LEMMA WhatIsOpen ==
  ASSUME ThreadTypes
  PROVE  /\ OpenThreads \in Opens
         /\ \A i \in Ids : (i \in DOMAIN OpenThreads) = IsOpen(i)
<1> DEFINE n == Len(threads)
<1>1. n \in Nat /\ DOMAIN threads = 1 .. n
  BY DEF ThreadTypes
<1>2. PICK f : OpenSteps(f)
  BY OpensExist
<1>3. f[0] = <<>> /\ OpenThreads = f[n] /\ \A k \in 1 .. n : f[k] = NextOpen(f[k - 1], threads[k])
  BY <1>2 DEF OpenSteps
<1>4. \A k \in 0 .. n : f[k] \in Opens
  BY <1>2 DEF OpenSteps
<1>5. ASSUME NEW i \in Ids PROVE (i \in DOMAIN f[n]) = OpenIn(i, n)
  <2> DEFINE N == {k \in Nat : k <= n => (i \in DOMAIN f[k]) = OpenIn(i, k)}
  <2>1. 0 \in N
    <3>1. ~OpenIn(i, 0)
      BY DEF OpenIn
    <3>2. i \notin DOMAIN f[0]
      <4>1. DOMAIN <<>> = {}
        OBVIOUS
      <4> QED BY <1>3, <4>1
    <3>3. OpenIn(i, 0) \in BOOLEAN
      BY DEF OpenIn
    <3> HIDE DEF n
    <3> QED BY <3>1, <3>2, <3>3
  <2>2. ASSUME NEW k \in Nat, k \in N PROVE k + 1 \in N
    <3> SUFFICES ASSUME k + 1 <= n PROVE (i \in DOMAIN f[k + 1]) = OpenIn(i, k + 1)
      OBVIOUS
    <3>1. PICK j \in 1 .. n : j = k + 1 /\ j - 1 = k
      BY <1>1
    <3> DEFINE r == threads[j]
    <3>2. (i \in DOMAIN f[k]) = OpenIn(i, k)
      BY <1>1, <2>2
    <3>3. f[k + 1] = NextOpen(f[k], r)
      BY <1>3, <3>1
    <3>4. r.state \in States /\ r.id \in Ids
      <4>1. r \in Thread
        BY <1>1 DEF ThreadTypes
      <4> QED BY <4>1 DEF Thread
    <3>5. OpenIn(i, k + 1) = IF r.id # i \/ ~Decides(r) THEN OpenIn(i, k) ELSE r.state = "pending"
      BY <3>1, OpenAfterRow
    <3> HIDE DEF r, N
    <3>6. CASE ~Tracked(r)
      BY <3>2, <3>3, <3>5, <3>6 DEF NextOpen, Decides
    <3>7. CASE Tracked(r)
      <4>1. f[k + 1] = StepThread(f[k], r)
        BY <3>3, <3>7 DEF NextOpen
      <4>2. CASE r.state = "pending"
        BY <3>2, <3>5, <3>7, <4>1, <4>2 DEF StepThread, Decides
      <4>3. CASE r.state \in {"resolved", "abandoned"}
        BY <3>2, <3>5, <3>7, <4>1, <4>3 DEF StepThread, Decides
      <4>4. CASE r.state = "other"
        BY <3>2, <3>5, <3>7, <4>1, <4>4 DEF StepThread, Decides
      <4> QED BY <3>4, <4>2, <4>3, <4>4 DEF States
    <3> QED BY <3>6, <3>7
  <2> HIDE DEF N
  <2>3. Nat \subseteq N
    BY <2>1, <2>2, SetInduction
  <2> QED BY <1>1, <2>3 DEF N
<1>6. \A i \in Ids : OpenIn(i, n) = IsOpen(i)
  BY <1>1 DEF OpenIn, IsOpen
<1>7. f[n] \in Opens
  BY <1>1, <1>4
<1> HIDE DEF n
<1> QED BY <1>3, <1>5, <1>6, <1>7

(* Each open thread is in one bucket.                                      *)
LEMMA ThreadsDoAgree == ASSUME ThreadTypes PROVE ThreadsAgree
<1> SUFFICES ASSUME NEW i \in Ids, NEW current \in Chapter, NEW threshold \in 0 .. 1
             PROVE  LET here == {b \in DOMAIN Buckets(current, threshold) : i \in Buckets(current, threshold)[b]}
                    IN /\ Cardinality(here) = (IF IsOpen(i) THEN 1 ELSE 0)
                       /\ IsOpen(i) => i \in Categories["pending"]
                       /\ "overdue" \in here => \A later \in current .. LastChapter :
                                                     i \in Buckets(later, threshold)["overdue"]
  BY DEF ThreadsAgree
<1> DEFINE here == {b \in DOMAIN Buckets(current, threshold) : i \in Buckets(current, threshold)[b]}
           b0 == Bucket(OpenThreads[i], current, threshold)
<1>1. (i \in DOMAIN OpenThreads) = IsOpen(i)
  BY WhatIsOpen
<1>2. i \in DOMAIN OpenThreads => OpenThreads[i] \in Chapter
  <2>1. PICK D \in SUBSET Ids : OpenThreads \in [D -> Chapter]
    BY WhatIsOpen DEF Opens
  <2> QED BY <2>1
<1>3. \A b : b \in here <=> /\ b \in {"overdue", "urgent", "upcoming"}
                            /\ i \in DOMAIN OpenThreads /\ b0 = b
  BY DEF Buckets
<1>4. i \in DOMAIN OpenThreads => b0 \in {"overdue", "urgent", "upcoming"}
  BY <1>2 DEF Bucket, Chapter
<1>5. Cardinality(here) = (IF IsOpen(i) THEN 1 ELSE 0)
  <2>1. CASE IsOpen(i)
    <3>1. here = {b0}
      BY <1>1, <1>3, <1>4, <2>1
    <3> QED BY <2>1, <3>1, FS_Singleton
  <2>2. CASE ~IsOpen(i)
    <3>1. here = {}
      BY <1>1, <1>3, <2>2
    <3> QED BY <2>2, <3>1, FS_EmptySet
  <2> QED BY <2>1, <2>2
<1>6. IsOpen(i) => i \in Categories["pending"]
  BY DEF IsOpen, Categories, States
<1>7. ASSUME "overdue" \in here, NEW later \in current .. LastChapter
      PROVE  i \in Buckets(later, threshold)["overdue"]
  <2>1. i \in DOMAIN OpenThreads /\ b0 = "overdue" /\ OpenThreads[i] \in Chapter
    BY <1>2, <1>3, <1>7
  <2>2. OpenThreads[i] # 0 /\ OpenThreads[i] < current
    BY <2>1 DEF Bucket, Chapter
  <2>3. OpenThreads[i] < later
    BY <2>1, <2>2, LastChapterIsNat DEF Chapter
  <2>4. Bucket(OpenThreads[i], later, threshold) = "overdue"
    BY <2>1, <2>2, <2>3 DEF Bucket, Chapter
  <2> QED BY <2>1, <2>4 DEF Buckets
<1> QED BY <1>5, <1>6, <1>7

(***************************************************************************)
(* PlotThreads: the graph of causes that the rows make.                    *)
(***************************************************************************)
(* The events that a set of events leads to.                               *)
LEMMA ReachedIs ==
  ASSUME NEW edges \in Seq(Cause), NEW S \in SUBSET Events
  PROVE  /\ Reached(edges, S) \in SUBSET Events
         /\ S \subseteq Reached(edges, S)
         /\ Closed(edges, Reached(edges, S))
         /\ \A C \in SUBSET Events : S \subseteq C /\ Closed(edges, C) => Reached(edges, S) \subseteq C
<1>1. ASSUME NEW i \in DOMAIN edges, edges[i].from \in Reached(edges, S)
      PROVE  edges[i].to \in Reached(edges, S)
  <2>1. edges[i].to \in Events
    <3>1. edges[i] \in Cause
      OBVIOUS
    <3> QED BY <3>1 DEF Cause
  <2>2. ASSUME NEW C \in SUBSET Events, S \subseteq C, Closed(edges, C)
        PROVE  edges[i].to \in C
    <3>1. edges[i].from \in C
      BY <1>1, <2>2 DEF Reached
    <3> QED BY <2>2, <3>1 DEF Closed
  <2> QED BY <2>1, <2>2 DEF Reached
<1>2. Closed(edges, Reached(edges, S))
  BY <1>1 DEF Closed
<1> QED BY <1>2 DEF Reached

(* More edges and more events to start from lead no less far.              *)
LEMMA ReachedGrows ==
  ASSUME NEW edges \in Seq(Cause), NEW more \in Seq(Cause),
         \A i \in DOMAIN edges : \E j \in DOMAIN more : more[j] = edges[i],
         NEW S \in SUBSET Events, NEW U \in SUBSET Events, S \subseteq U
  PROVE  Reached(edges, S) \subseteq Reached(more, U)
<1>1. /\ Reached(more, U) \in SUBSET Events /\ U \subseteq Reached(more, U)
      /\ Closed(more, Reached(more, U))
  BY ReachedIs
<1>2. Closed(edges, Reached(more, U))
  BY <1>1 DEF Closed
<1> QED BY <1>1, <1>2, ReachedIs

(* A new edge from an event that its end does not lead back to.            *)
Acyclic(edges) == \A e \in Events : e \notin Reached(edges, Neighbours(edges, e))

LEMMA Appended ==
  ASSUME NEW T, NEW s \in Seq(T), NEW x \in T
  PROVE  /\ Append(s, x) \in Seq(T)
         /\ DOMAIN s = 1 .. Len(s)
         /\ DOMAIN Append(s, x) = 1 .. Len(s) + 1
         /\ \A i \in DOMAIN s : i \in DOMAIN Append(s, x) /\ Append(s, x)[i] = s[i]
         /\ Len(s) + 1 \in DOMAIN Append(s, x)
         /\ Append(s, x)[Len(s) + 1] = x
         /\ \A i \in DOMAIN Append(s, x) : i \in DOMAIN s \/ i = Len(s) + 1
OBVIOUS

LEMMA AcyclicStays ==
  ASSUME NEW edges \in Seq(Cause), NEW r \in Cause, Acyclic(edges),
         ~ WouldCreateCycle(edges, r.from, r.to)
  PROVE  Acyclic(Append(edges, r))
<1> DEFINE more == Append(edges, r)
           R(e) == Reached(edges, Neighbours(edges, e))
           T == Reached(edges, {r.to})
<1>1. r.from \in Events /\ r.to \in Events
  BY DEF Cause
<1>2. r.from # r.to /\ r.from \notin T
  BY DEF WouldCreateCycle
<1>3. /\ more \in Seq(Cause)
      /\ \A i \in DOMAIN edges : i \in DOMAIN more /\ more[i] = edges[i]
      /\ more[Len(edges) + 1] = r
      /\ \A i \in DOMAIN more : i \in DOMAIN edges \/ i = Len(edges) + 1
  BY Appended
<1>4. T \in SUBSET Events /\ r.to \in T /\ Closed(edges, T)
  <2>1. {r.to} \in SUBSET Events
    BY <1>1
  <2> QED BY <2>1, ReachedIs
<1> HIDE DEF more, T
<1>5. ASSUME NEW e \in Events PROVE e \notin Reached(more, Neighbours(more, e))
  <2>1. Neighbours(edges, e) \in SUBSET Events /\ Neighbours(more, e) \in SUBSET Events
    <3>1. \A i \in DOMAIN edges : edges[i].to \in Events
      <4>1. \A i \in DOMAIN edges : edges[i] \in Cause
        OBVIOUS
      <4> QED BY <4>1 DEF Cause
    <3>2. \A i \in DOMAIN more : more[i].to \in Events
      <4>1. \A i \in DOMAIN more : more[i] \in Cause
        BY <1>3
      <4> QED BY <4>1 DEF Cause
    <3> QED BY <3>1, <3>2 DEF Neighbours
  <2>2. /\ R(e) \in SUBSET Events /\ Neighbours(edges, e) \subseteq R(e) /\ Closed(edges, R(e))
        /\ \A C \in SUBSET Events : Neighbours(edges, e) \subseteq C /\ Closed(edges, C) => R(e) \subseteq C
    BY <2>1, ReachedIs
  <2>3. e \notin R(e)
    BY DEF Acyclic
  <2>4. \A y \in Neighbours(more, e) : y \in Neighbours(edges, e) \/ (e = r.from /\ y = r.to)
    BY <1>3 DEF Neighbours
  <2> HIDE DEF R
  <2>5. CASE e \notin T
    <3> DEFINE C == R(e) \cup T
    <3>1. C \in SUBSET Events /\ e \notin C
      BY <1>4, <2>2, <2>3, <2>5
    <3>2. Neighbours(more, e) \subseteq C
      BY <1>4, <2>2, <2>4
    <3>3. Closed(more, C)
      BY <1>3, <1>4, <2>2 DEF Closed
    <3> HIDE DEF C
    <3> QED BY <1>3, <2>1, <3>1, <3>2, <3>3, ReachedIs
  <2>6. CASE e \in T
    <3>1. Neighbours(edges, e) \subseteq T
      BY <1>4, <2>6 DEF Closed, Neighbours
    <3>2. R(e) \subseteq T
      BY <1>4, <2>2, <3>1
    <3>3. Neighbours(more, e) \subseteq R(e)
      BY <1>2, <2>2, <2>4, <2>6
    <3>4. Closed(more, R(e))
      BY <1>2, <1>3, <2>2, <3>2 DEF Closed
    <3> QED BY <1>3, <2>1, <2>2, <2>3, <3>3, <3>4, ReachedIs
  <2> QED BY <2>5, <2>6
<1> QED BY <1>5 DEF Acyclic, more

---------------------------------------------------------------------------
(* PlotGraph after each row.                                               *)
Graphs == [nodes : SUBSET Events, edges : Seq(Cause)]
GraphUpTo(f) ==
  f = [k \in 0 .. Len(causes) |-> IF k = 0 THEN NoEdges ELSE AddEdge(f[k - 1], causes[k])]
GraphSteps(f) ==
  /\ f \in [0 .. Len(causes) -> Graphs]
  /\ f[0] = NoEdges /\ Graph = f[Len(causes)]
  /\ \A k \in 1 .. Len(causes) : f[k] = AddEdge(f[k - 1], causes[k])

LEMMA GraphType ==
  ASSUME NEW g \in Graphs, NEW r \in Cause
  PROVE  AddEdge(g, r) \in Graphs
<1>1. r.from \in Events /\ r.to \in Events
  BY DEF Cause
<1>2. g.nodes \cup {r.from, r.to} \in SUBSET Events /\ Append(g.edges, r) \in Seq(Cause)
  BY <1>1 DEF Graphs
<1> QED BY <1>1, <1>2 DEF AddEdge, Graphs

LEMMA GraphsExist == ASSUME ThreadTypes PROVE \E f : GraphSteps(f)
<1> DEFINE n == Len(causes)
           step == [k \in 1 .. n |-> [g \in Graphs |-> AddEdge(g, causes[k])]]
<1>1. n \in Nat /\ NoEdges \in Graphs
  BY DEF ThreadTypes, NoEdges, Graphs
<1>2. \A k \in 1 .. n : causes[k] \in Cause
  BY DEF ThreadTypes
<1>3. step \in [1 .. n -> [Graphs -> Graphs]]
  <2>1. ASSUME NEW k \in 1 .. n, NEW g \in Graphs PROVE AddEdge(g, causes[k]) \in Graphs
    BY <1>2, GraphType
  <2> QED BY <2>1
<1>4. ASSUME NEW k \in 1 .. n, NEW g \in Graphs PROVE step[k][g] = AddEdge(g, causes[k])
  OBVIOUS
<1> HIDE DEF step, n
<1>5. PICK f : Iter(f, Graphs, n, NoEdges, step)
  BY <1>1, <1>3, Recursion
<1>6. f \in [0 .. n -> Graphs] /\ f[0] = NoEdges
  BY <1>5 DEF Iter
<1>7. \A k \in 1 .. n : f[k] = AddEdge(f[k - 1], causes[k])
  <2> SUFFICES ASSUME NEW k \in 1 .. n PROVE f[k] = AddEdge(f[k - 1], causes[k])
    OBVIOUS
  <2>1. f[k - 1] \in Graphs /\ f[k] = step[k][f[k - 1]]
    BY <1>1, <1>5, k - 1 \in 0 .. n DEF Iter
  <2> QED BY <1>4, <2>1
<1>8. GraphUpTo(f)
  <2>1. \A k \in 0 .. n : k # 0 => k \in 1 .. n
    BY <1>1
  <2> QED BY <1>6, <1>7, <2>1 DEF GraphUpTo, n
<1> DEFINE h == CHOOSE g : GraphUpTo(g)
<1>9. GraphUpTo(h) /\ Graph = h[n]
  BY <1>8 DEF Graph, GraphUpTo, n
<1> HIDE DEF h
<1>10. h[0] = NoEdges /\ \A k \in 1 .. n : h[k] = AddEdge(h[k - 1], causes[k])
  <2>1. \A k \in 0 .. n : h[k] = IF k = 0 THEN NoEdges ELSE AddEdge(h[k - 1], causes[k])
    BY <1>9 DEF GraphUpTo, n
  <2>2. 0 \in 0 .. n /\ \A k \in 1 .. n : k \in 0 .. n /\ k # 0
    BY <1>1
  <2> QED BY <2>1, <2>2
<1>11. \A k \in 0 .. n : h[k] \in Graphs
  <2> DEFINE N == {k \in Nat : k <= n => h[k] \in Graphs}
  <2>1. 0 \in N
    BY <1>1, <1>10
  <2>2. ASSUME NEW k \in Nat, k \in N PROVE k + 1 \in N
    <3> SUFFICES ASSUME k + 1 <= n PROVE h[k + 1] \in Graphs
      OBVIOUS
    <3>1. PICK j \in 1 .. n : j = k + 1 /\ j - 1 = k
      BY <1>1
    <3>2. h[k] \in Graphs
      BY <1>1, <2>2
    <3>3. AddEdge(h[k], causes[j]) \in Graphs
      BY <1>2, <3>2, GraphType
    <3> QED BY <1>10, <3>1, <3>3
  <2> HIDE DEF N
  <2>3. Nat \subseteq N
    BY <2>1, <2>2, SetInduction
  <2> QED BY <1>1, <2>3 DEF N
<1>12. h \in [0 .. n -> Graphs]
  BY <1>9, <1>11 DEF GraphUpTo, n
<1> QED BY <1>9, <1>10, <1>12 DEF GraphSteps, n

(* What the graph of the first rows is: its edges are rows between its     *)
(* events, it has no circle, and a row is missing only when its end leads  *)
(* back.                                                                   *)
GraphOk(g, k) ==
  /\ g \in Graphs /\ IsFiniteSet(g.nodes)
  /\ \A i \in DOMAIN g.edges : /\ g.edges[i].from \in g.nodes /\ g.edges[i].to \in g.nodes
                               /\ \E j \in 1 .. k : g.edges[i] = causes[j]
  /\ Acyclic(g.edges)
  /\ \A i \in 1 .. k : causes[i].columns = 5 =>
       \/ causes[i].to \in Neighbours(g.edges, causes[i].from)
       \/ causes[i].from \in Reached(g.edges, {causes[i].to})

LEMMA GraphStep ==
  ASSUME NEW g, NEW k \in Nat, k + 1 <= Len(causes), ThreadTypes, GraphOk(g, k)
  PROVE  GraphOk(AddEdge(g, causes[k + 1]), k + 1)
<1> DEFINE r == causes[k + 1]
           edges == g.edges
           nodes == g.nodes \cup {r.from, r.to}
<1>1. r \in Cause /\ r.from \in Events /\ r.to \in Events
  <2>1. k + 1 \in 1 .. Len(causes)
    BY DEF ThreadTypes
  <2>2. r \in Cause
    BY <2>1 DEF ThreadTypes
  <2> QED BY <2>2 DEF Cause
<1>2. g \in Graphs /\ edges \in Seq(Cause) /\ IsFiniteSet(g.nodes)
  BY DEF GraphOk, Graphs
<1>3. AddEdge(g, r) \in Graphs
  BY <1>1, <1>2, GraphType
<1>4. IsFiniteSet(nodes)
  <2>1. IsFiniteSet(g.nodes \cup {r.from})
    BY <1>2, FS_AddElement
  <2>2. IsFiniteSet((g.nodes \cup {r.from}) \cup {r.to})
    BY <2>1, FS_AddElement
  <2>3. nodes = (g.nodes \cup {r.from}) \cup {r.to}
    OBVIOUS
  <2> QED BY <2>2, <2>3
<1>5. \A i \in 1 .. k + 1 : i \in 1 .. k \/ i = k + 1
  OBVIOUS
<1>6. \A i \in 1 .. k : i \in 1 .. k + 1
  OBVIOUS
<1>7. \A i \in 1 .. k : causes[i] \in Cause
  BY \A i \in 1 .. k : i \in 1 .. Len(causes) DEF ThreadTypes
<1>8. CASE r.columns < 5
  <2>1. AddEdge(g, r) = g
    BY <1>8 DEF AddEdge
  <2>2. r.columns # 5
    BY <1>8
  <2> QED BY <1>5, <1>6, <2>1, <2>2 DEF GraphOk
<1>9. CASE ~ (r.columns < 5) /\ WouldCreateCycle(edges, r.from, r.to)
  <2> DEFINE new == [g EXCEPT !.nodes = nodes]
  <2>1. AddEdge(g, r) = new /\ new.nodes = nodes /\ new.edges = edges
    BY <1>2, <1>9 DEF AddEdge, Graphs
  <2>2. r.from \in Reached(edges, {r.to})
    <3>1. {r.to} \subseteq Reached(edges, {r.to})
      <4>1. {r.to} \in SUBSET Events
        BY <1>1
      <4> QED BY <1>2, <4>1, ReachedIs
    <3> QED BY <1>9, <3>1 DEF WouldCreateCycle
  <2> HIDE DEF new, r
  <2>3. \A i \in 1 .. k + 1 : causes[i].columns = 5 =>
           \/ causes[i].to \in Neighbours(edges, causes[i].from)
           \/ causes[i].from \in Reached(edges, {causes[i].to})
    BY <1>5, <2>2 DEF GraphOk, r
  <2>4. \A i \in DOMAIN edges : /\ edges[i].from \in nodes /\ edges[i].to \in nodes
                                /\ \E j \in 1 .. k + 1 : edges[i] = causes[j]
    BY <1>6 DEF GraphOk
  <2>5. Acyclic(edges)
    BY DEF GraphOk
  <2>6. GraphOk(new, k + 1)
    <3> HIDE DEF nodes, edges
    <3> QED BY <1>3, <1>4, <2>1, <2>3, <2>4, <2>5 DEF GraphOk
  <2> QED BY <2>1, <2>6 DEF r
<1>10. CASE ~ (r.columns < 5) /\ ~ WouldCreateCycle(edges, r.from, r.to)
  <2> DEFINE more == Append(edges, r)
             new == [nodes |-> nodes, edges |-> more]
  <2>1. AddEdge(g, r) = new /\ new.nodes = nodes /\ new.edges = more
    BY <1>10 DEF AddEdge
  <2>2. Acyclic(more)
    BY <1>1, <1>2, <1>10, AcyclicStays DEF GraphOk
  <2>3. /\ more \in Seq(Cause)
        /\ \A i \in DOMAIN edges : i \in DOMAIN more /\ more[i] = edges[i]
        /\ Len(edges) + 1 \in DOMAIN more /\ more[Len(edges) + 1] = r
        /\ \A i \in DOMAIN more : i \in DOMAIN edges \/ i = Len(edges) + 1
    BY <1>1, <1>2, Appended
  <2> HIDE DEF more, new, r
  <2>4. ASSUME NEW i \in DOMAIN more
        PROVE  /\ more[i].from \in nodes /\ more[i].to \in nodes
               /\ \E j \in 1 .. k + 1 : more[i] = causes[j]
    <3>1. CASE i \in DOMAIN edges
      BY <1>6, <2>3, <3>1 DEF GraphOk
    <3>2. CASE i = Len(edges) + 1
      BY <2>3, <3>2, k + 1 \in 1 .. k + 1 DEF r
    <3> QED BY <2>3, <3>1, <3>2
  <2>5. \A e : Neighbours(edges, e) \subseteq Neighbours(more, e)
    BY <2>3 DEF Neighbours
  <2>6. \A S \in SUBSET Events : Reached(edges, S) \subseteq Reached(more, S)
    BY <1>2, <2>3, ReachedGrows
  <2>7. r.to \in Neighbours(more, r.from)
    BY <2>3 DEF Neighbours
  <2>8. ASSUME NEW i \in 1 .. k + 1, causes[i].columns = 5
        PROVE  \/ causes[i].to \in Neighbours(more, causes[i].from)
               \/ causes[i].from \in Reached(more, {causes[i].to})
    <3>1. CASE i \in 1 .. k
      <4>1. {causes[i].to} \in SUBSET Events
        BY <1>7, <3>1 DEF Cause
      <4> QED BY <2>5, <2>6, <2>8, <3>1, <4>1 DEF GraphOk
    <3>2. CASE i = k + 1
      BY <2>7, <3>2 DEF r
    <3> QED BY <1>5, <3>1, <3>2
  <2>9. GraphOk(new, k + 1)
    <3> HIDE DEF nodes, edges
    <3> QED BY <1>3, <1>4, <2>1, <2>2, <2>4, <2>8 DEF GraphOk
  <2> QED BY <2>1, <2>9 DEF r
<1> QED BY <1>8, <1>9, <1>10

LEMMA GraphIsOk == ASSUME ThreadTypes PROVE GraphOk(Graph, Len(causes))
<1> DEFINE n == Len(causes)
<1>1. n \in Nat
  BY DEF ThreadTypes
<1>2. PICK f : GraphSteps(f)
  BY GraphsExist
<1>3. f[0] = NoEdges /\ Graph = f[n] /\ \A k \in 1 .. n : f[k] = AddEdge(f[k - 1], causes[k])
  BY <1>2 DEF GraphSteps
<1> DEFINE N == {k \in Nat : k <= n => GraphOk(f[k], k)}
<1>4. 0 \in N
  <2>1. GraphOk(NoEdges, 0)
    <3> DEFINE none == <<>>
    <3>1. DOMAIN none = {} /\ none \in Seq(Cause) /\ 1 .. 0 = {}
      OBVIOUS
    <3>2. NoEdges.nodes = {} /\ NoEdges.edges = none
      BY DEF NoEdges
    <3>3. Acyclic(none)
      <4>1. ASSUME NEW e \in Events PROVE e \notin Reached(none, Neighbours(none, e))
        <5>1. Neighbours(none, e) = {}
          BY <3>1 DEF Neighbours
        <5>2. Closed(none, {})
          BY DEF Closed
        <5> QED BY <5>1, <5>2 DEF Reached
      <4> QED BY <4>1 DEF Acyclic
    <3>4. NoEdges \in Graphs
      BY DEF NoEdges, Graphs
    <3> HIDE DEF none
    <3> QED BY <3>1, <3>2, <3>3, <3>4, FS_EmptySet DEF GraphOk
  <2> QED BY <1>3, <2>1
<1>5. ASSUME NEW k \in Nat, k \in N PROVE k + 1 \in N
  <2> SUFFICES ASSUME k + 1 <= n PROVE GraphOk(f[k + 1], k + 1)
    OBVIOUS
  <2>1. PICK j \in 1 .. n : j = k + 1 /\ j - 1 = k
    BY <1>1
  <2>2. GraphOk(f[k], k)
    BY <1>1, <1>5
  <2>3. GraphOk(AddEdge(f[k], causes[k + 1]), k + 1)
    BY <2>2, GraphStep
  <2> QED BY <1>3, <2>1, <2>3
<1> HIDE DEF N
<1>6. Nat \subseteq N
  BY <1>4, <1>5, SetInduction
<1> QED BY <1>1, <1>3, <1>6 DEF N

(***************************************************************************)
(* PlotThreads: what is within some steps, and the newest edges.           *)
(***************************************************************************)
(* What is reached within a number of steps.                               *)
WithinUpTo(edges, S, d, f) ==
  f = [k \in 0 .. d |-> IF k = 0 THEN S ELSE Further(edges, f[k - 1])]

LEMMA WithinExists ==
  ASSUME NEW edges \in Seq(Cause), NEW S \in SUBSET Events, NEW d \in Nat
  PROVE  \E f : WithinUpTo(edges, S, d, f)
<1> DEFINE T == SUBSET Events
           step == [k \in 1 .. d |-> [U \in T |-> Further(edges, U)]]
<1>1. ASSUME NEW U \in T PROVE Further(edges, U) \in T
  <2>1. \A i \in DOMAIN edges : edges[i] \in Cause
    OBVIOUS
  <2> QED BY <2>1 DEF Further, Neighbours, Cause
<1>2. step \in [1 .. d -> [T -> T]]
  BY <1>1
<1>3. ASSUME NEW k \in 1 .. d, NEW U \in T PROVE step[k][U] = Further(edges, U)
  OBVIOUS
<1> HIDE DEF step
<1>4. PICK f : Iter(f, T, d, S, step)
  BY <1>2, Recursion
<1> HIDE DEF T
<1>5. \A k \in 1 .. d : f[k] = Further(edges, f[k - 1])
  <2> SUFFICES ASSUME NEW k \in 1 .. d PROVE f[k] = Further(edges, f[k - 1])
    OBVIOUS
  <2>1. f[k - 1] \in T /\ f[k] = step[k][f[k - 1]]
    BY <1>4, k - 1 \in 0 .. d DEF Iter
  <2> QED BY <1>3, <2>1
<1>6. WithinUpTo(edges, S, d, f)
  <2>1. \A k \in 0 .. d : k # 0 => k \in 1 .. d
    OBVIOUS
  <2>2. f \in [0 .. d -> T] /\ f[0] = S
    BY <1>4 DEF Iter
  <2> QED BY <1>5, <2>1, <2>2 DEF WithinUpTo
<1> QED BY <1>6

LEMMA WithinAgree ==
  ASSUME NEW edges, NEW S, NEW d \in Nat, NEW m \in Nat, d <= m,
         NEW f, NEW g, WithinUpTo(edges, S, d, f), WithinUpTo(edges, S, m, g)
  PROVE  f[d] = g[d]
<1> DEFINE N == {k \in Nat : k <= d => f[k] = g[k]}
<1>1. /\ \A k \in 0 .. d : f[k] = IF k = 0 THEN S ELSE Further(edges, f[k - 1])
      /\ \A k \in 0 .. m : g[k] = IF k = 0 THEN S ELSE Further(edges, g[k - 1])
  BY DEF WithinUpTo
<1>2. 0 \in N
  BY <1>1, 0 \in 0 .. d, 0 \in 0 .. m
<1>3. ASSUME NEW k \in Nat, k \in N PROVE k + 1 \in N
  <2> SUFFICES ASSUME k + 1 <= d PROVE f[k + 1] = g[k + 1]
    OBVIOUS
  <2>1. PICK j \in Nat : j = k + 1 /\ j # 0 /\ j - 1 = k /\ j \in 0 .. d /\ j \in 0 .. m
    OBVIOUS
  <2>2. f[j] = Further(edges, f[j - 1]) /\ g[j] = Further(edges, g[j - 1])
    BY <1>1, <2>1
  <2> QED BY <1>3, <2>1, <2>2
<1> HIDE DEF N
<1>4. Nat \subseteq N
  BY <1>2, <1>3, SetInduction
<1> QED BY <1>4 DEF N

LEMMA WithinIs ==
  ASSUME NEW edges \in Seq(Cause), NEW S \in SUBSET Events, NEW d \in Nat, NEW m \in Nat, d <= m,
         NEW g, WithinUpTo(edges, S, m, g)
  PROVE  Within(edges, S, d) = g[d]
<1> DEFINE f == CHOOSE h : WithinUpTo(edges, S, d, h)
<1>1. Within(edges, S, d) = f[d]
  BY DEF Within, WithinUpTo
<1>2. WithinUpTo(edges, S, d, f)
  BY WithinExists
<1> HIDE DEF f
<1> QED BY <1>1, <1>2, WithinAgree

LEMMA WithinStart ==
  ASSUME NEW edges \in Seq(Cause), NEW S \in SUBSET Events
  PROVE  Within(edges, S, 0) = S
<1>1. PICK g : WithinUpTo(edges, S, 0, g)
  BY WithinExists
<1>2. g[0] = S
  BY <1>1, 0 \in 0 .. 0 DEF WithinUpTo
<1>3. 0 \in Nat /\ 0 <= 0
  OBVIOUS
<1>4. Within(edges, S, 0) = g[0]
  BY <1>1, <1>3, WithinIs
<1> QED BY <1>2, <1>4

LEMMA WithinNext ==
  ASSUME NEW edges \in Seq(Cause), NEW S \in SUBSET Events, NEW d \in Nat
  PROVE  Within(edges, S, d + 1) = Further(edges, Within(edges, S, d))
<1>0. d + 1 \in Nat /\ d <= d + 1 /\ d + 1 <= d + 1
  OBVIOUS
<1>1. PICK g : WithinUpTo(edges, S, d + 1, g)
  BY <1>0, WithinExists
<1>2. PICK j \in 0 .. d + 1 : j = d + 1 /\ j # 0 /\ j - 1 = d
  OBVIOUS
<1>3. g[j] = Further(edges, g[j - 1])
  BY <1>1, <1>2 DEF WithinUpTo
<1>4. Within(edges, S, d + 1) = g[d + 1] /\ Within(edges, S, d) = g[d]
  BY <1>0, <1>1, WithinIs
<1> QED BY <1>2, <1>3, <1>4

LEMMA WithinGrows ==
  ASSUME NEW edges \in Seq(Cause), NEW S \in SUBSET Events
  PROVE  \A d \in Nat : /\ Within(edges, S, d) \subseteq Reached(edges, S)
                        /\ S \subseteq Within(edges, S, d)
                        /\ Within(edges, S, d) \subseteq Within(edges, S, d + 1)
                        /\ \A e \in Within(edges, S, d) : Neighbours(edges, e) \subseteq Within(edges, S, d + 1)
<1> DEFINE W(d) == Within(edges, S, d)
           N == {d \in Nat : W(d) \subseteq Reached(edges, S) /\ S \subseteq W(d)}
<1>1. \A d \in Nat : W(d + 1) = Further(edges, W(d))
  BY WithinNext
<1>2. W(0) = S
  BY WithinStart
<1> HIDE DEF W
<1>3. \A d \in Nat : /\ W(d) \subseteq W(d + 1)
                     /\ \A e \in W(d) : Neighbours(edges, e) \subseteq W(d + 1)
  BY <1>1 DEF Further
<1>4. 0 \in N
  BY <1>2, ReachedIs
<1>5. ASSUME NEW d \in Nat, d \in N PROVE d + 1 \in N
  <2>1. Closed(edges, Reached(edges, S))
    BY ReachedIs
  <2>2. \A e \in W(d) : Neighbours(edges, e) \subseteq Reached(edges, S)
    BY <1>5, <2>1 DEF Closed, Neighbours
  <2>3. W(d + 1) \subseteq Reached(edges, S)
    BY <1>1, <1>5, <2>2 DEF Further
  <2> QED BY <1>3, <1>5, <2>3
<1> HIDE DEF N
<1>6. Nat \subseteq N
  BY <1>4, <1>5, SetInduction
<1> QED BY <1>3, <1>6 DEF N, W

(* Further on the way there is no less.                                    *)
LEMMA WithinFarther ==
  ASSUME NEW edges \in Seq(Cause), NEW S \in SUBSET Events, NEW a \in Nat, NEW d \in Nat, a <= d
  PROVE  Within(edges, S, a) \subseteq Within(edges, S, d)
<1> DEFINE W(k) == Within(edges, S, k)
           N == {k \in Nat : a <= k => W(a) \subseteq W(k)}
<1>1. \A k \in Nat : W(k) \subseteq W(k + 1)
  BY WithinGrows
<1> HIDE DEF W
<1>2. 0 \in N
  <2>1. a <= 0 => a = 0
    OBVIOUS
  <2> QED BY <2>1
<1>3. ASSUME NEW k \in Nat, k \in N PROVE k + 1 \in N
  <2>1. a <= k + 1 => a <= k \/ a = k + 1
    OBVIOUS
  <2> QED BY <1>1, <1>3, <2>1
<1> HIDE DEF N
<1>4. Nat \subseteq N
  BY <1>2, <1>3, SetInduction
<1> QED BY <1>4 DEF N, W

---------------------------------------------------------------------------
(* The neighbours of an event that were not visited yet, each once.        *)
LEMMA NewestOnce ==
  ASSUME NEW edges \in Seq(Cause), NEW e \in Events, NEW visited \in SUBSET Events
  PROVE  LET new == NewFrom(edges, e, visited) IN
         /\ new \in Seq(Events)
         /\ \A i, j \in DOMAIN new : new[i] = new[j] => i = j
         /\ ToSet(new) = Neighbours(edges, e) \ visited
<1> DEFINE n == Len(edges)
           newest == [i \in DOMAIN edges |-> n + 1 - i]
           K == {i \in DOMAIN edges :
                  /\ edges[i].from = e /\ edges[i].to \notin visited
                  /\ \A j \in i + 1 .. n : edges[j].from = e => edges[j].to # edges[i].to}
           places == Kept(newest, K)
           new == NewFrom(edges, e, visited)
<1>1. n \in Nat /\ DOMAIN edges = 1 .. n
  OBVIOUS
<1>2. /\ newest \in Seq(1 .. n) /\ Len(newest) = n
      /\ \A i \in 1 .. n : newest[i] = n + 1 - i
  <2>1. newest = [i \in 1 .. n |-> n + 1 - i]
    BY <1>1
  <2>2. \A i \in 1 .. n : n + 1 - i \in 1 .. n
    BY <1>1
  <2> HIDE DEF n
  <2> QED BY <1>1, <2>1, <2>2
<1>3. new = [i \in DOMAIN places |-> edges[places[i]].to]
  BY DEF NewFrom
<1>4. K \subseteq 1 .. n
  BY <1>1
<1>5. \A k \in K : /\ edges[k].from = e /\ edges[k].to \notin visited
                   /\ \A j \in k + 1 .. n : edges[j].from = e => edges[j].to # edges[k].to
  OBVIOUS
<1>6. \A k \in 1 .. n : /\ edges[k].from = e /\ edges[k].to \notin visited
                        /\ \A j \in k + 1 .. n : edges[j].from = e => edges[j].to # edges[k].to
                        => k \in K
  BY <1>1
<1>7. \A i \in 1 .. n : edges[i].to \in Events
  <2>1. \A i \in 1 .. n : edges[i] \in Cause
    OBVIOUS
  <2> QED BY <2>1 DEF Cause
<1> DEFINE m == Len(places)
<1> HIDE DEF newest, K, n
<1>8. places \in Seq(1 .. n) /\ places \in Seq((1 .. n) \cap K)
  BY <1>2, KeptType
<1>9. m \in Nat /\ DOMAIN places = 1 .. m /\ \A i \in 1 .. m : places[i] \in K
  BY <1>8
<1>10. PICK p : Places(newest, K, p)
  BY <1>2, KeptPlaces
<1>11. \A i, j \in 1 .. m : places[i] = places[j] => i = j
  <2> SUFFICES ASSUME NEW i \in 1 .. m, NEW j \in 1 .. m, places[i] = places[j] PROVE i = j
    OBVIOUS
  <2>1. p[i] \in 1 .. n /\ p[j] \in 1 .. n /\ newest[p[i]] = newest[p[j]]
    BY <1>2, <1>10 DEF Places
  <2>2. p[i] = p[j]
    <3>1. n + 1 - p[i] = n + 1 - p[j]
      BY <1>2, <2>1
    <3>2. \A a, b \in 1 .. n : n + 1 - a = n + 1 - b => a = b
      BY <1>1
    <3> QED BY <2>1, <3>1, <3>2
  <2>3. i < j => p[i] < p[j]
    BY <1>10 DEF Places
  <2>4. j < i => p[j] < p[i]
    BY <1>10 DEF Places
  <2> HIDE DEF m
  <2> QED BY <1>9, <2>1, <2>2, <2>3, <2>4
<1>12. \A k \in K : \E i \in 1 .. m : places[i] = k
  <2> SUFFICES ASSUME NEW k \in K PROVE \E i \in 1 .. m : places[i] = k
    OBVIOUS
  <2>1. n + 1 - k \in 1 .. n /\ n + 1 - (n + 1 - k) = k
    BY <1>1, <1>4
  <2>2. newest[n + 1 - k] = k
    BY <1>2, <2>1
  <2>3. PICK i \in 1 .. m : p[i] = n + 1 - k
    BY <1>2, <1>10, <2>1, <2>2 DEF Places
  <2>4. places[i] = newest[p[i]]
    BY <1>10 DEF Places
  <2> QED BY <2>2, <2>3, <2>4
<1> HIDE DEF places
<1>13. new = [i \in 1 .. m |-> edges[places[i]].to]
  BY <1>3, <1>9
<1> HIDE DEF m, new
<1>14. /\ new \in Seq(Events) /\ DOMAIN new = 1 .. m
       /\ \A i \in 1 .. m : new[i] = edges[places[i]].to
  <2>1. \A i \in 1 .. m : edges[places[i]].to \in Events
    BY <1>4, <1>7, <1>9
  <2> QED BY <1>9, <1>13, <2>1
<1>15. ASSUME NEW i \in 1 .. m, NEW j \in 1 .. m, new[i] = new[j] PROVE i = j
  <2>1. /\ edges[places[i]].to = edges[places[j]].to
        /\ edges[places[i]].from = e /\ edges[places[j]].from = e
        /\ places[i] \in 1 .. n /\ places[j] \in 1 .. n
    BY <1>4, <1>5, <1>9, <1>14, <1>15
  <2>2. ~ (places[j] \in places[i] + 1 .. n) /\ ~ (places[i] \in places[j] + 1 .. n)
    BY <1>5, <1>9, <2>1
  <2>3. places[i] = places[j]
    BY <1>1, <2>1, <2>2
  <2> QED BY <1>11, <2>3
<1>16. ToSet(new) = Neighbours(edges, e) \ visited
  <2>1. ASSUME NEW y \in ToSet(new) PROVE y \in Neighbours(edges, e) \ visited
    <3>1. PICK i \in 1 .. m : y = new[i]
      BY <1>14 DEF ToSet
    <3>2. places[i] \in 1 .. n /\ edges[places[i]].from = e /\ edges[places[i]].to \notin visited
      BY <1>4, <1>5, <1>9
    <3> QED BY <1>1, <1>14, <3>1, <3>2 DEF Neighbours
  <2>2. ASSUME NEW y \in Neighbours(edges, e) \ visited PROVE y \in ToSet(new)
    <3> DEFINE I == {i \in 1 .. n : edges[i].from = e /\ edges[i].to = y}
    <3>1. I # {} /\ I \subseteq 0 .. n
      BY <1>1, <2>2 DEF Neighbours
    <3>2. Max(I) \in I /\ \A i \in I : i <= Max(I)
      <4> HIDE DEF I
      <4> QED BY <1>1, <3>1, MaxOfBounded
    <3>3. PICK k \in I : \A i \in I : i <= k
      BY <3>2
    <3>4. \A j \in k + 1 .. n : edges[j].from = e => edges[j].to # edges[k].to
      <4>1. ASSUME NEW j \in k + 1 .. n, edges[j].from = e, edges[j].to = edges[k].to PROVE FALSE
        <5>1. j \in I
          BY <1>1, <4>1
        <5>2. j <= k
          BY <3>3, <5>1
        <5> QED BY <1>1, <5>2
      <4> QED BY <4>1
    <3>5. k \in K
      BY <1>6, <2>2, <3>4
    <3>6. PICK i \in 1 .. m : places[i] = k
      BY <1>12, <3>5
    <3>7. new[i] = y
      BY <1>14, <3>6
    <3> QED BY <1>14, <3>7 DEF ToSet
  <2> QED BY <2>1, <2>2
<1>17. \A i, j \in DOMAIN new : new[i] = new[j] => i = j
  BY <1>14, <1>15
<1> QED BY <1>14, <1>16, <1>17 DEF new

(***************************************************************************)
(* PlotThreads: a walk of PlotGraph, one event popped after the other.     *)
(***************************************************************************)
(* The walk of PlotGraph after each pop.                                   *)
Entry == [event : Events, at : Nat]
Walks == [stack : Seq(Entry), visited : SUBSET Events, out : Seq(Events)]
OnStack(w) == {w.stack[i].event : i \in DOMAIN w.stack}
Begun(start) == [stack |-> <<[event |-> start, at |-> 0]>>, visited |-> {start}, out |-> <<>>]
NextWalk(edges, d, w) == IF w.stack = <<>> THEN w ELSE Pop(edges, d, w)
WalkUpTo(edges, pops, d, start, f) ==
  f = [k \in 0 .. pops |->
         IF k = 0 THEN [stack |-> <<[event |-> start, at |-> 0]>>, visited |-> {start}, out |-> <<>>]
         ELSE IF f[k - 1].stack = <<>> THEN f[k - 1] ELSE Pop(edges, d, f[k - 1])]
WalkSteps(edges, pops, d, start, f) ==
  /\ f[0] = Begun(start) /\ Walk(edges, pops, d, start) = f[pops]
  /\ \A k \in 1 .. pops : f[k] = NextWalk(edges, d, f[k - 1])

(* What is on the stack after a pop: what was below, and what is new.      *)
OnTop(T, s, t, u, n, m) ==
  /\ n \in Nat /\ m \in Nat /\ n + 1 \in DOMAIN s /\ s[n + 1] = Last(s)
  /\ u \in Seq(T) /\ DOMAIN u = 1 .. n + m /\ DOMAIN s = 1 .. n + 1
  /\ \A i \in 1 .. n : i \in DOMAIN u /\ i \in DOMAIN s /\ u[i] = s[i] /\ i # n + 1
  /\ \A j \in 1 .. m : j \in DOMAIN t /\ n + j \in DOMAIN u /\ u[n + j] = t[j]
  /\ \A i \in DOMAIN u : i \in 1 .. n \/ \E j \in 1 .. m : i = n + j
LEMMA Pushed ==
  ASSUME NEW T, NEW s \in Seq(T), s # <<>>, NEW t \in Seq(T)
  PROVE  OnTop(T, s, t, Front(s) \o t, Len(s) - 1, Len(t))
<1> DEFINE n == Len(s) - 1
           m == Len(t)
           b == Front(s)
<1>1. n \in Nat /\ m \in Nat /\ Len(s) = n + 1 /\ DOMAIN s = 1 .. n + 1
  <2>1. Len(s) \in Nat /\ Len(s) # 0
    OBVIOUS
  <2> QED BY <2>1
<1>2. b \in Seq(T) /\ Len(b) = n /\ \A i \in 1 .. n : b[i] = s[i]
  <2>1. b = SubSeq(s, 1, n)
    BY DEF Front
  <2>2. \A i \in 1 .. n : s[i] \in T
    BY <1>1
  <2>3. b = [i \in 1 .. n |-> s[i]]
    BY <1>1, <2>1
  <2> HIDE DEF b, n
  <2> QED BY <1>1, <2>2, <2>3
<1> HIDE DEF b, n
<1>3. b \o t \in Seq(T) /\ Len(b \o t) = n + m
  BY <1>1, <1>2
<1>4. \A i \in 1 .. n + m : (b \o t)[i] = IF i <= n THEN b[i] ELSE t[i - n]
  BY <1>1, <1>2
<1>5. \A j \in 1 .. m : n + j \in 1 .. n + m /\ ~ (n + j <= n) /\ n + j - n = j
  BY <1>1
<1>6. \A i \in 1 .. n : i \in 1 .. n + m /\ i <= n /\ i \in 1 .. n + 1 /\ i # n + 1
  BY <1>1
<1>7. \A i \in 1 .. n + m : i \in 1 .. n \/ (i - n \in 1 .. m /\ i = n + (i - n))
  BY <1>1
<1>8. DOMAIN (b \o t) = 1 .. n + m /\ DOMAIN t = 1 .. m
  BY <1>3
<1>9. Last(s) = s[n + 1] /\ n + 1 \in 1 .. n + 1
  BY <1>1 DEF Last
<1> DEFINE u == b \o t
<1> HIDE DEF u, m
<1>10. u \in Seq(T) /\ DOMAIN u = 1 .. n + m
  BY <1>3, <1>8 DEF u
<1>11. \A i \in 1 .. n : u[i] = s[i]
  BY <1>2, <1>4, <1>6 DEF u
<1>12. \A j \in 1 .. m : u[n + j] = t[j]
  <2> SUFFICES ASSUME NEW j \in 1 .. m PROVE u[n + j] = t[j]
    OBVIOUS
  <2>1. PICK k \in 1 .. n + m : k = n + j
    BY <1>5
  <2>2. ~ (k <= n) /\ k - n = j
    BY <1>1, <1>5, <2>1
  <2>3. u[k] = t[k - n]
    BY <1>4, <2>2 DEF u
  <2> QED BY <2>1, <2>2, <2>3
<1>13. OnTop(T, s, t, u, n, m)
  BY <1>1, <1>5, <1>6, <1>7, <1>8, <1>9, <1>10, <1>11, <1>12 DEF OnTop
<1> QED BY <1>13 DEF n, m, b, u

(* What a pop takes and puts.                                              *)
New(edges, d, w) ==
  IF Last(w.stack).at >= d THEN <<>> ELSE NewFrom(edges, Last(w.stack).event, w.visited)
Popped(edges, d, w, v, top, new, n) ==
  /\ v \in Walks /\ top \in Entry /\ n \in Nat
  /\ v.visited = w.visited \cup ToSet(new)
  /\ v.out = (IF top.at > 0 THEN Append(w.out, top.event) ELSE w.out)
  /\ DOMAIN w.stack = 1 .. n + 1 /\ w.stack[n + 1] = top
  /\ new \in Seq(Events) /\ \A i, j \in DOMAIN new : new[i] = new[j] => i = j
  /\ ToSet(new) = IF top.at >= d THEN {} ELSE Neighbours(edges, top.event) \ w.visited
  /\ \A i \in 1 .. n : i \in DOMAIN v.stack /\ v.stack[i] = w.stack[i]
  /\ \A j \in DOMAIN new : n + j \in DOMAIN v.stack /\ v.stack[n + j] = [event |-> new[j], at |-> top.at + 1]
  /\ \A i \in DOMAIN v.stack : i \in 1 .. n \/ \E j \in DOMAIN new : i = n + j
LEMMA PopIs ==
  ASSUME NEW edges \in Seq(Cause), NEW d \in Nat, NEW w \in Walks, w.stack # <<>>
  PROVE  Popped(edges, d, w, Pop(edges, d, w), Last(w.stack), New(edges, d, w), Len(w.stack) - 1)
<1> DEFINE top == Last(w.stack)
           new == IF top.at >= d THEN <<>> ELSE NewFrom(edges, top.event, w.visited)
           more == [i \in DOMAIN new |-> [event |-> new[i], at |-> top.at + 1]]
           n == Len(w.stack) - 1
           v == Pop(edges, d, w)
<1>1. w.stack \in Seq(Entry) /\ w.visited \in SUBSET Events /\ w.out \in Seq(Events)
  BY DEF Walks
<1>2. top \in Entry
  BY <1>1 DEF Last
<1>3. top.event \in Events /\ top.at \in Nat
  BY <1>2 DEF Entry
<1>4. /\ new \in Seq(Events) /\ \A i, j \in DOMAIN new : new[i] = new[j] => i = j
      /\ ToSet(new) = IF top.at >= d THEN {} ELSE Neighbours(edges, top.event) \ w.visited
  <2>1. CASE top.at >= d
    <3>1. DOMAIN <<>> = {} /\ <<>> \in Seq(Events)
      OBVIOUS
    <3>2. ToSet(<<>>) = {}
      BY <3>1 DEF ToSet
    <3> QED BY <2>1, <3>1, <3>2
  <2>2. CASE ~ (top.at >= d)
    <3>1. new = NewFrom(edges, top.event, w.visited)
      BY <2>2
    <3> HIDE DEF top
    <3> QED BY <1>1, <1>3, <2>2, <3>1, NewestOnce
  <2> QED BY <2>1, <2>2
<1>5. v = [stack |-> Front(w.stack) \o more, visited |-> w.visited \cup ToSet(new),
           out |-> IF top.at > 0 THEN Append(w.out, top.event) ELSE w.out]
  BY DEF Pop
<1> HIDE DEF top, new, v
<1>6. more \in Seq(Entry) /\ DOMAIN more = DOMAIN new
  <2>1. \A i \in DOMAIN new : new[i] \in Events
    BY <1>4
  <2>2. \A i \in DOMAIN new : [event |-> new[i], at |-> top.at + 1] \in Entry
    BY <1>3, <2>1 DEF Entry
  <2>3. DOMAIN new = 1 .. Len(new) /\ Len(new) \in Nat
    BY <1>4
  <2>4. more = [i \in 1 .. Len(new) |-> [event |-> new[i], at |-> top.at + 1]]
    BY <2>3
  <2> QED BY <2>2, <2>3, <2>4
<1>7. \A j \in DOMAIN new : more[j] = [event |-> new[j], at |-> top.at + 1]
  OBVIOUS
<1> DEFINE u == Front(w.stack) \o more
<1> HIDE DEF more
<1>8. DOMAIN more = 1 .. Len(more)
  BY <1>6
<1>9. /\ n \in Nat /\ w.stack[n + 1] = top
      /\ u \in Seq(Entry) /\ DOMAIN w.stack = 1 .. n + 1
      /\ \A i \in 1 .. n : i \in DOMAIN u /\ u[i] = w.stack[i]
      /\ \A j \in 1 .. Len(more) : n + j \in DOMAIN u /\ u[n + j] = more[j]
      /\ \A i \in DOMAIN u : i \in 1 .. n \/ \E j \in 1 .. Len(more) : i = n + j
  <2>1. OnTop(Entry, w.stack, more, Front(w.stack) \o more, Len(w.stack) - 1, Len(more))
    BY <1>1, <1>6, Pushed
  <2> QED BY <2>1 DEF top, OnTop
<1> HIDE DEF n, u
<1>10. v.stack = u /\ v.visited = w.visited \cup ToSet(new)
       /\ v.out = (IF top.at > 0 THEN Append(w.out, top.event) ELSE w.out)
  BY <1>5 DEF u
<1>11. v \in Walks
  <2>1. ToSet(new) \in SUBSET Events
    <3>1. \A i \in DOMAIN new : new[i] \in Events
      BY <1>4
    <3> QED BY <3>1 DEF ToSet
  <2>2. Append(w.out, top.event) \in Seq(Events)
    BY <1>1, <1>3
  <2>3. (IF top.at > 0 THEN Append(w.out, top.event) ELSE w.out) \in Seq(Events)
    BY <1>1, <2>2
  <2> QED BY <1>1, <1>5, <1>9, <2>1, <2>3 DEF Walks, u
<1>12. /\ \A i \in 1 .. n : i \in DOMAIN v.stack /\ v.stack[i] = w.stack[i]
       /\ \A j \in DOMAIN new : n + j \in DOMAIN v.stack /\ v.stack[n + j] = [event |-> new[j], at |-> top.at + 1]
       /\ \A i \in DOMAIN v.stack : i \in 1 .. n \/ \E j \in DOMAIN new : i = n + j
  BY <1>6, <1>7, <1>8, <1>9, <1>10
<1>13. n \in Nat /\ DOMAIN w.stack = 1 .. n + 1 /\ w.stack[n + 1] = top
  BY <1>9
<1>14. Popped(edges, d, w, v, top, new, n)
  BY <1>2, <1>4, <1>10, <1>11, <1>12, <1>13 DEF Popped
<1> QED BY <1>14 DEF top, new, v, n, New

LEMMA WalksExist ==
  ASSUME NEW edges \in Seq(Cause), NEW d \in Nat, NEW start \in Events, NEW pops \in Nat
  PROVE  \E f : WalkSteps(edges, pops, d, start, f)
<1> DEFINE step == [k \in 1 .. pops |-> [w \in Walks |-> NextWalk(edges, d, w)]]
<1>1. Begun(start) \in Walks
  <2>1. [event |-> start, at |-> 0] \in Entry
    BY DEF Entry
  <2>2. <<[event |-> start, at |-> 0]>> \in Seq(Entry) /\ <<>> \in Seq(Events)
    BY <2>1
  <2> QED BY <2>2 DEF Begun, Walks
<1>2. ASSUME NEW w \in Walks PROVE NextWalk(edges, d, w) \in Walks
  BY PopIs DEF NextWalk, Popped
<1>3. step \in [1 .. pops -> [Walks -> Walks]]
  BY <1>2
<1>4. ASSUME NEW k \in 1 .. pops, NEW w \in Walks PROVE step[k][w] = NextWalk(edges, d, w)
  OBVIOUS
<1> HIDE DEF step
<1>5. PICK f : Iter(f, Walks, pops, Begun(start), step)
  BY <1>1, <1>3, Recursion
<1>6. \A k \in 1 .. pops : f[k] = NextWalk(edges, d, f[k - 1])
  <2> SUFFICES ASSUME NEW k \in 1 .. pops PROVE f[k] = NextWalk(edges, d, f[k - 1])
    OBVIOUS
  <2>1. f[k - 1] \in Walks /\ f[k] = step[k][f[k - 1]]
    BY <1>5, k - 1 \in 0 .. pops DEF Iter
  <2> QED BY <1>4, <2>1
<1>7. WalkUpTo(edges, pops, d, start, f)
  <2>1. \A k \in 0 .. pops : k # 0 => k \in 1 .. pops
    OBVIOUS
  <2>2. f \in [0 .. pops -> Walks] /\ f[0] = Begun(start)
    BY <1>5 DEF Iter
  <2> QED BY <1>6, <2>1, <2>2 DEF WalkUpTo, NextWalk, Begun
<1> DEFINE g == CHOOSE h : WalkUpTo(edges, pops, d, start, h)
<1>8. WalkUpTo(edges, pops, d, start, g) /\ Walk(edges, pops, d, start) = g[pops]
  BY <1>7 DEF Walk, WalkUpTo
<1> HIDE DEF g
<1>9. g[0] = Begun(start) /\ \A k \in 1 .. pops : g[k] = NextWalk(edges, d, g[k - 1])
  <2>1. \A k \in 0 .. pops : g[k] = IF k = 0 THEN Begun(start) ELSE NextWalk(edges, d, g[k - 1])
    BY <1>8 DEF WalkUpTo, NextWalk, Begun
  <2>2. 0 \in 0 .. pops /\ \A k \in 1 .. pops : k \in 0 .. pops /\ k # 0
    OBVIOUS
  <2> QED BY <2>1, <2>2
<1> QED BY <1>8, <1>9 DEF WalkSteps

(***************************************************************************)
(* PlotThreads: the invariant of a walk.                                   *)
(***************************************************************************)
(* What the walk keeps: it visits events within the depth, has each once   *)
(* on its stack or in its answer, and leaves a neighbour out only when it  *)
(* has visited more events than the depth.                                 *)
Walkable(edges, nodes, d, start) ==
  /\ edges \in Seq(Cause) /\ d \in Nat
  /\ nodes \in SUBSET Events /\ IsFiniteSet(nodes) /\ start \in nodes
  /\ \A i \in DOMAIN edges : edges[i].to \in nodes
WalkOk(edges, nodes, d, start, w) ==
  /\ w \in Walks /\ w.visited \subseteq nodes /\ start \in w.visited
  /\ w.visited \subseteq Within(edges, {start}, d)
  /\ \A i \in DOMAIN w.stack :
       /\ w.stack[i].event \in w.visited
       /\ w.stack[i].event \in Within(edges, {start}, w.stack[i].at)
       /\ w.stack[i].at <= d
       /\ w.stack[i].at = 0 <=> w.stack[i].event = start
       /\ Cardinality(w.visited) >= w.stack[i].at + 1
  /\ \A i, j \in DOMAIN w.stack : w.stack[i].event = w.stack[j].event => i = j
  /\ \A i, j \in DOMAIN w.out : w.out[i] = w.out[j] => i = j
  /\ ToSet(w.out) = w.visited \ (OnStack(w) \cup {start})
  /\ \/ Cardinality(w.visited) >= d + 1
     \/ \A p \in w.visited \ OnStack(w) : Neighbours(edges, p) \subseteq w.visited

LEMMA WalkBegins ==
  ASSUME NEW edges, NEW nodes, NEW d, NEW start, Walkable(edges, nodes, d, start)
  PROVE  /\ WalkOk(edges, nodes, d, start, Begun(start))
         /\ Begun(start).visited \ OnStack(Begun(start)) = {}
<1> DEFINE w == Begun(start)
           s == <<[event |-> start, at |-> 0]>>
           none == <<>>
<1>1. start \in Events /\ edges \in Seq(Cause) /\ d \in Nat /\ {start} \in SUBSET Events
  BY DEF Walkable
<1>2. [event |-> start, at |-> 0] \in Entry
  BY <1>1 DEF Entry
<1>3. /\ s \in Seq(Entry) /\ DOMAIN s = {1} /\ s[1] = [event |-> start, at |-> 0]
      /\ none \in Seq(Events) /\ DOMAIN none = {}
  BY <1>2
<1>4. w.stack = s /\ w.visited = {start} /\ w.out = none
  BY DEF Begun
<1>5. w \in Walks
  BY <1>1, <1>3 DEF Begun, Walks
<1> HIDE DEF w, s, none
<1>6. OnStack(w) = {start}
  BY <1>3, <1>4 DEF OnStack
<1>7. start \in Within(edges, {start}, 0) /\ {start} \subseteq Within(edges, {start}, d)
  BY <1>1, WithinStart, WithinGrows
<1>8. Cardinality({start}) = 1
  BY FS_Singleton
<1>9. ToSet(none) = {}
  BY <1>3 DEF ToSet
<1>10. WalkOk(edges, nodes, d, start, w)
  <2>1. \A i \in DOMAIN w.stack : i = 1 /\ w.stack[i].event = start /\ w.stack[i].at = 0
    BY <1>3, <1>4
  <2>2. \A i, j \in DOMAIN w.out : w.out[i] = w.out[j] => i = j
    BY <1>3, <1>4
  <2>3. w.visited \subseteq nodes
    BY <1>4 DEF Walkable
  <2>4. \A p \in w.visited \ OnStack(w) : Neighbours(edges, p) \subseteq w.visited
    BY <1>4, <1>6
  <2>5. \A i \in DOMAIN w.stack :
           /\ w.stack[i].event \in w.visited
           /\ w.stack[i].event \in Within(edges, {start}, w.stack[i].at)
           /\ w.stack[i].at <= d
           /\ w.stack[i].at = 0 <=> w.stack[i].event = start
           /\ Cardinality(w.visited) >= w.stack[i].at + 1
    BY <1>1, <1>4, <1>7, <1>8, <2>1
  <2>6. \A i, j \in DOMAIN w.stack : w.stack[i].event = w.stack[j].event => i = j
    BY <2>1
  <2>7. ToSet(w.out) = w.visited \ (OnStack(w) \cup {start})
    BY <1>4, <1>6, <1>9
  <2>8. start \in w.visited /\ w.visited \subseteq Within(edges, {start}, d)
    BY <1>4, <1>7
  <2> QED BY <1>5, <2>2, <2>3, <2>4, <2>5, <2>6, <2>7, <2>8 DEF WalkOk
<1> QED BY <1>4, <1>6, <1>10 DEF w

LEMMA WalkGoesOn ==
  ASSUME NEW edges, NEW nodes, NEW d, NEW start, Walkable(edges, nodes, d, start),
         NEW w, WalkOk(edges, nodes, d, start, w), w.stack # <<>>
  PROVE  LET v == Pop(edges, d, w)
             e == Last(w.stack).event
         IN /\ WalkOk(edges, nodes, d, start, v)
            /\ v.visited \ OnStack(v) = (w.visited \ OnStack(w)) \cup {e}
            /\ e \notin w.visited \ OnStack(w)
<1> DEFINE v == Pop(edges, d, w)
           top == Last(w.stack)
           e == top.event
           new == New(edges, d, w)
           n == Len(w.stack) - 1
<1>1. /\ edges \in Seq(Cause) /\ d \in Nat /\ w \in Walks
      /\ nodes \in SUBSET Events /\ IsFiniteSet(nodes) /\ start \in nodes
      /\ \A i \in DOMAIN edges : edges[i].to \in nodes
  BY DEF Walkable, WalkOk
<1>2. Popped(edges, d, w, v, top, new, n)
  BY <1>1, PopIs
<1> HIDE DEF v, top, new, n
<1>3. /\ v \in Walks /\ top \in Entry /\ n \in Nat
      /\ v.visited = w.visited \cup ToSet(new)
      /\ v.out = (IF top.at > 0 THEN Append(w.out, top.event) ELSE w.out)
      /\ DOMAIN w.stack = 1 .. n + 1 /\ w.stack[n + 1] = top
      /\ new \in Seq(Events) /\ \A i, j \in DOMAIN new : new[i] = new[j] => i = j
      /\ ToSet(new) = IF top.at >= d THEN {} ELSE Neighbours(edges, top.event) \ w.visited
      /\ \A i \in 1 .. n : i \in DOMAIN v.stack /\ v.stack[i] = w.stack[i]
      /\ \A j \in DOMAIN new : n + j \in DOMAIN v.stack /\ v.stack[n + j] = [event |-> new[j], at |-> top.at + 1]
      /\ \A i \in DOMAIN v.stack : i \in 1 .. n \/ \E j \in DOMAIN new : i = n + j
  BY <1>2 DEF Popped
<1>4. /\ w.visited \subseteq nodes /\ start \in w.visited
      /\ w.visited \subseteq Within(edges, {start}, d)
      /\ \A i \in DOMAIN w.stack :
           /\ w.stack[i].event \in w.visited
           /\ w.stack[i].event \in Within(edges, {start}, w.stack[i].at)
           /\ w.stack[i].at <= d
           /\ w.stack[i].at = 0 <=> w.stack[i].event = start
           /\ Cardinality(w.visited) >= w.stack[i].at + 1
      /\ \A i, j \in DOMAIN w.stack : w.stack[i].event = w.stack[j].event => i = j
      /\ \A i, j \in DOMAIN w.out : w.out[i] = w.out[j] => i = j
      /\ ToSet(w.out) = w.visited \ (OnStack(w) \cup {start})
      /\ \/ Cardinality(w.visited) >= d + 1
         \/ \A p \in w.visited \ OnStack(w) : Neighbours(edges, p) \subseteq w.visited
  BY DEF WalkOk
<1>5. n + 1 \in DOMAIN w.stack /\ \A i \in 1 .. n : i \in DOMAIN w.stack /\ i # n + 1
  BY <1>3
<1>6. \A i \in DOMAIN w.stack : i \in 1 .. n \/ i = n + 1
  BY <1>3
<1>7. /\ e \in w.visited /\ e \in Within(edges, {start}, top.at) /\ top.at <= d /\ top.at \in Nat
      /\ top.at = 0 <=> e = start
      /\ Cardinality(w.visited) >= top.at + 1
      /\ e \in Events
  BY <1>3, <1>4, <1>5 DEF Entry
<1>8. e \in OnStack(w)
  BY <1>3, <1>5 DEF OnStack
<1>9. ToSet(new) \cap w.visited = {} /\ ToSet(new) \subseteq Neighbours(edges, e)
  BY <1>3
<1>10. ToSet(new) \subseteq nodes
  BY <1>1, <1>9 DEF Neighbours
<1>11. OnStack(v) = (OnStack(w) \ {e}) \cup ToSet(new)
  <2>1. ASSUME NEW y \in OnStack(v) PROVE y \in (OnStack(w) \ {e}) \cup ToSet(new)
    <3>1. PICK i \in DOMAIN v.stack : y = v.stack[i].event
      BY <2>1 DEF OnStack
    <3>2. CASE i \in 1 .. n
      <4>1. y = w.stack[i].event /\ i \in DOMAIN w.stack /\ i # n + 1
        BY <1>3, <1>5, <3>1, <3>2
      <4>2. y # e
        BY <1>3, <1>4, <1>5, <4>1
      <4> QED BY <4>1, <4>2 DEF OnStack
    <3>3. CASE \E j \in DOMAIN new : i = n + j
      <4>1. PICK j \in DOMAIN new : i = n + j
        BY <3>3
      <4>2. v.stack[n + j] = [event |-> new[j], at |-> top.at + 1]
        BY <1>3
      <4>3. y = new[j]
        BY <3>1, <4>1, <4>2
      <4> QED BY <4>3 DEF ToSet
    <3> QED BY <1>3, <3>2, <3>3
  <2>2. ASSUME NEW y \in OnStack(w) \ {e} PROVE y \in OnStack(v)
    <3>1. PICK i \in DOMAIN w.stack : y = w.stack[i].event
      BY <2>2 DEF OnStack
    <3>2. i # n + 1
      BY <1>3, <2>2, <3>1
    <3>3. i \in 1 .. n
      BY <1>6, <3>2
    <3> QED BY <1>3, <3>1, <3>3 DEF OnStack
  <2>3. ASSUME NEW y \in ToSet(new) PROVE y \in OnStack(v)
    <3>1. PICK j \in DOMAIN new : y = new[j]
      BY <2>3 DEF ToSet
    <3>2. n + j \in DOMAIN v.stack /\ v.stack[n + j] = [event |-> new[j], at |-> top.at + 1]
      BY <1>3
    <3>3. v.stack[n + j].event = y
      BY <3>1, <3>2
    <3> QED BY <3>2, <3>3 DEF OnStack
  <2> QED BY <2>1, <2>2, <2>3
<1>12. OnStack(w) \subseteq w.visited
  BY <1>4 DEF OnStack
<1>13. v.visited \ OnStack(v) = (w.visited \ OnStack(w)) \cup {e}
  BY <1>3, <1>7, <1>8, <1>9, <1>11, <1>12
<1>14. e \notin w.visited \ OnStack(w)
  BY <1>8
<1>15. v.visited \subseteq nodes /\ start \in v.visited
  BY <1>3, <1>4, <1>10
<1>16. ASSUME NEW y \in ToSet(new)
       PROVE  y \in Within(edges, {start}, top.at + 1) /\ top.at + 1 <= d
  <2>1. ~ (top.at >= d)
    BY <1>3, <1>16
  <2>2. top.at + 1 <= d
    BY <1>1, <1>7, <2>1
  <2>3. {start} \in SUBSET Events
    BY <1>1
  <2>4. Neighbours(edges, e) \subseteq Within(edges, {start}, top.at + 1)
    BY <1>1, <1>7, <2>3, WithinGrows
  <2> QED BY <1>9, <1>16, <2>2, <2>4
<1>17. v.visited \subseteq Within(edges, {start}, d)
  <2>1. ASSUME NEW y \in ToSet(new) PROVE y \in Within(edges, {start}, d)
    <3>1. top.at + 1 \in Nat /\ {start} \in SUBSET Events
      BY <1>1, <1>7
    <3>2. Within(edges, {start}, top.at + 1) \subseteq Within(edges, {start}, d)
      BY <1>1, <1>16, <2>1, <3>1, WithinFarther
    <3> QED BY <1>16, <3>2
  <2> QED BY <1>3, <1>4, <2>1
<1>18. /\ Cardinality(w.visited) \in Nat /\ Cardinality(v.visited) \in Nat
       /\ Cardinality(w.visited) <= Cardinality(v.visited)
       /\ ToSet(new) # {} => Cardinality(w.visited) + 1 <= Cardinality(v.visited)
  <2>1. IsFiniteSet(v.visited)
    BY <1>1, <1>15, FS_Subset
  <2>2. IsFiniteSet(w.visited) /\ Cardinality(w.visited) <= Cardinality(v.visited)
        /\ (Cardinality(w.visited) = Cardinality(v.visited) => w.visited = v.visited)
    <3>1. w.visited \in SUBSET v.visited
      BY <1>3
    <3> QED BY <2>1, <3>1, FS_Subset
  <2>3. Cardinality(w.visited) \in Nat /\ Cardinality(v.visited) \in Nat
    BY <2>1, <2>2, FS_CardinalityType
  <2>4. ToSet(new) # {} => w.visited # v.visited
    BY <1>3, <1>9
  <2> QED BY <2>2, <2>3, <2>4
<1>19. ASSUME NEW i \in DOMAIN v.stack
       PROVE  /\ v.stack[i].event \in v.visited
              /\ v.stack[i].event \in Within(edges, {start}, v.stack[i].at)
              /\ v.stack[i].at <= d
              /\ v.stack[i].at = 0 <=> v.stack[i].event = start
              /\ Cardinality(v.visited) >= v.stack[i].at + 1
  <2>1. CASE i \in 1 .. n
    <3>1. i \in DOMAIN w.stack /\ v.stack[i] = w.stack[i]
      BY <1>3, <1>5, <2>1
    <3>2. w.stack[i].at \in Nat
      <4>1. w.stack[i] \in Entry
        BY <1>1, <3>1 DEF Walks
      <4> QED BY <4>1 DEF Entry
    <3>3. /\ v.stack[i].event \in v.visited
          /\ v.stack[i].event \in Within(edges, {start}, v.stack[i].at)
          /\ v.stack[i].at <= d
          /\ v.stack[i].at = 0 <=> v.stack[i].event = start
      BY <1>3, <1>4, <3>1
    <3>4. Cardinality(w.visited) >= w.stack[i].at + 1
      BY <1>4, <3>1
    <3>5. Cardinality(v.visited) >= w.stack[i].at + 1
      BY <1>18, <3>2, <3>4
    <3> QED BY <3>1, <3>3, <3>5
  <2>2. CASE \E j \in DOMAIN new : i = n + j
    <3>1. PICK j \in DOMAIN new : i = n + j
      BY <2>2
    <3> DEFINE y == new[j]
    <3>2. v.stack[i] = [event |-> y, at |-> top.at + 1]
      BY <1>3, <3>1
    <3>3. y \in ToSet(new)
      BY DEF ToSet
    <3> HIDE DEF y
    <3>4. v.stack[i].event = y /\ v.stack[i].at = top.at + 1
      BY <3>2
    <3>5. y \in v.visited /\ y # start
      BY <1>3, <1>4, <1>9, <3>3
    <3>6. top.at + 1 # 0
      BY <1>7
    <3>7. Cardinality(v.visited) >= (top.at + 1) + 1
      BY <1>7, <1>18, <3>3
    <3> QED BY <1>16, <3>3, <3>4, <3>5, <3>6, <3>7
  <2> QED BY <1>3, <2>1, <2>2
<1>20. ASSUME NEW i \in DOMAIN v.stack, NEW j \in DOMAIN v.stack, v.stack[i].event = v.stack[j].event
       PROVE  i = j
  <2> DEFINE Below(k) == k \in 1 .. n
             Above(k) == \E l \in DOMAIN new : k = n + l
  <2>1. \A k \in 1 .. n : v.stack[k].event \in w.visited
    BY <1>3, <1>4, <1>5
  <2>2. \A l \in DOMAIN new : v.stack[n + l].event = new[l] /\ new[l] \in ToSet(new)
    <3>1. \A l \in DOMAIN new : v.stack[n + l] = [event |-> new[l], at |-> top.at + 1]
      BY <1>3
    <3>2. \A l \in DOMAIN new : new[l] \in ToSet(new)
      BY DEF ToSet
    <3> SUFFICES ASSUME NEW l \in DOMAIN new PROVE v.stack[n + l].event = new[l] /\ new[l] \in ToSet(new)
      OBVIOUS
    <3>3. v.stack[n + l] = [event |-> new[l], at |-> top.at + 1]
      BY <3>1
    <3>4. v.stack[n + l].event = new[l]
      BY <3>3
    <3> QED BY <3>2, <3>4
  <2>3. CASE Below(i) /\ Below(j)
    BY <1>3, <1>4, <1>5, <1>20, <2>3
  <2>4. CASE Below(i) /\ Above(j)
    BY <1>9, <1>20, <2>1, <2>2, <2>4
  <2>5. CASE Above(i) /\ Below(j)
    BY <1>9, <1>20, <2>1, <2>2, <2>5
  <2>6. CASE Above(i) /\ Above(j)
    <3>1. PICK l \in DOMAIN new : i = n + l
      BY <2>6
    <3>2. PICK m \in DOMAIN new : j = n + m
      BY <2>6
    <3>3. new[l] = new[m]
      BY <1>20, <2>2, <3>1, <3>2
    <3>4. l = m
      BY <1>3, <3>3
    <3> QED BY <3>1, <3>2, <3>4
  <2> QED BY <1>3, <2>3, <2>4, <2>5, <2>6
<1>21. /\ \A i, j \in DOMAIN v.out : v.out[i] = v.out[j] => i = j
       /\ ToSet(v.out) = v.visited \ (OnStack(v) \cup {start})
  <2>1. v.visited \ (OnStack(v) \cup {start}) = ToSet(w.out) \cup ({e} \ {start})
    BY <1>4, <1>13
  <2>2. CASE top.at > 0
    <3>1. e # start /\ e \notin ToSet(w.out) /\ v.out = Append(w.out, e)
      BY <1>3, <1>4, <1>7, <1>8, <2>2
    <3>2. w.out \in Seq(Events)
      BY <1>1 DEF Walks
    <3>3. /\ \A i \in DOMAIN w.out : i \in DOMAIN v.out /\ v.out[i] = w.out[i]
          /\ Len(w.out) + 1 \in DOMAIN v.out
          /\ v.out[Len(w.out) + 1] = e
          /\ \A i \in DOMAIN v.out : i \in DOMAIN w.out \/ i = Len(w.out) + 1
      <4> HIDE DEF e
      <4> QED BY <1>7, <3>1, <3>2, Appended
    <3>4. \A i \in DOMAIN w.out : w.out[i] # e
      BY <3>1 DEF ToSet
    <3> HIDE DEF e
    <3>7. \A i \in DOMAIN w.out : w.out[i] \in ToSet(v.out)
      <4>1. \A i \in DOMAIN v.out : v.out[i] \in ToSet(v.out)
        BY DEF ToSet
      <4> QED BY <3>3, <4>1
    <3>8. e \in ToSet(v.out)
      BY <3>3 DEF ToSet
    <3>9. \A i \in DOMAIN v.out : v.out[i] \in ToSet(w.out) \cup {e}
      BY <3>3 DEF ToSet
    <3>5. ToSet(v.out) = ToSet(w.out) \cup {e}
      BY <3>7, <3>8, <3>9 DEF ToSet
    <3>6. \A i, j \in DOMAIN v.out : v.out[i] = v.out[j] => i = j
      BY <1>4, <3>3, <3>4
    <3> QED BY <2>1, <3>1, <3>5, <3>6
  <2>3. CASE ~ (top.at > 0)
    <3>1. e = start
      BY <1>7, <2>3
    <3> QED BY <1>3, <1>4, <2>1, <2>3, <3>1
  <2> QED BY <2>2, <2>3
<1>22. \/ Cardinality(v.visited) >= d + 1
       \/ \A p \in v.visited \ OnStack(v) : Neighbours(edges, p) \subseteq v.visited
  <2>1. CASE Cardinality(w.visited) >= d + 1
    BY <1>1, <1>18, <2>1
  <2>2. CASE top.at >= d
    BY <1>1, <1>7, <1>18, <2>2
  <2>3. CASE /\ ~ (top.at >= d)
             /\ \A p \in w.visited \ OnStack(w) : Neighbours(edges, p) \subseteq w.visited
    <3>1. Neighbours(edges, e) \subseteq v.visited
      BY <1>3, <2>3
    <3>2. w.visited \subseteq v.visited
      BY <1>3
    <3> QED BY <1>13, <2>3, <3>1, <3>2
  <2> QED BY <1>4, <2>1, <2>2, <2>3
<1>23. WalkOk(edges, nodes, d, start, v)
  BY <1>3, <1>15, <1>17, <1>19, <1>20, <1>21, <1>22 DEF WalkOk
<1> QED BY <1>13, <1>14, <1>23 DEF v, top

(***************************************************************************)
(* PlotThreads: what a walk tells, and the theorem.                        *)
(***************************************************************************)
(* Each event is popped once, so the walk has ended after as many pops as  *)
(* there are events.                                                       *)
Told(edges, nodes, d, start, out) ==
  /\ out \in Seq(Events) /\ \A i, j \in DOMAIN out : out[i] = out[j] => i = j
  /\ ToSet(out) \subseteq Within(edges, {start}, d) \ {start}
  /\ d >= Cardinality(nodes) - 1 => ToSet(out) = Reached(edges, {start}) \ {start}

LEMMA WalkEnds ==
  ASSUME NEW edges, NEW nodes, NEW d, NEW start, Walkable(edges, nodes, d, start)
  PROVE  Told(edges, nodes, d, start, Walk(edges, Cardinality(nodes), d, start).out)
<1> DEFINE n == Cardinality(nodes)
           Left(w) == w.visited \ OnStack(w)
<1>1. /\ edges \in Seq(Cause) /\ d \in Nat /\ start \in Events /\ n \in Nat
      /\ nodes \in SUBSET Events /\ IsFiniteSet(nodes) /\ start \in nodes
      /\ \A i \in DOMAIN edges : edges[i].to \in nodes
  BY FS_CardinalityType DEF Walkable
<1> HIDE DEF n
<1>2. PICK f : WalkSteps(edges, n, d, start, f)
  BY <1>1, WalksExist
<1>3. /\ f[0] = Begun(start) /\ Walk(edges, n, d, start) = f[n]
      /\ \A k \in 1 .. n : f[k] = NextWalk(edges, d, f[k - 1])
  BY <1>2 DEF WalkSteps
<1> DEFINE N == {k \in Nat : k <= n => /\ WalkOk(edges, nodes, d, start, f[k])
                                       /\ f[k].stack = <<>> \/ Cardinality(Left(f[k])) = k}
<1>4. 0 \in N
  <2>1. WalkOk(edges, nodes, d, start, f[0]) /\ Left(f[0]) = {}
    BY <1>3, WalkBegins
  <2> QED BY <2>1, FS_EmptySet
<1>5. ASSUME NEW k \in Nat, k \in N PROVE k + 1 \in N
  <2> SUFFICES ASSUME k + 1 <= n
               PROVE  /\ WalkOk(edges, nodes, d, start, f[k + 1])
                      /\ f[k + 1].stack = <<>> \/ Cardinality(Left(f[k + 1])) = k + 1
    OBVIOUS
  <2>1. PICK j \in 1 .. n : j = k + 1 /\ j - 1 = k
    BY <1>1
  <2>2. f[k + 1] = NextWalk(edges, d, f[k])
    BY <1>3, <2>1
  <2>3. /\ WalkOk(edges, nodes, d, start, f[k])
        /\ f[k].stack = <<>> \/ Cardinality(Left(f[k])) = k
    BY <1>1, <1>5
  <2>4. CASE f[k].stack = <<>>
    BY <2>2, <2>3, <2>4 DEF NextWalk
  <2>5. CASE f[k].stack # <<>>
    <3> DEFINE w == f[k]
               v == Pop(edges, d, w)
               e == Last(w.stack).event
    <3>1. f[k + 1] = v
      BY <2>2, <2>5 DEF NextWalk
    <3>2. /\ WalkOk(edges, nodes, d, start, v)
          /\ Left(v) = Left(w) \cup {e} /\ e \notin Left(w)
      <4>1. WalkOk(edges, nodes, d, start, w) /\ w.stack # <<>>
        BY <2>3, <2>5
      <4> HIDE DEF w
      <4> QED BY <4>1, WalkGoesOn
    <3>3. IsFiniteSet(Left(w))
      <4>1. Left(w) \in SUBSET nodes
        BY <2>3 DEF WalkOk
      <4> HIDE DEF Left
      <4> QED BY <1>1, <4>1, FS_Subset
    <3>4. Cardinality(Left(w)) = k
      BY <2>3, <2>5
    <3> HIDE DEF Left, v, e, w
    <3>5. Cardinality(Left(v)) = k + 1
      BY <3>2, <3>3, <3>4, FS_AddElement
    <3> QED BY <3>1, <3>2, <3>5
  <2> QED BY <2>4, <2>5
<1> HIDE DEF N
<1>6. Nat \subseteq N
  BY <1>4, <1>5, SetInduction
<1> DEFINE w == f[n]
           out == w.out
<1>7. WalkOk(edges, nodes, d, start, w) /\ (w.stack = <<>> \/ Cardinality(Left(w)) = n)
  BY <1>1, <1>6 DEF N
<1> HIDE DEF w
<1>8. /\ w \in Walks /\ w.visited \subseteq nodes /\ start \in w.visited
      /\ w.visited \subseteq Within(edges, {start}, d)
      /\ \A i \in DOMAIN w.stack : w.stack[i].event \in w.visited
      /\ \A i, j \in DOMAIN w.out : w.out[i] = w.out[j] => i = j
      /\ ToSet(w.out) = w.visited \ (OnStack(w) \cup {start})
      /\ \/ Cardinality(w.visited) >= d + 1
         \/ \A p \in w.visited \ OnStack(w) : Neighbours(edges, p) \subseteq w.visited
  BY <1>7 DEF WalkOk
<1>9. OnStack(w) = {}
  <2>1. CASE w.stack = <<>>
    <3>1. DOMAIN <<>> = {}
      OBVIOUS
    <3> QED BY <2>1, <3>1 DEF OnStack
  <2>2. CASE Cardinality(Left(w)) = n
    <3>1. Left(w) \in SUBSET nodes
      BY <1>8
    <3> HIDE DEF Left
    <3>2. Left(w) = nodes
      BY <1>1, <2>2, <3>1, FS_Subset DEF n
    <3> USE DEF Left
    <3>3. OnStack(w) \subseteq nodes
      BY <1>8 DEF OnStack
    <3> QED BY <3>2, <3>3
  <2> QED BY <1>7, <2>1, <2>2
<1>10. ToSet(out) = w.visited \ {start}
  BY <1>8, <1>9
<1>11. {start} \in SUBSET Events
  BY <1>1
<1>12. Within(edges, {start}, d) \subseteq Reached(edges, {start})
  BY <1>1, <1>11, WithinGrows
<1>13. ASSUME d >= n - 1 PROVE ToSet(out) = Reached(edges, {start}) \ {start}
  <2>1. Closed(edges, w.visited)
    <3>1. CASE \A p \in w.visited \ OnStack(w) : Neighbours(edges, p) \subseteq w.visited
      BY <1>9, <3>1 DEF Closed, Neighbours
    <3>2. CASE Cardinality(w.visited) >= d + 1
      <4>1. w.visited \in SUBSET nodes
        BY <1>8
      <4>2. Cardinality(w.visited) <= n /\ (n = Cardinality(w.visited) => nodes = w.visited)
            /\ IsFiniteSet(w.visited)
        BY <1>1, <4>1, FS_Subset DEF n
      <4>3. Cardinality(w.visited) \in Nat
        BY <4>2, FS_CardinalityType
      <4>4. Cardinality(w.visited) = n
        BY <1>1, <1>13, <3>2, <4>2, <4>3
      <4>5. w.visited = nodes
        BY <4>2, <4>4
      <4> QED BY <1>1, <4>5 DEF Closed
    <3> QED BY <1>8, <3>1, <3>2
  <2>2. w.visited \in SUBSET Events /\ {start} \subseteq w.visited
    BY <1>1, <1>8
  <2>3. Reached(edges, {start}) \subseteq w.visited
    BY <1>1, <1>11, <2>1, <2>2, ReachedIs
  <2>4. w.visited = Reached(edges, {start})
    BY <1>8, <1>12, <2>3
  <2> QED BY <1>10, <2>4
<1>14. out \in Seq(Events)
  BY <1>8 DEF Walks
<1>15. ToSet(out) \subseteq Within(edges, {start}, d) \ {start}
  BY <1>8, <1>10
<1>16. Told(edges, nodes, d, start, out)
  BY <1>8, <1>13, <1>14, <1>15 DEF Told, n
<1> QED BY <1>3, <1>16 DEF w, n

(* A sequence without repetitions is as long as its set is large.          *)
LEMMA DistinctLength ==
  ASSUME NEW T, NEW s \in Seq(T), \A i, j \in DOMAIN s : s[i] = s[j] => i = j
  PROVE  Cardinality(ToSet(s)) = Len(s)
<1> DEFINE D == 1 .. Len(s)
<1>1. Len(s) \in Nat /\ DOMAIN s = D /\ s \in [D -> ToSet(s)]
  BY DEF ToSet
<1>2. s \in Bijection(D, ToSet(s))
  <2>1. \A t \in ToSet(s) : \E i \in D : s[i] = t
    BY DEF ToSet
  <2> QED BY <1>1, <2>1 DEF Bijection, Injection, Surjection, IsInjective
<1>3. IsFiniteSet(D) /\ Cardinality(D) = Len(s)
  BY <1>1, FS_Interval
<1>4. ExistsBijection(D, ToSet(s))
  BY <1>2 DEF ExistsBijection
<1> HIDE DEF D
<1> QED BY <1>3, <1>4, FS_Bijection

LEMMA TurnedIs ==
  ASSUME NEW edges \in Seq(Cause)
  PROVE  /\ Turned(edges) \in Seq(Cause)
         /\ DOMAIN Turned(edges) = DOMAIN edges
         /\ \A i \in DOMAIN edges : Turned(edges)[i].to = edges[i].from
<1>1. DOMAIN edges = 1 .. Len(edges) /\ \A i \in DOMAIN edges : edges[i] \in Cause
  OBVIOUS
<1>2. \A i \in DOMAIN edges : LET r == [edges[i] EXCEPT !.from = edges[i].to, !.to = edges[i].from]
                              IN r \in Cause /\ r.to = edges[i].from
  BY <1>1 DEF Cause
<1> DEFINE ways(r) == [r EXCEPT !.from = r.to, !.to = r.from]
           t == Turned(edges)
<1>3. t = [i \in 1 .. Len(edges) |-> ways(edges[i])]
  BY <1>1 DEF Turned
<1>4. \A i \in 1 .. Len(edges) : ways(edges[i]) \in Cause /\ ways(edges[i]).to = edges[i].from
  BY <1>1, <1>2
<1> HIDE DEF ways, t
<1>5. Len(edges) \in Nat
  OBVIOUS
<1>6. t \in Seq(Cause) /\ DOMAIN t = 1 .. Len(edges)
  BY <1>3, <1>4, <1>5
<1>7. \A i \in DOMAIN edges : t[i].to = edges[i].from
  BY <1>1, <1>3, <1>4
<1> QED BY <1>1, <1>6, <1>7 DEF t

LEMMA CausesTold == ASSUME ThreadTypes PROVE CausesAreTold
<1> DEFINE g == Graph
           along(f) == IF f THEN g.edges ELSE Turned(g.edges)
<1>1. GraphOk(g, Len(causes))
  BY GraphIsOk
<1> HIDE DEF g
<1>2. /\ g \in Graphs /\ IsFiniteSet(g.nodes) /\ g.nodes \in SUBSET Events /\ g.edges \in Seq(Cause)
      /\ \A i \in DOMAIN g.edges : g.edges[i].from \in g.nodes /\ g.edges[i].to \in g.nodes
      /\ Acyclic(g.edges)
      /\ \A i \in 1 .. Len(causes) : causes[i].columns = 5 =>
           \/ causes[i].to \in Neighbours(g.edges, causes[i].from)
           \/ causes[i].from \in Reached(g.edges, {causes[i].to})
  BY <1>1 DEF GraphOk, Graphs
<1>3. \A e \in g.nodes : e \notin Reached(g.edges, Neighbours(g.edges, e))
  BY <1>2 DEF Acyclic
<1>4. \A i \in DOMAIN causes : causes[i].columns = 5 =>
        \/ causes[i].to \in Neighbours(g.edges, causes[i].from)
        \/ causes[i].from \in Reached(g.edges, {causes[i].to})
  BY <1>2 DEF ThreadTypes
<1>5. ASSUME NEW e \in g.nodes, NEW f \in BOOLEAN, NEW d \in 0 .. 4
      PROVE  Told(along(f), g.nodes, d, e, Traverse(e, d, f))
  <2>1. Traverse(e, d, f) = Walk(along(f), Cardinality(g.nodes), d, e).out
    BY DEF Traverse, g
  <2>2. Walkable(along(f), g.nodes, d, e)
    <3>1. Turned(g.edges) \in Seq(Cause) /\ \A i \in DOMAIN Turned(g.edges) : Turned(g.edges)[i].to \in g.nodes
      BY <1>2, TurnedIs
    <3> QED BY <1>2, <1>5, <3>1 DEF Walkable
  <2> HIDE DEF along
  <2> QED BY <2>1, <2>2, WalkEnds
<1>6. ASSUME NEW e \in g.nodes, NEW f \in BOOLEAN, NEW d \in 0 .. 4
      PROVE  LET said == Traverse(e, d, f) IN
             /\ ToSet(said) \subseteq Within(along(f), {e}, d) \ {e}
             /\ Cardinality(ToSet(said)) = Len(said)
             /\ d >= Cardinality(g.nodes) - 1 => ToSet(said) = Reached(along(f), {e}) \ {e}
  BY <1>5, DistinctLength DEF Told
<1>7. \A e \in g.nodes : e \in Events
  BY <1>2
<1> QED BY <1>3, <1>4, <1>6, <1>7 DEF CausesAreTold, g

(* ForeshadowTracker, KnowledgeDerive and PlotGraph tell of threads and    *)
(* causes what the rows of their logs say, for logs of any length: threads *)
(* are in the bucket they belong to, the graph has no circle, a walk       *)
(* reaches what it should.                                                 *)
THEOREM ThePlotIsTold == ThreadsSpec => []PlotIsTold
<1>1. ThreadTypes => PlotIsTold
  BY ThreadsDoAgree, CausesTold DEF PlotIsTold
<1> QED BY <1>1, LogsAreTyped, PTL

(***************************************************************************)
(* AuditLedger: the rows of a chapter in a text.                           *)
(***************************************************************************)
(* The rows of a chapter that have all their cells.                        *)
Whole == {r \in Row : r.whole /\ r.chapter # 0}
RowsWith(c) == {r \in Row : r.whole /\ r.chapter = c}
Of(text, c) == Kept(text, RowsWith(c))
Unique(text) == \A c \in Chapters : Len(Of(text, c)) <= 1

LEMMA StatusRowsAre ==
  ASSUME NEW text \in Seq(Row)
  PROVE  /\ StatusRows(text) = Kept(text, Whole)
         /\ StatusRows(text) \in Seq(Row) /\ StatusRows(text) \in Seq(Whole)
         /\ \A c \in Chapters : Of(StatusRows(text), c) = Of(text, c)
         /\ text \in Seq(Whole) => StatusRows(text) = text
<1>1. StatusRows(text) = Kept(text, Whole)
  <2> DEFINE J == {r \in ToSet(text) : r.whole /\ r.chapter # 0}
  <2>1. \A i \in 1 .. Len(text) : text[i] \in J <=> text[i] \in Whole
    <3>1. \A i \in 1 .. Len(text) : text[i] \in Row /\ text[i] \in ToSet(text)
      BY DEF ToSet
    <3> QED BY <3>1 DEF Whole
  <2> HIDE DEF J
  <2>2. Kept(text, J) = Kept(text, Whole)
    BY <2>1, KeptAgree
  <2> QED BY <2>2 DEF StatusRows, J
<1>2. Kept(text, Whole) \in Seq(Row) /\ Kept(text, Whole) \in Seq(Row \cap Whole)
  BY KeptType
<1>3. Row \cap Whole = Whole
  BY DEF Whole
<1>4. ASSUME NEW c \in Chapters PROVE Of(StatusRows(text), c) = Of(text, c)
  <2>1. c # 0
    BY DEF Chapters
  <2>2. Whole \cap RowsWith(c) = RowsWith(c)
    BY <2>1 DEF Whole, RowsWith
  <2>3. Kept(Kept(text, Whole), RowsWith(c)) = Kept(text, Whole \cap RowsWith(c))
    BY KeptTwice
  <2> QED BY <1>1, <2>2, <2>3 DEF Of
<1>5. ASSUME text \in Seq(Whole) PROVE StatusRows(text) = text
  <2>1. \A i \in 1 .. Len(text) : text[i] \in Whole
    BY <1>5
  <2> QED BY <1>1, <2>1, KeptAll
<1> QED BY <1>1, <1>2, <1>3, <1>4, <1>5

(* The row that a reader finds for a chapter is the one there is.          *)
Found(text, c) ==
  LET r == StatusRows(text)
      i == FirstOf(r, c)
  IN /\ (Of(text, c) = <<>>) = (i = 0)
     /\ Of(text, c) # <<>> => /\ i \in 1 .. Len(r) /\ r[i] = Of(text, c)[1] /\ r[i].chapter = c
                              /\ r[i] \in Row
                              /\ \A j \in 1 .. Len(r) : r[j].chapter = c => r[j] = Of(text, c)[1]
     /\ Of(text, c) = <<>> => \A j \in 1 .. Len(r) : r[j].chapter # c
LEMMA RowIsFound ==
  ASSUME NEW text \in Seq(Row), NEW c \in Chapters, Len(Of(text, c)) <= 1
  PROVE  Found(text, c)
<1> DEFINE r == StatusRows(text)
           K == RowsWith(c)
           I == {i \in 1 .. Len(r) : r[i].chapter = c}
           i == FirstOf(r, c)
           o == Of(text, c)
<1>1. r \in Seq(Row) /\ r \in Seq(Whole) /\ Kept(r, K) = o
  BY StatusRowsAre DEF Of
<1>2. i = IF I # {} THEN Min(I) ELSE 0
  BY DEF FirstOf, SelectInSeq
<1> HIDE DEF r, i, o
<1>3. I = {j \in 1 .. Len(r) : r[j] \in K}
  <2>1. \A j \in 1 .. Len(r) : r[j] \in Row /\ r[j] \in Whole
    BY <1>1
  <2> QED BY <2>1 DEF RowsWith, Whole
<1>4. FirstPlace(r, K)
  BY <1>1, FirstOfKept
<1> HIDE DEF I
<1>5. /\ (I = {}) = (o = <<>>)
      /\ I # {} => Min(I) \in 1 .. Len(r) /\ r[Min(I)] \in K /\ r[Min(I)] = o[1]
  BY <1>1, <1>3, <1>4 DEF FirstPlace
<1>6. (o = <<>>) = (i = 0)
  <2>1. 0 \notin 1 .. Len(r)
    OBVIOUS
  <2>2. (o = <<>>) \in BOOLEAN /\ (i = 0) \in BOOLEAN
    OBVIOUS
  <2> QED BY <1>2, <1>5, <2>1, <2>2
<1>7. o # <<>> => i \in 1 .. Len(r) /\ r[i] = o[1] /\ r[i].chapter = c /\ r[i] \in Row
  BY <1>2, <1>5 DEF RowsWith
<1>8. ASSUME o # <<>>, NEW j \in 1 .. Len(r), r[j].chapter = c PROVE r[j] = o[1]
  <2>1. r[j] \in K
    <3>1. j \in I
      BY <1>8 DEF I
    <3> QED BY <1>3, <3>1
  <2>2. PICK k \in 1 .. Len(o) : o[k] = r[j]
    BY <1>1, <2>1, KeptElements
  <2>3. Len(o) <= 1
    BY DEF o
  <2>4. Len(o) \in Nat
    <3>1. o \in Seq(Row)
      BY <1>1, KeptType
    <3> QED BY <3>1
  <2>5. k = 1
    BY <2>3, <2>4
  <2> QED BY <2>2, <2>5
<1>9. o = <<>> => \A j \in 1 .. Len(r) : r[j].chapter # c
  BY <1>5 DEF I
<1> QED BY <1>6, <1>7, <1>8, <1>9 DEF Found, r, i, o

(* Sorting by chapters keeps the rows of each.                             *)
LEMMA SortedKeeps ==
  ASSUME NEW text \in Seq(Whole)
  PROVE  /\ SortedByChapter(text) \in Seq(Whole)
         /\ \A c \in Chapters : Of(SortedByChapter(text), c) = Of(text, c)
<1> DEFINE J(i) == {r \in ToSet(text) : r.chapter = i - 1}
           parts == [i \in 1 .. LastChapter + 1 |-> Kept(text, J(i))]
<1>1. LastChapter \in Nat
  BY LastChapterIsNat
<1>2. \A i \in 1 .. LastChapter + 1 : Kept(text, J(i)) \in Seq(Whole)
  BY KeptType
<1>3. parts \in Seq(Seq(Whole)) /\ Len(parts) = LastChapter + 1
      /\ \A i \in 1 .. LastChapter + 1 : parts[i] = Kept(text, J(i))
  <2> HIDE DEF J
  <2> QED BY <1>1, <1>2
<1>4. SortedByChapter(text) = Joined(parts)
  BY DEF SortedByChapter
<1> HIDE DEF parts, J
<1>5. SortedByChapter(text) \in Seq(Whole)
  BY <1>3, <1>4, JoinedType
<1>6. ASSUME NEW c \in Chapters PROVE Of(SortedByChapter(text), c) = Of(text, c)
  <2>1. c + 1 \in 1 .. LastChapter + 1 /\ c + 1 \in Nat /\ (c + 1) - 1 = c
    BY <1>1 DEF Chapters
  <2>2. ASSUME NEW i \in 1 .. LastChapter + 1
        PROVE  Kept(parts[i], RowsWith(c)) = Kept(text, J(i) \cap RowsWith(c))
    BY <1>3, KeptTwice
  <2>3. ASSUME NEW i \in 1 .. LastChapter + 1, i # c + 1 PROVE Kept(parts[i], RowsWith(c)) = <<>>
    <3>1. i - 1 # c
      BY <1>1, <2>1, <2>3 DEF Chapters
    <3>2. \A k \in 1 .. Len(text) : text[k] \notin J(i) \cap RowsWith(c)
      BY <3>1 DEF J, RowsWith
    <3>3. Kept(text, J(i) \cap RowsWith(c)) = <<>>
      BY <3>2, KeptNone
    <3> QED BY <2>2, <3>3
  <2>4. Kept(parts[c + 1], RowsWith(c)) = Kept(text, RowsWith(c))
    <3>1. \A k \in 1 .. Len(text) : text[k] \in J(c + 1) \cap RowsWith(c) <=> text[k] \in RowsWith(c)
      BY <2>1 DEF J, RowsWith, ToSet
    <3>2. Kept(text, J(c + 1) \cap RowsWith(c)) = Kept(text, RowsWith(c))
      BY <3>1, KeptAgree
    <3> QED BY <2>1, <2>2, <3>2
  <2>5. Kept(Joined(parts), RowsWith(c)) =
          IF c + 1 \in 1 .. Len(parts) THEN Kept(parts[c + 1], RowsWith(c)) ELSE <<>>
    <3>1. \A i \in 1 .. Len(parts) : i # c + 1 => Kept(parts[i], RowsWith(c)) = <<>>
      BY <1>3, <2>3
    <3> QED BY <1>3, <2>1, <3>1, JoinedKept
  <2> QED BY <1>3, <1>4, <2>1, <2>4, <2>5 DEF Of
<1> QED BY <1>5, <1>6

(***************************************************************************)
(* AuditLedger: what a mark makes of a row.                                *)
(***************************************************************************)
CellsOf(text, c) == IF Of(text, c) = <<>> THEN Unreviewed ELSE Of(text, c)[1].cells
NotedOf(text, c) == Of(text, c) # <<>> /\ Of(text, c)[1].noted
Audited(text, kind, c) == [CellsOf(text, c) EXCEPT ![kind] = "audited"]
Marking(text, kind, c) ==
  [chapter |-> c, cells |-> Audited(text, kind, c), noted |-> NotedOf(text, c), whole |-> TRUE]

LEMMA OfType ==
  ASSUME NEW text \in Seq(Row), NEW c
  PROVE  /\ Of(text, c) \in Seq(Row) /\ Len(Of(text, c)) \in Nat
         /\ Of(text, c) # <<>> => Of(text, c)[1] \in RowsWith(c)
<1>1. Of(text, c) \in Seq(Row) /\ Of(text, c) \in Seq(Row \cap RowsWith(c))
  BY KeptType DEF Of
<1>2. Of(text, c) # <<>> => 1 \in 1 .. Len(Of(text, c))
  BY <1>1
<1> QED BY <1>1, <1>2

LEMMA MarkingIsARow ==
  ASSUME NEW text \in Seq(Row), NEW kind \in Kinds, NEW c \in Chapters
  PROVE  /\ CellsOf(text, c) \in [Kinds -> Statuses]
         /\ Marking(text, kind, c) \in Whole /\ Marking(text, kind, c) \in RowsWith(c)
<1>1. CellsOf(text, c) \in [Kinds -> Statuses]
  <2>1. Unreviewed \in [Kinds -> Statuses]
    BY DEF Unreviewed, Statuses
  <2> QED BY <2>1, OfType DEF CellsOf, RowsWith, Row
<1>2. Audited(text, kind, c) \in [Kinds -> Statuses]
  BY <1>1 DEF Audited, Statuses
<1>3. NotedOf(text, c) \in BOOLEAN
  BY OfType DEF NotedOf, RowsWith, Row
<1>4. c \in Chapter /\ c # 0
  BY DEF Chapter, Chapters
<1> QED BY <1>1, <1>2, <1>3, <1>4 DEF Marking, Row, Whole, RowsWith

LEMMA UpsertedIs ==
  ASSUME NEW text \in Seq(Row), Unique(text), NEW kind \in Kinds, NEW c \in Chapters
  PROVE  /\ Upserted(text, kind, c) \in Seq(Whole)
         /\ \A d \in Chapters : d # c => Of(Upserted(text, kind, c), d) = Of(text, d)
         /\ Of(Upserted(text, kind, c), c) = <<Marking(text, kind, c)>>
<1> DEFINE parsed == StatusRows(text)
           i == FirstOf(parsed, c)
           x == Marking(text, kind, c)
           added == [chapter |-> c, cells |-> [Unreviewed EXCEPT ![kind] = "audited"],
                     noted |-> FALSE, whole |-> TRUE]
           P == IF i # 0 THEN [parsed EXCEPT ![i].cells[kind] = "audited"] ELSE Append(parsed, added)
<1>1. /\ parsed \in Seq(Whole) /\ parsed \in Seq(Row)
      /\ \A d \in Chapters : Of(parsed, d) = Of(text, d)
  BY StatusRowsAre
<1>2. Found(text, c)
  BY RowIsFound DEF Unique
<1>3. x \in Whole /\ x \in RowsWith(c)
  BY MarkingIsARow
<1>4. \A d \in Chapters : d # c => x \notin RowsWith(d)
  BY <1>3 DEF RowsWith
<1>5. /\ P \in Seq(Whole)
      /\ \A d \in Chapters : d # c => Of(P, d) = Of(text, d)
      /\ Of(P, c) = <<x>>
  <2>1. CASE Of(text, c) = <<>>
    <3>1. i = 0
      BY <1>2, <2>1 DEF Found
    <3>2. x = added
      BY <2>1 DEF Marking, Audited, CellsOf, NotedOf
    <3>3. P = Append(parsed, x)
      BY <3>1, <3>2
    <3> HIDE DEF P, x, added, parsed, i
    <3>4. \A K : Kept(P, K) = IF x \in K THEN Append(Kept(parsed, K), x) ELSE Kept(parsed, K)
      BY <1>1, <1>3, <3>3, KeptAppend
    <3>5. \A d \in Chapters : d # c => Of(P, d) = Of(text, d)
      BY <1>1, <1>4, <3>4 DEF Of
    <3>6. Of(P, c) = Append(<<>>, x)
      BY <1>1, <1>3, <2>1, <3>4 DEF Of
    <3> QED BY <1>1, <1>3, <3>3, <3>5, <3>6
  <2>2. CASE Of(text, c) # <<>>
    <3>1. /\ i \in 1 .. Len(parsed) /\ parsed[i] = Of(text, c)[1] /\ parsed[i].chapter = c
          /\ parsed[i] \in Row
      BY <1>2, <2>2 DEF Found
    <3>2. i # 0
      BY <3>1
    <3> HIDE DEF parsed, i
    <3>3. parsed[i] \in Whole
      BY <1>1, <3>1
    <3>4. x = [parsed[i] EXCEPT !.cells = [parsed[i].cells EXCEPT ![kind] = "audited"]]
      <4>1. CellsOf(text, c) = parsed[i].cells /\ NotedOf(text, c) = parsed[i].noted
        <5>1. parsed[i].noted \in BOOLEAN
          BY <3>1 DEF Row
        <5> QED BY <2>2, <3>1, <5>1 DEF CellsOf, NotedOf
      <4>2. parsed[i] = [chapter |-> c, cells |-> parsed[i].cells, noted |-> parsed[i].noted, whole |-> TRUE]
        BY <3>1, <3>3 DEF Whole, Row
      <4> DEFINE new == [parsed[i].cells EXCEPT ![kind] = "audited"]
      <4>4. x = [chapter |-> c, cells |-> new, noted |-> parsed[i].noted, whole |-> TRUE]
        BY <4>1 DEF Marking, Audited
      <4> HIDE DEF new, x
      <4>5. x \in Row /\ x.chapter = c /\ x.cells = new /\ x.noted = parsed[i].noted /\ x.whole = TRUE
        BY <1>3, <4>4 DEF Whole
      <4> DEFINE z == [parsed[i] EXCEPT !.cells = new]
      <4>6. new \in [Kinds -> Statuses]
        BY <4>5 DEF Row
      <4>7. z \in Row /\ z.chapter = parsed[i].chapter /\ z.cells = new
            /\ z.noted = parsed[i].noted /\ z.whole = parsed[i].whole
        BY <3>1, <4>6 DEF Row
      <4>8. parsed[i].chapter = c /\ parsed[i].whole = TRUE
        BY <4>2
      <4> HIDE DEF z
      <4>9. x = z
        BY <4>5, <4>7, <4>8 DEF Row
      <4> QED BY <4>9 DEF new, z
    <3>5. P = [parsed EXCEPT ![i] = x]
      BY <3>2, <3>4
    <3> HIDE DEF P, x
    <3>6. P \in Seq(Whole)
      BY <1>1, <1>3, <3>1, <3>5
    <3>7. parsed[i] \in RowsWith(c) /\ \A d \in Chapters : d # c => parsed[i] \notin RowsWith(d)
      BY <3>1, <3>3 DEF RowsWith, Whole
    <3>8. \A d \in Chapters : d # c => Of(P, d) = Of(text, d)
      <4> SUFFICES ASSUME NEW d \in Chapters, d # c PROVE Of(P, d) = Of(text, d)
        OBVIOUS
      <4>1. parsed[i] \notin RowsWith(d) /\ x \notin RowsWith(d)
        BY <1>4, <3>7
      <4>2. Kept([parsed EXCEPT ![i] = x], RowsWith(d)) = Kept(parsed, RowsWith(d))
        BY <1>1, <1>3, <3>1, <4>1, KeptNotChanged
      <4> QED BY <1>1, <3>5, <4>2 DEF Of
    <3>9. Len(Kept(parsed, RowsWith(c))) <= 1
      BY <1>1 DEF Unique, Of
    <3>10. Kept([parsed EXCEPT ![i] = x], RowsWith(c)) = One(x, RowsWith(c))
      BY <1>1, <1>3, <3>1, <3>7, <3>9, KeptChanged
    <3> QED BY <1>3, <3>5, <3>6, <3>8, <3>10 DEF Of, One
  <2> QED BY <2>1, <2>2
<1>6. Upserted(text, kind, c) = SortedByChapter(P)
  BY DEF Upserted
<1> HIDE DEF P
<1> QED BY <1>5, <1>6, SortedKeeps

(* A plain note leaves the row whole.                                      *)
LEMMA MarkedOneIs ==
  ASSUME NEW text \in Seq(Row), Unique(text), NEW kind \in Kinds, NEW c \in Chapters, NEW note \in Notes
  PROVE  LET t == MarkedOne(text, kind, c, note) IN
         /\ t \in Seq(Row) /\ Unique(t)
         /\ \A d \in Chapters : d # c => Of(t, d) = Of(text, d)
         /\ note = "plain" \/ NotedOf(text, c) =>
              Of(t, c) # <<>> /\ Of(t, c)[1].cells = Audited(text, kind, c)
<1> DEFINE u == Upserted(text, kind, c)
           x == Marking(text, kind, c)
           i == FirstOf(u, c)
           y == [u[i] EXCEPT !.noted = TRUE, !.whole = (note = "plain")]
           t == MarkedOne(text, kind, c, note)
<1>1. /\ u \in Seq(Whole)
      /\ \A d \in Chapters : d # c => Of(u, d) = Of(text, d)
      /\ Of(u, c) = <<x>>
  BY UpsertedIs
<1>2. x \in Whole /\ x \in RowsWith(c)
  BY MarkingIsARow
<1>3. t = IF u[i].noted THEN u ELSE [u EXCEPT ![i].noted = TRUE, ![i].whole = (note = "plain")]
  BY DEF MarkedOne, Noted
<1>4. x.cells = Audited(text, kind, c) /\ x.noted = NotedOf(text, c) /\ x.chapter = c
  BY DEF Marking
<1> HIDE DEF u, x, t
<1>5. Len(Of(u, c)) = 1 /\ Of(u, c) # <<>> /\ Of(u, c)[1] = x
  BY <1>1
<1>a. Len(Of(u, c)) <= 1
  <2>1. 1 <= 1
    OBVIOUS
  <2> QED BY <1>5, <2>1
<1>6. u \in Seq(Row) /\ StatusRows(u) = u
  <2>1. Whole \subseteq Row
    BY DEF Whole
  <2>2. u \in Seq(Row)
    BY <1>1, <2>1
  <2> QED BY <1>1, <2>2, StatusRowsAre
<1>7. i \in 1 .. Len(u) /\ u[i] = x
  <2>1. Found(u, c)
    BY <1>a, <1>6, RowIsFound
  <2> QED BY <1>5, <1>6, <2>1 DEF Found
<1> HIDE DEF i
<1>8. CASE u[i].noted
  <2>1. t = u
    BY <1>3, <1>8
  <2>2. \A d \in Chapters : Len(Of(u, d)) <= 1
    <3>1. \A d \in Chapters : d # c => Len(Of(u, d)) <= 1
      BY <1>1 DEF Unique
    <3> QED BY <1>a, <3>1
  <2> QED BY <1>1, <1>4, <1>5, <1>6, <2>1, <2>2 DEF Unique, t
<1>9. CASE ~ u[i].noted
  <2>1. t = [u EXCEPT ![i] = y]
    BY <1>3, <1>9
  <2>2. u[i] \in Row /\ u[i].whole /\ u[i].chapter = c
    BY <1>2, <1>7 DEF Whole, RowsWith
  <2>3. y \in Row /\ y.chapter = c /\ y.cells = u[i].cells /\ y.whole = (note = "plain")
    BY <2>2 DEF Row
  <2> HIDE DEF y
  <2>4. t \in Seq(Row)
    BY <1>6, <1>7, <2>1, <2>3
  <2>5. ASSUME NEW d \in Chapters, d # c PROVE Of(t, d) = Of(text, d)
    <3>1. u[i] \notin RowsWith(d) /\ y \notin RowsWith(d)
      BY <2>2, <2>3, <2>5 DEF RowsWith
    <3>2. Kept([u EXCEPT ![i] = y], RowsWith(d)) = Kept(u, RowsWith(d))
      BY <1>6, <1>7, <2>3, <3>1, KeptNotChanged
    <3> QED BY <1>1, <2>1, <2>5, <3>2 DEF Of
  <2>6. Of(t, c) = One(y, RowsWith(c))
    <3>1. u[i] \in RowsWith(c) /\ Len(Kept(u, RowsWith(c))) <= 1
      BY <1>2, <1>5, <1>7 DEF Of
    <3>2. Kept([u EXCEPT ![i] = y], RowsWith(c)) = One(y, RowsWith(c))
      BY <1>6, <1>7, <2>3, <3>1, KeptChanged
    <3> QED BY <2>1, <3>2 DEF Of
  <2>7. Len(Of(t, c)) <= 1
    BY <2>6 DEF One
  <2>8. Unique(t)
    BY <2>5, <2>7 DEF Unique
  <2>9. ASSUME note = "plain" PROVE Of(t, c) # <<>> /\ Of(t, c)[1].cells = Audited(text, kind, c)
    <3>1. y \in RowsWith(c)
      BY <2>3, <2>9 DEF RowsWith
    <3>2. Of(t, c) = <<y>>
      BY <2>6, <3>1 DEF One
    <3> QED BY <1>4, <1>7, <2>3, <3>2
  <2>10. ~ NotedOf(text, c)
    BY <1>4, <1>7, <1>9
  <2> QED BY <2>4, <2>5, <2>8, <2>9, <2>10 DEF t
<1> QED BY <1>8, <1>9

(***************************************************************************)
(* AuditLedger: a text after the marks of all its chapters.                *)
(***************************************************************************)
(* The text after the marks of the first chapters.                         *)
Texts == {t \in Seq(Row) : Unique(t)}
NextText(t, kind, chapters, note, c) == IF c \in chapters THEN MarkedOne(t, kind, c, note) ELSE t
MarkedUpTo(text, kind, chapters, note, f) ==
  f = [c \in Chapter |->
         IF c = 0 THEN text
         ELSE IF c \in chapters THEN MarkedOne(f[c - 1], kind, c, note) ELSE f[c - 1]]
MarkedSteps(text, kind, chapters, note, f) ==
  /\ f[0] = text /\ Marked(text, kind, chapters, note) = f[LastChapter]
  /\ \A c \in Chapters : f[c] = NextText(f[c - 1], kind, chapters, note, c)

LEMMA MarksExist ==
  ASSUME NEW text \in Texts, NEW kind \in Kinds, NEW chapters \in SUBSET Chapters, NEW note \in Notes
  PROVE  \E f : MarkedSteps(text, kind, chapters, note, f)
<1> DEFINE n == LastChapter
           step == [c \in 1 .. n |-> [t \in Texts |-> NextText(t, kind, chapters, note, c)]]
<1>1. n \in Nat
  BY LastChapterIsNat
<1>2. ASSUME NEW c \in 1 .. n, NEW t \in Texts PROVE NextText(t, kind, chapters, note, c) \in Texts
  <2>1. c \in Chapters
    BY DEF Chapters
  <2> QED BY <2>1, MarkedOneIs DEF NextText, Texts
<1>3. step \in [1 .. n -> [Texts -> Texts]]
  BY <1>2
<1>4. ASSUME NEW c \in 1 .. n, NEW t \in Texts PROVE step[c][t] = NextText(t, kind, chapters, note, c)
  OBVIOUS
<1> HIDE DEF step, n
<1>5. PICK f : Iter(f, Texts, n, text, step)
  BY <1>1, <1>3, Recursion
<1>6. f \in [0 .. n -> Texts] /\ f[0] = text
  BY <1>5 DEF Iter
<1>7. \A c \in 1 .. n : f[c] = NextText(f[c - 1], kind, chapters, note, c)
  <2> SUFFICES ASSUME NEW c \in 1 .. n PROVE f[c] = NextText(f[c - 1], kind, chapters, note, c)
    OBVIOUS
  <2>1. f[c - 1] \in Texts /\ f[c] = step[c][f[c - 1]]
    BY <1>1, <1>5, c - 1 \in 0 .. n DEF Iter
  <2> QED BY <1>4, <2>1
<1>8. Chapter = 0 .. n /\ Chapters = 1 .. n
  BY DEF Chapter, Chapters, n
<1>9. MarkedUpTo(text, kind, chapters, note, f)
  <2>1. \A c \in 0 .. n : c # 0 => c \in 1 .. n
    BY <1>1
  <2> QED BY <1>6, <1>7, <1>8, <2>1 DEF MarkedUpTo, NextText
<1> DEFINE h == CHOOSE g : MarkedUpTo(text, kind, chapters, note, g)
<1>10. MarkedUpTo(text, kind, chapters, note, h) /\ Marked(text, kind, chapters, note) = h[n]
  BY <1>9 DEF Marked, MarkedUpTo, n
<1> HIDE DEF h
<1>11. h[0] = text /\ \A c \in 1 .. n : h[c] = NextText(h[c - 1], kind, chapters, note, c)
  <2>1. \A c \in 0 .. n : h[c] = IF c = 0 THEN text ELSE NextText(h[c - 1], kind, chapters, note, c)
    BY <1>8, <1>10 DEF MarkedUpTo, NextText
  <2>2. 0 \in 0 .. n /\ \A c \in 1 .. n : c \in 0 .. n /\ c # 0
    BY <1>1
  <2> QED BY <2>1, <2>2
<1> QED BY <1>8, <1>10, <1>11 DEF MarkedSteps, n

(* What a mark leaves of the rows: those of other chapters as they were,   *)
(* and the verdict in those of the task, unless its note breaks them.      *)
AfterMark(text, kind, chapters, note, t, d) ==
  /\ d \notin chapters => Of(t, d) = Of(text, d)
  /\ d \in chapters /\ (note = "plain" \/ NotedOf(text, d)) =>
       Of(t, d) # <<>> /\ Of(t, d)[1].cells = Audited(text, kind, d)
LEMMA MarkedIs ==
  ASSUME NEW text \in Texts, NEW kind \in Kinds, NEW chapters \in SUBSET Chapters, NEW note \in Notes
  PROVE  LET t == Marked(text, kind, chapters, note) IN
         t \in Texts /\ \A d \in Chapters : AfterMark(text, kind, chapters, note, t, d)
<1> DEFINE n == LastChapter
<1>1. n \in Nat /\ Chapters = 1 .. n
  BY LastChapterIsNat DEF Chapters
<1>2. PICK f : MarkedSteps(text, kind, chapters, note, f)
  BY MarksExist
<1>3. /\ f[0] = text /\ Marked(text, kind, chapters, note) = f[n]
      /\ \A c \in Chapters : f[c] = NextText(f[c - 1], kind, chapters, note, c)
  BY <1>2 DEF MarkedSteps
<1> HIDE DEF n
<1> DEFINE N == {k \in Nat : k <= n =>
             /\ f[k] \in Texts
             /\ \A d \in Chapters : d > k => Of(f[k], d) = Of(text, d)
             /\ \A d \in Chapters : d <= k => AfterMark(text, kind, chapters, note, f[k], d)}
<1>4. 0 \in N
  <2>1. \A d \in Chapters : ~ (d <= 0)
    BY <1>1
  <2> QED BY <1>3, <2>1
<1>5. ASSUME NEW k \in Nat, k \in N PROVE k + 1 \in N
  <2> SUFFICES ASSUME k + 1 <= n
               PROVE  /\ f[k + 1] \in Texts
                      /\ \A d \in Chapters : d > k + 1 => Of(f[k + 1], d) = Of(text, d)
                      /\ \A d \in Chapters : d <= k + 1 => AfterMark(text, kind, chapters, note, f[k + 1], d)
    OBVIOUS
  <2>1. PICK c \in Chapters : c = k + 1 /\ c - 1 = k
    BY <1>1
  <2> DEFINE s == f[k]
             t == f[c]
  <2>2. /\ s \in Texts
        /\ \A d \in Chapters : d > k => Of(s, d) = Of(text, d)
        /\ \A d \in Chapters : d <= k => AfterMark(text, kind, chapters, note, s, d)
    BY <1>1, <1>5
  <2>3. t = NextText(s, kind, chapters, note, c)
    BY <1>3, <2>1
  <2>4. Of(s, c) = Of(text, c)
    BY <2>1, <2>2
  <2>5. \A d \in Chapters : (d > k + 1 => d > k /\ d # c) /\ (d <= k + 1 => d = c \/ (d <= k /\ d # c))
    BY <1>1, <2>1
  <2>6. t = f[k + 1]
    BY <2>1
  <2> HIDE DEF s, t, N
  <2>7. CASE c \notin chapters
    <3>1. t = s
      BY <2>3, <2>7 DEF NextText
    <3>2. AfterMark(text, kind, chapters, note, t, c)
      BY <2>4, <2>7, <3>1 DEF AfterMark
    <3> QED BY <2>2, <2>5, <2>6, <3>1, <3>2
  <2>8. CASE c \in chapters
    <3>1. t = MarkedOne(s, kind, c, note)
      BY <2>3, <2>8 DEF NextText
    <3>2. /\ t \in Seq(Row) /\ Unique(t)
          /\ \A d \in Chapters : d # c => Of(t, d) = Of(s, d)
          /\ note = "plain" \/ NotedOf(s, c) => Of(t, c) # <<>> /\ Of(t, c)[1].cells = Audited(s, kind, c)
      BY <2>2, <3>1, MarkedOneIs DEF Texts
    <3>3. NotedOf(s, c) = NotedOf(text, c) /\ Audited(s, kind, c) = Audited(text, kind, c)
      BY <2>4 DEF NotedOf, Audited, CellsOf
    <3>4. AfterMark(text, kind, chapters, note, t, c)
      BY <2>8, <3>2, <3>3 DEF AfterMark
    <3>5. \A d \in Chapters : d # c /\ AfterMark(text, kind, chapters, note, s, d)
                                => AfterMark(text, kind, chapters, note, t, d)
      BY <3>2 DEF AfterMark
    <3> QED BY <2>2, <2>5, <2>6, <3>2, <3>4, <3>5 DEF Texts
  <2> QED BY <2>7, <2>8
<1> HIDE DEF N
<1>6. Nat \subseteq N
  BY <1>4, <1>5, SetInduction
<1>7. \A d \in Chapters : d <= n
  BY <1>1
<1> QED BY <1>1, <1>3, <1>6, <1>7 DEF N, Texts

(* A chapter of the task whose row is not torn had a note, or the task has *)
(* one line.                                                               *)
LEMMA TornIs ==
  ASSUME NEW text \in Texts, NEW kind, NEW chapters \in SUBSET Chapters, NEW note \in Notes,
         NEW d \in chapters, d \notin Torn(text, kind, chapters, note)
  PROVE  note = "plain" \/ NotedOf(text, d)
<1>1. d \in Chapters /\ text \in Seq(Row) /\ Unique(text)
  BY DEF Texts
<1>2. Found(text, d)
  BY <1>1, RowIsFound DEF Unique
<1> DEFINE i == FirstOf(StatusRows(text), d)
<1>3. ~ (note = "breaking" /\ (i = 0 \/ ~ StatusRows(text)[i].noted))
  BY DEF Torn
<1>4. CASE ~ (note = "breaking")
  BY <1>4 DEF Notes
<1>5. CASE i # 0 /\ StatusRows(text)[i].noted
  <2>1. Of(text, d) # <<>> /\ StatusRows(text)[i] = Of(text, d)[1]
    BY <1>2, <1>5 DEF Found
  <2> QED BY <1>5, <2>1 DEF NotedOf
<1> QED BY <1>3, <1>4, <1>5

(***************************************************************************)
(* AuditLedger: the invariant of the ledger, and the theorem.              *)
(***************************************************************************)
(* What a text tells of what was said, but for broken rows.                *)
Tells(text, said, broken) ==
  \A c \in Chapters \ broken, k \in Kinds :
    said[c][k] # "nothing"
      => Of(text, c) # <<>> /\ Of(text, c)[1].cells[k] = said[c][k]
Verdicts == Statuses \cup {"nothing"}
AfterWrite == [c \in Chapters |-> [k \in Kinds |->
                 IF c \in marking.chapters /\ k = marking.kind THEN "audited" ELSE marking.told[c][k]]]
Underway == [on : {TRUE}, kind : Kinds, chapters : SUBSET Chapters, text : Texts, torn : SUBSET Chapters,
             told : [Chapters -> [Kinds -> Verdicts]]]
(* Both texts tell: the file, and what a mark on its way will write.       *)
LedgerInv ==
  /\ there \in BOOLEAN /\ rows \in Texts
  /\ ~ there => rows = <<>>
  /\ told \in [Chapters -> [Kinds -> Verdicts]]
  /\ Tells(rows, told, torn)
  /\ \/ marking = NoMark
     \/ /\ marking \in Underway /\ there
        /\ Tells(marking.text, AfterWrite, torn \cup marking.torn)

LEMMA EmptyTexts ==
  /\ <<>> \in Texts /\ <<Example>> \in Texts
  /\ \A c \in Chapters : Of(<<>>, c) = <<>> /\ Of(<<Example>>, c) = <<>>
<1>1. Example \in Row
  BY LastChapterIsNat DEF Example, Row, Chapter, Unreviewed, Statuses
<1>2. \A c \in Chapters : Of(<<>>, c) = <<>> /\ Of(<<Example>>, c) = <<>>
  <2> SUFFICES ASSUME NEW c \in Chapters PROVE Of(<<>>, c) = <<>> /\ Of(<<Example>>, c) = <<>>
    OBVIOUS
  <2>1. Example \notin RowsWith(c)
    BY DEF Example, RowsWith, Chapters
  <2> QED BY <1>1, <2>1, KeptEmpty, KeptOne DEF Of, One
<1>3. Len(<<>>) <= 1
  OBVIOUS
<1>4. <<>> \in Seq(Row) /\ <<Example>> \in Seq(Row)
  BY <1>1
<1> QED BY <1>2, <1>3, <1>4 DEF Texts, Unique

LEMMA LedgerBegins == ASSUME LedgerInit PROVE LedgerInv
<1>1. rows \in Texts /\ (~ there => rows = <<>>)
  BY EmptyTexts DEF LedgerInit
<1>2. told \in [Chapters -> [Kinds -> Verdicts]] /\ \A c \in Chapters, k \in Kinds : told[c][k] = "nothing"
  BY DEF LedgerInit, Verdicts
<1> QED BY <1>1, <1>2 DEF LedgerInit, LedgerInv, Tells

(* The row that an agent sees for a chapter.                               *)
SeenIn(text, c) == SelectInSeq(text, LAMBDA r : r.whole /\ r.chapter = c)
LEMMA SeenRow ==
  ASSUME NEW text \in Seq(Row), NEW c, SeenIn(text, c) # 0
  PROVE  SeenIn(text, c) \in 1 .. Len(text) /\ text[SeenIn(text, c)] \in RowsWith(c)
<1> DEFINE K == RowsWith(c)
           i == SeenIn(text, c)
           I == {j \in 1 .. Len(text) : text[j].whole /\ text[j].chapter = c}
<1>1. I = {j \in 1 .. Len(text) : text[j] \in K}
  BY DEF RowsWith
<1>2. i = IF I # {} THEN Min(I) ELSE 0
  BY DEF SelectInSeq, SeenIn
<1>3. FirstPlace(text, K)
  BY FirstOfKept
<1>4. i # 0
  OBVIOUS
<1> HIDE DEF I, i
<1>5. i \in 1 .. Len(text) /\ text[i] \in K
  BY <1>1, <1>2, <1>3, <1>4 DEF FirstPlace
<1> QED BY <1>5 DEF i

(* An agent's word changes no row of another chapter.                      *)
Judged(r, k, s) == [r EXCEPT !.cells = [r.cells EXCEPT ![k] = s]]
EditedTo(text, new, c, k, s) ==
  /\ new \in Texts
  /\ \A d \in Chapters : d # c => Of(new, d) = Of(text, d)
  /\ Of(text, c) # <<>> /\ Of(new, c) # <<>>
  /\ \A m \in Kinds : Of(new, c)[1].cells[m] = IF m = k THEN s ELSE Of(text, c)[1].cells[m]
LEMMA EditedRow ==
  ASSUME NEW text \in Texts, NEW c \in Chapters, NEW k \in Kinds, NEW s \in Statuses,
         NEW i \in 1 .. Len(text), text[i] \in RowsWith(c)
  PROVE  EditedTo(text, [text EXCEPT ![i] = Judged(text[i], k, s)], c, k, s)
<1> DEFINE K == RowsWith(c)
           y == Judged(text[i], k, s)
           new == [text EXCEPT ![i] = y]
<1>1. text \in Seq(Row) /\ Unique(text)
  BY DEF Texts
<1>2. Len(Kept(text, K)) <= 1
  BY <1>1 DEF Unique, Of
<1>3. text[i] \in Row /\ text[i].whole /\ text[i].chapter = c /\ text[i].cells \in [Kinds -> Statuses]
  BY DEF RowsWith, Row
<1>4. [text[i].cells EXCEPT ![k] = s] \in [Kinds -> Statuses]
  BY <1>3
<1>5. y \in Row /\ y.whole /\ y.chapter = c /\ y.cells = [text[i].cells EXCEPT ![k] = s]
  BY <1>3, <1>4 DEF Row, Judged
<1> HIDE DEF y
<1>6. new \in Seq(Row)
  BY <1>1, <1>5
<1>7. ASSUME NEW d \in Chapters, d # c PROVE Of(new, d) = Of(text, d)
  <2>1. text[i] \notin RowsWith(d) /\ y \notin RowsWith(d)
    BY <1>3, <1>5, <1>7 DEF RowsWith
  <2>2. Kept([text EXCEPT ![i] = y], RowsWith(d)) = Kept(text, RowsWith(d))
    BY <1>1, <1>5, <2>1, KeptNotChanged
  <2> QED BY <2>2 DEF Of
<1>8. Of(new, c) = <<y>> /\ Of(text, c) = <<text[i]>>
  <2>1. Kept([text EXCEPT ![i] = y], K) = One(y, K) /\ Kept(text, K) = <<text[i]>>
    BY <1>1, <1>2, <1>5, KeptChanged
  <2>2. y \in K
    BY <1>5 DEF RowsWith
  <2> QED BY <2>1, <2>2 DEF Of, One
<1> HIDE DEF new
<1>9. Unique(new)
  <2>1. Len(<<y>>) <= 1
    OBVIOUS
  <2> QED BY <1>1, <1>7, <1>8, <2>1 DEF Unique
<1>10. \A m \in Kinds : y.cells[m] = IF m = k THEN s ELSE text[i].cells[m]
  BY <1>3, <1>5
<1>11. Of(new, c)[1] = y /\ Of(text, c)[1] = text[i] /\ Of(new, c) # <<>> /\ Of(text, c) # <<>>
  BY <1>8
<1>12. EditedTo(text, new, c, k, s)
  BY <1>6, <1>7, <1>9, <1>10, <1>11 DEF EditedTo, Texts
<1> QED BY <1>12 DEF new, y

(* A mark on its way knows nothing of what is said meanwhile.              *)
LEMMA MarkWaits ==
  ASSUME LedgerInv, marking' = marking, torn' = torn, there' = there
  PROVE  \/ marking' = NoMark
         \/ /\ marking' \in Underway /\ there'
            /\ Tells(marking'.text, AfterWrite', torn' \cup marking'.torn)
<1>1. AfterWrite' = AfterWrite
  BY DEF AfterWrite
<1> HIDE DEF AfterWrite
<1> QED BY <1>1 DEF LedgerInv

LEMMA EditCellKeeps ==
  ASSUME LedgerInv, NEW c \in Chapters, NEW k \in Kinds, NEW s \in Edited, EditCell(c, k, s)
  PROVE  LedgerInv'
<1>1. s \in Statuses
  BY LedgerBounds
<1>2. /\ there /\ UNCHANGED <<there, marking, torn>>
      /\ told' = [told EXCEPT ![c][k] = s]
  BY DEF EditCell
<1>3. /\ rows' \in Texts
      /\ \A d \in Chapters : d # c => Of(rows', d) = Of(rows, d)
      /\ Of(rows, c) # <<>> /\ Of(rows', c) # <<>>
      /\ \A m \in Kinds : Of(rows', c)[1].cells[m] = IF m = k THEN s ELSE Of(rows, c)[1].cells[m]
  <2> DEFINE i == SeenIn(rows, c)
             new == [rows EXCEPT ![i] = Judged(rows[i], k, s)]
  <2>1. i # 0 /\ rows' = [rows EXCEPT ![i].cells[k] = s]
    BY DEF EditCell, SeenIn
  <2>2. rows' = new
    BY <2>1 DEF Judged
  <2>3. rows \in Seq(Row) /\ rows \in Texts
    BY DEF LedgerInv, Texts
  <2>4. i \in 1 .. Len(rows) /\ rows[i] \in RowsWith(c)
    BY <2>1, <2>3, SeenRow
  <2> HIDE DEF i
  <2>5. EditedTo(rows, [rows EXCEPT ![i] = Judged(rows[i], k, s)], c, k, s)
    BY <1>1, <2>3, <2>4, EditedRow
  <2>6. EditedTo(rows, rows', c, k, s)
    BY <2>2, <2>5
  <2> QED BY <2>6 DEF EditedTo
<1>4. /\ told' \in [Chapters -> [Kinds -> Verdicts]]
      /\ \A d \in Chapters, m \in Kinds : told'[d][m] = IF d = c /\ m = k THEN s ELSE told[d][m]
  BY <1>1, <1>2 DEF LedgerInv, Verdicts
<1>6. Tells(rows', told', torn')
  <2> SUFFICES ASSUME NEW d \in Chapters \ torn, NEW m \in Kinds, told'[d][m] # "nothing"
               PROVE  Of(rows', d) # <<>> /\ Of(rows', d)[1].cells[m] = told'[d][m]
    BY <1>2 DEF Tells
  <2>1. CASE d = c /\ m = k
    BY <1>3, <1>4, <2>1
  <2>2. CASE ~ (d = c /\ m = k)
    <3>1. told'[d][m] = told[d][m]
      BY <1>4, <2>2
    <3>2. Of(rows, d) # <<>> /\ Of(rows, d)[1].cells[m] = told[d][m]
      BY <3>1 DEF LedgerInv, Tells
    <3> QED BY <1>3, <2>2, <3>1, <3>2
  <2> QED BY <2>1, <2>2
<1>7. \/ marking' = NoMark
      \/ /\ marking' \in Underway /\ there'
         /\ Tells(marking'.text, AfterWrite', torn' \cup marking'.torn)
  BY <1>2, MarkWaits
<1>8. there' \in BOOLEAN /\ (~ there' => rows' = <<>>)
  BY <1>2 DEF LedgerInv
<1> QED BY <1>3, <1>4, <1>6, <1>7, <1>8 DEF LedgerInv

LEMMA AddRowKeeps ==
  ASSUME LedgerInv, NEW c \in Chapters, NEW k \in Kinds, NEW s \in Edited, AddRow(c, k, s)
  PROVE  LedgerInv'
<1> DEFINE cells == [Unreviewed EXCEPT ![k] = s]
           x == [chapter |-> c, cells |-> cells, noted |-> FALSE, whole |-> TRUE]
<1>1. cells \in [Kinds -> Statuses]
  BY LedgerBounds DEF Unreviewed, Statuses
<1>2. /\ there /\ UNCHANGED <<there, marking, torn>>
      /\ c \notin ChaptersOf(StatusRows(rows))
      /\ rows' = Append(rows, x)
      /\ told' = [told EXCEPT ![c] = cells]
  BY DEF AddRow
<1> HIDE DEF cells
<1>3. x \in Row /\ x \in RowsWith(c) /\ x.cells = cells /\ \A d \in Chapters : d # c => x \notin RowsWith(d)
  <2>1. c \in Chapter
    BY DEF Chapter, Chapters
  <2> QED BY <1>1, <2>1 DEF Row, RowsWith
<1> HIDE DEF x
<1>4. rows \in Seq(Row) /\ Unique(rows)
  BY DEF LedgerInv, Texts
<1>5. Of(rows, c) = <<>>
  <2>1. Found(rows, c)
    BY <1>4, RowIsFound DEF Unique
  <2>2. \A j \in DOMAIN StatusRows(rows) : StatusRows(rows)[j].chapter # c
    BY <1>2 DEF ChaptersOf
  <2>3. DOMAIN StatusRows(rows) = 1 .. Len(StatusRows(rows))
    BY <1>4, StatusRowsAre
  <2> QED BY <2>1, <2>2, <2>3 DEF Found
<1>6. \A K : Kept(rows', K) = IF x \in K THEN Append(Kept(rows, K), x) ELSE Kept(rows, K)
  BY <1>2, <1>3, <1>4, KeptAppend
<1>7. Of(rows', c) = <<x>> /\ \A d \in Chapters : d # c => Of(rows', d) = Of(rows, d)
  <2>1. Of(rows', c) = Append(<<>>, x)
    BY <1>3, <1>5, <1>6 DEF Of
  <2> QED BY <1>3, <1>6, <2>1 DEF Of
<1>8. rows' \in Texts
  <2>1. rows' \in Seq(Row)
    BY <1>2, <1>3, <1>4
  <2>2. Len(<<x>>) <= 1
    OBVIOUS
  <2> QED BY <1>4, <1>7, <2>1, <2>2 DEF Texts, Unique
<1>9. /\ told' \in [Chapters -> [Kinds -> Verdicts]]
      /\ \A d \in Chapters, m \in Kinds : told'[d][m] = IF d = c THEN cells[m] ELSE told[d][m]
  <2>1. cells \in [Kinds -> Verdicts]
    BY <1>1 DEF Verdicts
  <2> QED BY <1>2, <2>1 DEF LedgerInv
<1>11. Tells(rows', told', torn')
  <2> SUFFICES ASSUME NEW d \in Chapters \ torn, NEW m \in Kinds, told'[d][m] # "nothing"
               PROVE  Of(rows', d) # <<>> /\ Of(rows', d)[1].cells[m] = told'[d][m]
    BY <1>2 DEF Tells
  <2>1. CASE d = c
    <3>1. Of(rows', c) # <<>> /\ Of(rows', c)[1] = x
      BY <1>7
    <3> QED BY <1>3, <1>9, <2>1, <3>1
  <2>2. CASE d # c
    <3>1. told'[d][m] = told[d][m]
      BY <1>9, <2>2
    <3>2. Of(rows, d) # <<>> /\ Of(rows, d)[1].cells[m] = told[d][m]
      BY <3>1 DEF LedgerInv, Tells
    <3> QED BY <1>7, <2>2, <3>1, <3>2
  <2> QED BY <2>1, <2>2
<1>12. \/ marking' = NoMark
       \/ /\ marking' \in Underway /\ there'
          /\ Tells(marking'.text, AfterWrite', torn' \cup marking'.torn)
  BY <1>2, MarkWaits
<1>13. there' \in BOOLEAN /\ (~ there' => rows' = <<>>)
  BY <1>2 DEF LedgerInv
<1> QED BY <1>8, <1>9, <1>11, <1>12, <1>13 DEF LedgerInv

LEMMA ReadKeeps ==
  ASSUME LedgerInv, NEW kind \in Kinds, NEW chapters \in SUBSET Chapters, NEW note \in Notes,
         ReadForMark(kind, chapters, note)
  PROVE  LedgerInv'
<1> DEFINE t == Marked(Ensured, kind, chapters, note)
           broken == Torn(Ensured, kind, chapters, note)
<1>1. /\ there' = TRUE /\ rows' = Ensured /\ UNCHANGED <<told, torn>>
      /\ marking' = [on |-> TRUE, kind |-> kind, chapters |-> chapters, text |-> t, torn |-> broken,
                   told |-> told]
  BY DEF ReadForMark
<1>2. Ensured \in Texts /\ \A c \in Chapters : Of(Ensured, c) = Of(rows, c)
  BY EmptyTexts DEF Ensured, LedgerInv
<1>3. Tells(Ensured, told, torn)
  BY <1>2 DEF LedgerInv, Tells
<1>4. t \in Texts /\ \A d \in Chapters : AfterMark(Ensured, kind, chapters, note, t, d)
  BY <1>2, MarkedIs
<1>5. broken \in SUBSET Chapters
  BY DEF Torn
<1>6. \A d \in chapters : d \notin broken => note = "plain" \/ NotedOf(Ensured, d)
  BY <1>2, TornIs
<1> HIDE DEF t, broken
<1>7. marking' \in Underway
  <2>1. told \in [Chapters -> [Kinds -> Verdicts]]
    BY DEF LedgerInv
  <2> QED BY <1>1, <1>4, <1>5, <2>1 DEF Underway
<1>8. /\ marking'.kind = kind /\ marking'.chapters = chapters /\ marking'.text = t /\ marking'.torn = broken
      /\ marking'.told = told
  BY <1>1
<1>9. \A c \in Chapters, k \in Kinds :
        AfterWrite'[c][k] = IF c \in chapters /\ k = kind THEN "audited" ELSE told[c][k]
  BY <1>1, <1>8 DEF AfterWrite
<1>10. Tells(t, AfterWrite', torn \cup broken)
  <2> SUFFICES ASSUME NEW c \in Chapters \ (torn \cup broken), NEW k \in Kinds,
                      AfterWrite'[c][k] # "nothing"
               PROVE  Of(t, c) # <<>> /\ Of(t, c)[1].cells[k] = AfterWrite'[c][k]
    BY DEF Tells
  <2>1. CASE c \notin chapters
    <3>1. Of(t, c) = Of(Ensured, c)
      BY <1>4, <2>1 DEF AfterMark
    <3> QED BY <1>3, <1>9, <2>1, <3>1 DEF Tells
  <2>2. CASE c \in chapters
    <3>1. Of(t, c) # <<>> /\ Of(t, c)[1].cells = Audited(Ensured, kind, c)
      BY <1>4, <1>6, <2>2 DEF AfterMark
    <3>2. CellsOf(Ensured, c) \in [Kinds -> Statuses]
      BY <1>2, MarkingIsARow DEF Texts
    <3>3. Audited(Ensured, kind, c)[k] = IF k = kind THEN "audited" ELSE CellsOf(Ensured, c)[k]
      BY <3>2 DEF Audited
    <3>4. CASE k = kind
      BY <1>9, <2>2, <3>1, <3>3, <3>4
    <3>5. CASE k # kind
      <4>1. told[c][k] # "nothing" /\ AfterWrite'[c][k] = told[c][k]
        BY <1>9, <3>5
      <4>2. Of(Ensured, c) # <<>> /\ Of(Ensured, c)[1].cells[k] = told[c][k]
        BY <1>3, <4>1 DEF Tells
      <4> QED BY <3>1, <3>3, <3>5, <4>1, <4>2 DEF CellsOf
    <3> QED BY <3>4, <3>5
  <2> QED BY <2>1, <2>2
<1>11. told' \in [Chapters -> [Kinds -> Verdicts]]
  BY <1>1 DEF LedgerInv
<1> HIDE DEF AfterWrite, Ensured
<1> QED BY <1>1, <1>2, <1>3, <1>7, <1>8, <1>10, <1>11 DEF LedgerInv

LEMMA WriteKeeps == ASSUME LedgerInv, WriteMark PROVE LedgerInv'
<1>1. /\ marking.on /\ rows' = marking.text /\ told' = AfterWrite
      /\ torn' = torn \cup marking.torn /\ marking' = NoMark /\ UNCHANGED there
  BY DEF WriteMark, AfterWrite
<1>2. /\ marking \in Underway /\ there
      /\ Tells(marking.text, AfterWrite, torn \cup marking.torn)
  BY <1>1 DEF LedgerInv, NoMark
<1>3. told' \in [Chapters -> [Kinds -> Verdicts]]
  <2>1. \A c \in Chapters, k \in Kinds :
          (IF c \in marking.chapters /\ k = marking.kind THEN "audited" ELSE marking.told[c][k]) \in Verdicts
    BY <1>2 DEF Underway, Verdicts, Statuses
  <2> QED BY <1>1, <2>1 DEF AfterWrite
<1>4. rows' \in Texts
  BY <1>1, <1>2 DEF Underway
<1> QED BY <1>1, <1>2, <1>3, <1>4 DEF LedgerInv

LEMMA LedgerKeeps == ASSUME LedgerInv, [LedgerNext]_ledgerVars PROVE LedgerInv'
<1>1. CASE UNCHANGED ledgerVars
  BY <1>1 DEF ledgerVars, LedgerInv, Tells, AfterWrite
<1>2. CASE \E kind \in Kinds, chapters \in SUBSET Chapters, note \in Notes :
             ReadForMark(kind, chapters, note)
  BY <1>2, ReadKeeps
<1>3. CASE WriteMark
  BY <1>3, WriteKeeps
<1>4. CASE FailMark
  BY <1>4 DEF FailMark, LedgerInv, Tells
<1>5. CASE \E c \in Chapters, k \in Kinds, s \in Edited : EditCell(c, k, s) \/ AddRow(c, k, s)
  BY <1>5, EditCellKeeps, AddRowKeeps
<1>6. CASE AddRemarks
  BY <1>6 DEF AddRemarks, LedgerInv, Tells, AfterWrite
<1>7. CASE Query
  <2>1. ~ there /\ there' = TRUE /\ rows' = <<Example>> /\ UNCHANGED <<marking, told, torn>>
    BY <1>7 DEF Query
  <2>2. marking = NoMark /\ marking' = NoMark
    BY <2>1 DEF LedgerInv
  <2>3. Tells(rows', told', torn')
    <3>1. \A c \in Chapters : Of(rows', c) = Of(rows, c)
      BY <2>1, EmptyTexts DEF LedgerInv
    <3> QED BY <2>1, <3>1 DEF LedgerInv, Tells
  <2> QED BY <2>1, <2>2, <2>3, EmptyTexts DEF LedgerInv
<1> QED BY <1>1, <1>2, <1>3, <1>4, <1>5, <1>6, <1>7 DEF LedgerNext

(* What the readers say follows from the row of each chapter.              *)
LEMMA ReadersTell == ASSUME LedgerInv PROVE LedgerTellsTheLast
<1> SUFFICES ASSUME NEW c \in Chapters \ torn, NEW k \in Kinds, told[c][k] # "nothing"
             PROVE  /\ QueryChapter(c) # <<>> /\ QueryChapter(c)[1][k] = told[c][k]
                    /\ (c \in Pending(k)) = (told[c][k] \notin {"passed", "not needed"})
                    /\ c \in Pending(k) => c \in ListPending("any")
                    /\ c \in Pending("pa") => c \in ProgressHint.pending
                    /\ told[c][k] = "passed" => ProgressHint.passed[k] >= c
  BY DEF LedgerTellsTheLast
<1> DEFINE r == StatusRows(rows)
           i == FirstOf(r, c)
<1>1. Of(rows, c) # <<>> /\ Of(rows, c)[1].cells[k] = told[c][k]
  BY DEF LedgerInv, Tells
<1>2. rows \in Seq(Row) /\ Unique(rows)
  BY DEF LedgerInv, Texts
<1>3. Found(rows, c)
  BY <1>2, RowIsFound DEF Unique
<1>4. /\ i # 0 /\ i \in 1 .. Len(r) /\ r[i] = Of(rows, c)[1] /\ r[i].chapter = c
      /\ \A j \in 1 .. Len(r) : r[j].chapter = c => r[j] = Of(rows, c)[1]
  BY <1>1, <1>3 DEF Found
<1>5. DOMAIN r = 1 .. Len(r)
  BY <1>2, StatusRowsAre
<1>6. QueryChapter(c) = <<r[i].cells>>
  BY <1>4 DEF QueryChapter
<1> HIDE DEF r, i
<1>7. QueryChapter(c) # <<>> /\ QueryChapter(c)[1][k] = told[c][k]
  BY <1>1, <1>4, <1>6
<1>8. (c \in Pending(k)) = (told[c][k] \notin {"passed", "not needed"})
  <2>1. r[i].cells[k] = told[c][k]
    BY <1>1, <1>4
  <2>2. c \in Pending(k) <=> \E j \in DOMAIN r : r[j].chapter = c /\ r[j].cells[k] \notin {"passed", "not needed"}
    BY DEF Pending, r
  <2>3. ASSUME c \in Pending(k) PROVE told[c][k] \notin {"passed", "not needed"}
    <3>1. PICK j \in DOMAIN r : r[j].chapter = c /\ r[j].cells[k] \notin {"passed", "not needed"}
      BY <2>2, <2>3
    <3>2. r[j] = r[i]
      BY <1>4, <1>5, <3>1
    <3> QED BY <2>1, <3>1, <3>2
  <2>4. ASSUME told[c][k] \notin {"passed", "not needed"} PROVE c \in Pending(k)
    BY <1>4, <1>5, <2>1, <2>2, <2>4
  <2> HIDE DEF Pending
  <2>5. (c \in Pending(k)) \in BOOLEAN /\ (told[c][k] \notin {"passed", "not needed"}) \in BOOLEAN
    OBVIOUS
  <2> QED BY <2>3, <2>4, <2>5
<1>9. (c \in Pending(k) => c \in ListPending("any")) /\ (c \in Pending("pa") => c \in ProgressHint.pending)
  BY DEF ListPending, ProgressHint
<1>10. ASSUME told[c][k] = "passed" PROVE ProgressHint.passed[k] >= c
  <2> DEFINE passed == {d \in Chapters : \E j \in DOMAIN r : r[j].chapter = d /\ r[j].cells[k] = "passed"}
  <2>1. c \in passed
    BY <1>1, <1>4, <1>5, <1>10
  <2>2. passed \subseteq 0 .. LastChapter /\ LastChapter \in Nat
    BY LastChapterIsNat DEF Chapters
  <2>3. PassedThrough(k) = IF passed = {} THEN 0 ELSE Max(passed)
    BY DEF PassedThrough, r
  <2> HIDE DEF passed
  <2>4. Max(passed) \in passed /\ \A j \in passed : j <= Max(passed)
    BY <2>1, <2>2, MaxOfBounded
  <2>5. ProgressHint.passed[k] = PassedThrough(k)
    BY DEF ProgressHint
  <2>7. \A j \in passed : j \in Nat
    <3>1. \A j \in 0 .. LastChapter : j \in Nat
      OBVIOUS
    <3> QED BY <2>2, <3>1
  <2>8. c <= Max(passed)
    BY <2>1, <2>4
  <2>6. c <= Max(passed) /\ c \in Nat /\ Max(passed) \in Nat
    BY <2>1, <2>4, <2>7, <2>8
  <2> QED BY <2>1, <2>3, <2>5, <2>6
<1> QED BY <1>7, <1>8, <1>9, <1>10

(* The ledger of audits answers with the last that was said of a chapter,  *)
(* whatever marks (mark_audited) rebuild its table in between: a mark puts *)
(* it back to what was said before its read, with its own verdict added,   *)
(* and nothing else is lost.  Not claimed of rows that a note has broken.  *)
THEOREM TheLedgerTellsTheLast == LedgerSpec => []LedgerTellsTheLast
<1>1. LedgerInit => LedgerInv
  BY LedgerBegins
<1>2. LedgerInv /\ [LedgerNext]_ledgerVars => LedgerInv'
  BY LedgerKeeps
<1>3. LedgerInv => LedgerTellsTheLast
  BY ReadersTell
<1> QED BY <1>1, <1>2, <1>3, PTL DEF LedgerSpec

(***************************************************************************)
(* CharacterCards: tables, rows, and the last row of a pair.               *)
(***************************************************************************)
(* What the cards are: tables of rows, each table once.                    *)
CardTable == [name : Tables, rows : Seq(CardRow)]
Card == {s \in Seq(CardTable) : \A i, j \in 1 .. Len(s) : s[i].name = s[j].name => i = j}
CardTypes == cards \in [Names -> Card]

LEMMA TablesOfCard ==
  ASSUME CardTypes, NEW n \in Names
  PROVE  /\ cards[n] \in Seq(CardTable) /\ DOMAIN cards[n] = 1 .. Len(cards[n])
         /\ \A i \in 1 .. Len(cards[n]) : /\ cards[n][i] \in CardTable
                                          /\ cards[n][i].name \in Tables
                                          /\ cards[n][i].rows \in Seq(CardRow)
         /\ \A i, j \in 1 .. Len(cards[n]) : cards[n][i].name = cards[n][j].name => i = j
<1>1. cards[n] \in Seq(CardTable) /\ \A i, j \in 1 .. Len(cards[n]) : cards[n][i].name = cards[n][j].name => i = j
  BY DEF CardTypes, Card
<1>2. \A i \in 1 .. Len(cards[n]) : cards[n][i] \in CardTable
  BY <1>1
<1>3. DOMAIN cards[n] = 1 .. Len(cards[n])
  BY <1>1
<1> QED BY <1>1, <1>2, <1>3 DEF CardTable

LEMMA TableOf ==
  ASSUME CardTypes, NEW n \in Names, NEW t, HasTable(n, t)
  PROVE  /\ At(n, t) \in 1 .. Len(cards[n]) /\ cards[n][At(n, t)].name = t /\ t \in Tables
         /\ RowsOf(n, t) = cards[n][At(n, t)].rows
<1>1. \E i \in DOMAIN cards[n] : cards[n][i].name = t
  BY DEF HasTable
<1>2. At(n, t) \in DOMAIN cards[n] /\ cards[n][At(n, t)].name = t
  BY <1>1 DEF At
<1> QED BY <1>2, TablesOfCard DEF RowsOf

LEMMA RowsOfTable ==
  ASSUME CardTypes, NEW n \in Names, NEW t
  PROVE  RowsOf(n, t) \in Seq(CardRow)
<1>1. CASE HasTable(n, t)
  BY <1>1, TableOf, TablesOfCard
<1>2. CASE ~ HasTable(n, t)
  BY <1>2 DEF RowsOf
<1> QED BY <1>1, <1>2

PartsOf(card) == [i \in DOMAIN card |-> card[i].rows]
LEMMA PartsOfCard ==
  ASSUME CardTypes, NEW n \in Names
  PROVE  /\ PartsOf(cards[n]) \in Seq(Seq(CardRow)) /\ Len(PartsOf(cards[n])) = Len(cards[n])
         /\ \A i \in 1 .. Len(cards[n]) : PartsOf(cards[n])[i] = cards[n][i].rows
         /\ AllRows(n) = Joined(PartsOf(cards[n])) /\ AllRows(n) \in Seq(CardRow)
<1>1. AllRows(n) = Joined(PartsOf(cards[n]))
  BY DEF AllRows, PartsOf
<1> DEFINE L == Len(cards[n])
           p == PartsOf(cards[n])
<1>2. L \in Nat /\ \A i \in 1 .. L : cards[n][i].rows \in Seq(CardRow)
  BY TablesOfCard
<1>3. p = [i \in 1 .. L |-> cards[n][i].rows]
  BY TablesOfCard DEF PartsOf
<1> HIDE DEF p, L
<1>4. p \in Seq(Seq(CardRow)) /\ Len(p) = L /\ \A i \in 1 .. L : p[i] = cards[n][i].rows
  BY <1>2, <1>3
<1>5. Joined(p) \in Seq(CardRow)
  BY <1>4, JoinedType
<1> QED BY <1>1, <1>4, <1>5 DEF p, L

---------------------------------------------------------------------------
(* The last row with a cell is the last of the rows with it.               *)
WithCell(w) == {r \in CardRow : r.cell = w}
LastPlace(list, w) == SelectLastInSeq(list, LAMBDA r : r.cell = w)
LEMMA WithIs ==
  ASSUME NEW list \in Seq(CardRow), NEW w
  PROVE  With(list, w) = Kept(list, WithCell(w)) /\ With(list, w) \in Seq(CardRow)
<1> DEFINE J == {r \in ToSet(list) : r.cell = w}
<1>1. \A i \in 1 .. Len(list) : list[i] \in J <=> list[i] \in WithCell(w)
  BY DEF WithCell, ToSet
<1> HIDE DEF J
<1>2. Kept(list, J) = Kept(list, WithCell(w))
  BY <1>1, KeptAgree
<1>3. With(list, w) = Kept(list, J)
  BY DEF With, J
<1>4. Kept(list, WithCell(w)) \in Seq(CardRow)
  BY KeptType
<1> QED BY <1>2, <1>3, <1>4

LEMMA LastPlaceIs ==
  ASSUME NEW list \in Seq(CardRow), NEW w
  PROVE  /\ (LastPlace(list, w) = 0) = (Kept(list, WithCell(w)) = <<>>)
         /\ LastPlace(list, w) # 0 => /\ LastPlace(list, w) \in 1 .. Len(list)
                                      /\ list[LastPlace(list, w)] = Last(Kept(list, WithCell(w)))
<1> DEFINE I == {i \in 1 .. Len(list) : list[i] \in WithCell(w)}
           J == {i \in 1 .. Len(list) : list[i].cell = w}
<1>1. I = J
  BY DEF WithCell
<1>2. LastPlace(list, w) = IF J # {} THEN Max(J) ELSE 0
  BY DEF LastPlace, SelectLastInSeq
<1>3. /\ (I = {}) = (Kept(list, WithCell(w)) = <<>>)
      /\ I # {} => Max(I) \in I /\ list[Max(I)] = Last(Kept(list, WithCell(w)))
  BY LastOfKept
<1>4. \A i \in I : i # 0 /\ i \in 1 .. Len(list)
  OBVIOUS
<1> HIDE DEF I, J
<1> QED BY <1>1, <1>2, <1>3, <1>4

(* What the index has of a pair, by the rows of the speaker's card.        *)
RowFrom(list, n, w) ==
  IF n \in Names /\ w \in Cells /\ LastPlace(list, w) # 0
  THEN <<[chapter |-> list[LastPlace(list, w)].chapter, speaker |-> n, object |-> w]>> ELSE <<>>
LEMMA RowFromIs ==
  /\ \A n, w : RelationRow(n, w) = RowFrom(AllRows(n), n, w)
  /\ \A n, w : RelationRow(n, w)' = RowFrom(AllRows(n)', n, w)
<1>1. \A n, w : LastWith(n, w) = LastPlace(AllRows(n), w)
  BY DEF LastWith, LastPlace, SelectLastInSeq
<1>2. \A n, w : LastWith(n, w)' = LastPlace(AllRows(n)', w)
  BY DEF LastWith, LastPlace, SelectLastInSeq
<1>3. \A n, w : RelationRow(n, w) = RowFrom(AllRows(n), n, w)
  BY <1>1 DEF RelationRow, RowFrom
<1>4. \A n, w : RelationRow(n, w)' = RowFrom(AllRows(n)', n, w)
  BY <1>2 DEF RelationRow, RowFrom
<1> QED BY <1>3, <1>4

PairRows(n, w) == {r \in Relation : r.speaker = n /\ r.object = w}
LEMMA RelationRowIs ==
  ASSUME CardTypes, NEW n, NEW w
  PROVE  /\ RelationRow(n, w) \in Seq(Relation)
         /\ \A m, v : Kept(RelationRow(n, w), PairRows(m, v)) =
                        IF m = n /\ v = w THEN RelationRow(n, w) ELSE <<>>
<1>1. CASE RelationRow(n, w) = <<>>
  <2>1. <<>> \in Seq(Relation)
    OBVIOUS
  <2> QED BY <1>1, <2>1, KeptEmpty
<1>2. CASE RelationRow(n, w) # <<>>
  <2> DEFINE list == AllRows(n)
             x == [chapter |-> list[LastPlace(list, w)].chapter, speaker |-> n, object |-> w]
  <2>1. n \in Names /\ w \in Cells /\ LastPlace(list, w) # 0 /\ RelationRow(n, w) = <<x>>
    BY <1>2, RowFromIs DEF RowFrom
  <2>2. list \in Seq(CardRow)
    BY <2>1, PartsOfCard
  <2>3. LastPlace(list, w) \in 1 .. Len(list)
    BY <2>1, <2>2, LastPlaceIs
  <2>4. list[LastPlace(list, w)] \in CardRow
    BY <2>2, <2>3
  <2>5. x \in Relation /\ x.speaker = n /\ x.object = w
    BY <2>1, <2>4 DEF Relation, CardRow
  <2> HIDE DEF x
  <2>6. ASSUME NEW m, NEW v
        PROVE  Kept(<<x>>, PairRows(m, v)) = IF m = n /\ v = w THEN <<x>> ELSE <<>>
    <3>1. x \in PairRows(m, v) <=> m = n /\ v = w
      BY <2>5 DEF PairRows
    <3> QED BY <2>5, <3>1, KeptOne DEF One
  <2>7. <<x>> \in Seq(Relation)
    BY <2>5
  <2> QED BY <2>1, <2>6, <2>7
<1> QED BY <1>1, <1>2

(***************************************************************************)
(* CharacterCards: the index that is derived from the cards.               *)
(***************************************************************************)
(* A finite set of numbers has a greatest one.                             *)
LEMMA BoundOfFinite ==
  ASSUME NEW S \in SUBSET Nat, IsFiniteSet(S)
  PROVE  \E b \in Nat : \A x \in S : x <= b
<1>1. PICK n \in Nat : ExistsSurjection(1 .. n, S)
  BY FS_NatSurjection
<1>2. PICK f \in [1 .. n -> S] : \A x \in S : \E i \in 1 .. n : f[i] = x
  BY <1>1 DEF ExistsSurjection, Surjection
<1> DEFINE N == {k \in Nat : k <= n => \E b \in Nat : \A i \in 1 .. k : f[i] <= b}
<1>3. 0 \in N
  <2>1. \A i \in 1 .. 0 : f[i] <= 0
    OBVIOUS
  <2> QED BY <2>1
<1>4. ASSUME NEW k \in Nat, k \in N PROVE k + 1 \in N
  <2> SUFFICES ASSUME k + 1 <= n PROVE \E b \in Nat : \A i \in 1 .. k + 1 : f[i] <= b
    OBVIOUS
  <2>1. PICK b \in Nat : \A i \in 1 .. k : f[i] <= b
    BY <1>4
  <2>2. f[k + 1] \in Nat /\ \A i \in 1 .. k : f[i] \in Nat
    <3>1. k + 1 \in 1 .. n /\ \A i \in 1 .. k : i \in 1 .. n
      OBVIOUS
    <3> QED BY <1>2, <3>1
  <2>3. \A i \in 1 .. k + 1 : i \in 1 .. k \/ i = k + 1
    OBVIOUS
  <2>4. \A i \in 1 .. k + 1 : f[i] <= b + f[k + 1]
    BY <2>1, <2>2, <2>3
  <2> QED BY <2>2, <2>4
<1> HIDE DEF N
<1>5. Nat \subseteq N
  BY <1>3, <1>4, SetInduction
<1>6. PICK b \in Nat : \A i \in 1 .. n : f[i] <= b
  <2>1. n \in N
    BY <1>5
  <2> QED BY <2>1 DEF N
<1> QED BY <1>2, <1>6

LEMMA GreatestOfFinite ==
  ASSUME NEW S \in SUBSET Nat, IsFiniteSet(S)
  PROVE  Greatest(S) \in Nat /\ (S # {} => Greatest(S) \in S) /\ \A x \in S : x <= Greatest(S)
<1>1. CASE S = {}
  BY <1>1 DEF Greatest
<1>2. CASE S # {}
  <2>1. PICK b \in Nat : \A x \in S : x <= b
    BY BoundOfFinite
  <2>2. S \subseteq 0 .. b
    BY <2>1
  <2> QED BY <1>2, <2>1, <2>2, MaxOfBounded DEF Greatest
<1> QED BY <1>1, <1>2

(* Every name and every second cell is one of the numbers that relation_index *)
(* goes through.                                                           *)
LEMMA NumbersOfCells ==
  /\ Greatest(Names) \in Nat /\ Greatest(Cells) \in Nat
  /\ \A n \in Names : n \in Nat /\ n # 0 /\ n \in 1 .. Greatest(Names) /\ n \in Cells
  /\ \A w \in Cells : w \in Nat /\ w # 0 /\ w \in 1 .. Greatest(Cells)
<1>1. Names \in SUBSET Nat /\ Cells \in SUBSET Nat /\ IsFiniteSet(Names) /\ IsFiniteSet(Cells)
  BY CardBounds, FS_Union DEF Cells
<1>2. 0 \notin Names /\ 0 \notin Cells
  BY CardBounds DEF Cells
<1>3. Greatest(Names) \in Nat /\ \A n \in Names : n <= Greatest(Names)
  BY <1>1, GreatestOfFinite
<1>4. Greatest(Cells) \in Nat /\ \A n \in Cells : n <= Greatest(Cells)
  BY <1>1, GreatestOfFinite
<1>5. Names \subseteq Cells
  BY DEF Cells
<1> QED BY <1>1, <1>2, <1>3, <1>4, <1>5

---------------------------------------------------------------------------
(* The index that relation_index derives has of a pair the one row that    *)
(* the card of the speaker tells.                                          *)
RowsFor(n) == [w \in 1 .. Greatest(Cells) |-> RelationRow(n, w)]
LEMMA RowsForOne ==
  ASSUME CardTypes, NEW n
  PROVE  /\ Joined(RowsFor(n)) \in Seq(Relation)
         /\ \A m, v \in Names :
              Kept(Joined(RowsFor(n)), PairRows(m, v)) = IF m = n THEN RelationRow(n, v) ELSE <<>>
<1> DEFINE L == Greatest(Cells)
           p == RowsFor(n)
<1>1. L \in Nat
  BY NumbersOfCells
<1>2. \A w : RelationRow(n, w) \in Seq(Relation)
  BY RelationRowIs
<1>3. p = [w \in 1 .. L |-> RelationRow(n, w)]
  BY DEF RowsFor
<1> HIDE DEF L, p
<1>4. p \in Seq(Seq(Relation)) /\ Len(p) = L /\ \A w \in 1 .. L : p[w] = RelationRow(n, w)
  BY <1>1, <1>2, <1>3
<1>5. Joined(p) \in Seq(Relation)
  BY <1>4, JoinedType
<1>6. ASSUME NEW m \in Names, NEW v \in Names
      PROVE  Kept(Joined(p), PairRows(m, v)) = IF m = n THEN RelationRow(n, v) ELSE <<>>
  <2>1. v \in 1 .. L /\ v \in Nat
    BY NumbersOfCells DEF L
  <2>2. \A w \in 1 .. L : Kept(p[w], PairRows(m, v)) = IF m = n /\ v = w THEN RelationRow(n, w) ELSE <<>>
    BY <1>4, RelationRowIs
  <2>3. \A w \in 1 .. Len(p) : w # v => Kept(p[w], PairRows(m, v)) = <<>>
    BY <1>4, <2>2
  <2>4. Kept(Joined(p), PairRows(m, v)) = IF v \in 1 .. Len(p) THEN Kept(p[v], PairRows(m, v)) ELSE <<>>
    BY <1>4, <2>1, <2>3, JoinedKept
  <2> QED BY <1>4, <2>1, <2>2, <2>4
<1> QED BY <1>5, <1>6 DEF p

LEMMA DerivedIs ==
  ASSUME CardTypes
  PROVE  /\ Derived \in Seq(Relation)
         /\ \A n, w \in Names : Kept(Derived, PairRows(n, w)) = RelationRow(n, w)
<1> DEFINE L == Greatest(Names)
           p == [n \in 1 .. L |-> Joined(RowsFor(n))]
<1>1. L \in Nat
  BY NumbersOfCells
<1>2. \A n : Joined(RowsFor(n)) \in Seq(Relation)
  BY RowsForOne
<1>3. Derived = Joined(p)
  BY DEF Derived, RowsFor
<1> HIDE DEF L
<1>4. p \in Seq(Seq(Relation)) /\ Len(p) = L /\ \A n \in 1 .. L : p[n] = Joined(RowsFor(n))
  BY <1>1, <1>2
<1> HIDE DEF p
<1>5. Joined(p) \in Seq(Relation)
  BY <1>4, JoinedType
<1>6. ASSUME NEW n \in Names, NEW w \in Names
      PROVE  Kept(Joined(p), PairRows(n, w)) = RelationRow(n, w)
  <2>1. n \in 1 .. L /\ n \in Nat
    BY NumbersOfCells DEF L
  <2>2. \A m : Kept(Joined(RowsFor(m)), PairRows(n, w)) = IF n = m THEN RelationRow(m, w) ELSE <<>>
    BY RowsForOne
  <2>3. \A m \in 1 .. Len(p) : m # n => Kept(p[m], PairRows(n, w)) = <<>>
    BY <1>4, <2>2
  <2>4. Kept(Joined(p), PairRows(n, w)) = IF n \in 1 .. Len(p) THEN Kept(p[n], PairRows(n, w)) ELSE <<>>
    BY <1>4, <2>1, <2>3, JoinedKept
  <2> QED BY <1>4, <2>1, <2>2, <2>4
<1> QED BY <1>3, <1>5, <1>6

(***************************************************************************)
(* CharacterCards: the inductive invariant.                                *)
(***************************************************************************)
(* The inductive invariant of the cards: the index has of a pair what the  *)
(* card says, for the cards that it was derived from as they are, and a    *)
(* snapshot shows tables that the card has.                                *)
CardInv ==
  /\ CardTypes
  /\ relations \in Seq(Relation) /\ fresh \in SUBSET Names
  /\ \A n \in fresh, w \in Names : Kept(relations, PairRows(n, w)) = RelationRow(n, w)
  /\ DOMAIN snapshots = Names
  /\ \A n \in Names : \A t \in DOMAIN snapshots[n] : HasTable(n, t)

LEMMA CardsBegin == ASSUME CardsInit PROVE CardInv
<1>1. <<>> \in Card
  <2>1. <<>> \in Seq(CardTable) /\ Len(<<>>) = 0
    OBVIOUS
  <2> QED BY <2>1 DEF Card
<1>2. CardTypes
  BY <1>1 DEF CardsInit, CardTypes, NoCard
<1>3. DOMAIN <<>> = {}
  OBVIOUS
<1>4. DOMAIN snapshots = Names /\ \A n \in Names : DOMAIN snapshots[n] = {}
  BY <1>3 DEF CardsInit, NoSnapshot
<1>5. relations \in Seq(Relation) /\ fresh = {}
  BY DEF CardsInit
<1> QED BY <1>2, <1>4, <1>5 DEF CardInv

(* What the index has of the cards that stay as they are.                  *)
LEMMA SameCard ==
  ASSUME NEW n, cards'[n] = cards[n]
  PROVE  /\ \A w : RelationRow(n, w)' = RelationRow(n, w)
         /\ \A t : HasTable(n, t)' = HasTable(n, t)
<1>1. AllRows(n)' = AllRows(n)
  BY DEF AllRows
<1> QED BY <1>1, RowFromIs DEF HasTable

LEMMA CreateCardKeeps ==
  ASSUME CardInv, NEW n \in Names, NEW layout \in Layouts, NEW isPov \in BOOLEAN, CreateCard(n, layout, isPov)
  PROVE  CardInv'
<1> DEFINE new == [i \in DOMAIN layout |-> [name |-> layout[i], rows |-> <<>>]]
<1>1. /\ cards[n] = NoCard /\ cards' = [cards EXCEPT ![n] = new]
      /\ fresh' = fresh \ {n} /\ UNCHANGED <<snapshots, relations>>
  BY DEF CreateCard
<1>2. new \in Card
  <2>1. layout \in Seq(Tables) /\ \A i, j \in DOMAIN layout : layout[i] = layout[j] => i = j
    BY CardBounds
  <2>2. DOMAIN layout = 1 .. Len(layout) /\ Len(layout) \in Nat
    BY <2>1
  <2>3. \A i \in 1 .. Len(layout) : [name |-> layout[i], rows |-> <<>>] \in CardTable
    <3>1. <<>> \in Seq(CardRow)
      OBVIOUS
    <3> QED BY <2>1, <3>1 DEF CardTable
  <2>4. new \in Seq(CardTable) /\ Len(new) = Len(layout) /\ \A i \in 1 .. Len(layout) : new[i].name = layout[i]
    BY <2>2, <2>3
  <2> QED BY <2>1, <2>2, <2>4 DEF Card
<1> HIDE DEF new
<1>3. CardTypes' /\ \A m \in Names : m # n => cards'[m] = cards[m]
  BY <1>1, <1>2 DEF CardInv, CardTypes
<1>4. fresh' \in SUBSET Names /\ \A m \in fresh' : m \in fresh /\ m \in Names /\ m # n
  BY <1>1 DEF CardInv
<1>5. \A m \in fresh', w \in Names : Kept(relations', PairRows(m, w)) = RelationRow(m, w)'
  <2> SUFFICES ASSUME NEW m \in fresh', NEW w \in Names
               PROVE  Kept(relations', PairRows(m, w)) = RelationRow(m, w)'
    OBVIOUS
  <2>1. m \in fresh /\ cards'[m] = cards[m]
    BY <1>3, <1>4
  <2>2. RelationRow(m, w)' = RelationRow(m, w)
    BY <2>1, SameCard
  <2> QED BY <1>1, <2>1, <2>2 DEF CardInv
<1>6. ASSUME NEW m \in Names, NEW t \in DOMAIN snapshots[m] PROVE HasTable(m, t)'
  <2>1. HasTable(m, t)
    BY <1>6 DEF CardInv
  <2>2. m # n
    <3>1. DOMAIN <<>> = {}
      OBVIOUS
    <3> QED BY <1>1, <2>1, <3>1 DEF HasTable, NoCard
  <2> QED BY <1>3, <2>1, <2>2, SameCard
<1> QED BY <1>1, <1>3, <1>4, <1>5, <1>6 DEF CardInv

LEMMA AppendRowKeeps ==
  ASSUME CardInv, NEW n \in Names, NEW t \in Tables, NEW row \in CardRow, AppendRow(n, t, row)
  PROVE  CardInv'
<1> DEFINE a == At(n, t)
           card == cards[n]
           x == [card[a] EXCEPT !.rows = Append(card[a].rows, row)]
           new == [card EXCEPT ![a] = x]
<1>1. /\ HasTable(n, t) /\ cards' = [cards EXCEPT ![n] = new]
      /\ fresh' = fresh \ {n} /\ UNCHANGED <<snapshots, relations>>
  BY DEF AppendRow
<1>2. CardTypes
  BY DEF CardInv
<1>3. a \in 1 .. Len(card) /\ Len(card) \in Nat
  BY <1>1, <1>2, TableOf, TablesOfCard
<1>4. /\ card \in Seq(CardTable) /\ card[a] \in CardTable
      /\ \A i, j \in 1 .. Len(card) : card[i].name = card[j].name => i = j
  BY <1>2, <1>3, TablesOfCard
<1>5. x \in CardTable /\ x.name = card[a].name
  <2> DEFINE y == card[a]
  <2>1. y \in CardTable
    BY <1>4
  <2> HIDE DEF y, a, card
  <2>2. y.rows \in Seq(CardRow) /\ y = [name |-> y.name, rows |-> y.rows] /\ y.name \in Tables
    BY <2>1 DEF CardTable
  <2>3. Append(y.rows, row) \in Seq(CardRow)
    BY <2>2
  <2>4. [y EXCEPT !.rows = Append(y.rows, row)] = [name |-> y.name, rows |-> Append(y.rows, row)]
    BY <2>2
  <2>5. [y EXCEPT !.rows = Append(y.rows, row)] \in CardTable /\ [y EXCEPT !.rows = Append(y.rows, row)].name = y.name
    BY <2>2, <2>3, <2>4 DEF CardTable
  <2> QED BY <2>5 DEF y
<1> HIDE DEF x, a, card
<1>6. /\ new \in Seq(CardTable) /\ Len(new) = Len(card) /\ DOMAIN new = DOMAIN card
      /\ \A i \in 1 .. Len(card) : new[i].name = card[i].name
  BY <1>3, <1>4, <1>5
<1>7. new \in Card
  BY <1>4, <1>6 DEF Card
<1> HIDE DEF new
<1>8. CardTypes' /\ cards'[n] = new /\ \A m \in Names : m # n => cards'[m] = cards[m]
  BY <1>1, <1>2, <1>7 DEF CardTypes
<1>9. fresh' \in SUBSET Names /\ \A m \in fresh' : m \in fresh /\ m \in Names /\ m # n
  BY <1>1 DEF CardInv
<1>10. \A m \in fresh', w \in Names : Kept(relations', PairRows(m, w)) = RelationRow(m, w)'
  <2> SUFFICES ASSUME NEW m \in fresh', NEW w \in Names
               PROVE  Kept(relations', PairRows(m, w)) = RelationRow(m, w)'
    OBVIOUS
  <2>1. m \in fresh /\ cards'[m] = cards[m]
    BY <1>8, <1>9
  <2>2. RelationRow(m, w)' = RelationRow(m, w)
    BY <2>1, SameCard
  <2> QED BY <1>1, <2>1, <2>2 DEF CardInv
<1>11. ASSUME NEW m \in Names, NEW u \in DOMAIN snapshots[m] PROVE HasTable(m, u)'
  <2>1. HasTable(m, u)
    BY <1>11 DEF CardInv
  <2>2. CASE m # n
    BY <1>8, <2>1, <2>2, SameCard
  <2>3. CASE m = n
    <3>1. DOMAIN card = 1 .. Len(card)
      BY <1>4
    <3> QED BY <1>6, <1>8, <2>1, <2>3, <3>1 DEF HasTable, card
  <2> QED BY <2>2, <2>3
<1> QED BY <1>1, <1>8, <1>9, <1>10, <1>11 DEF CardInv

LEMMA DerivesKeep ==
  /\ \A n \in Names : CardInv /\ DeriveSnapshot(n) => CardInv'
  /\ CardInv /\ DeriveRelations => CardInv'
  /\ \A row \in Relation : CardInv /\ AppendRelation(row) => CardInv'
<1>1. ASSUME NEW n \in Names, CardInv, DeriveSnapshot(n) PROVE CardInv'
  <2> DEFINE shown == [t \in {u \in Tables \ {"relations"} : HasTable(n, u)} |-> LastRow(n, t)]
  <2>1. UNCHANGED <<cards, relations, fresh>> /\ snapshots' = [snapshots EXCEPT ![n] = shown]
    BY <1>1 DEF DeriveSnapshot
  <2>2. \A m, w : RelationRow(m, w)' = RelationRow(m, w)
    BY <2>1, SameCard
  <2>3. \A m, t : HasTable(m, t)' = HasTable(m, t)
    BY <2>1, SameCard
  <2>4. \A t \in DOMAIN shown : HasTable(n, t)
    OBVIOUS
  <2> HIDE DEF shown
  <2>5. DOMAIN snapshots' = Names /\ \A m \in Names : \A t \in DOMAIN snapshots'[m] : HasTable(m, t)
    BY <1>1, <2>1, <2>4 DEF CardInv
  <2>6. CardTypes' = CardTypes
    BY <2>1 DEF CardTypes
  <2> QED BY <1>1, <2>1, <2>2, <2>3, <2>5, <2>6 DEF CardInv
<1>2. ASSUME CardInv, DeriveRelations PROVE CardInv'
  <2>1. /\ relations' = Derived /\ fresh' = {n \in Names : cards[n] # NoCard}
        /\ UNCHANGED <<cards, snapshots>>
    BY <1>2 DEF DeriveRelations
  <2>2. CardTypes
    BY <1>2 DEF CardInv
  <2>3. \A m, w : RelationRow(m, w)' = RelationRow(m, w)
    BY <2>1, SameCard
  <2>4. \A m, t : HasTable(m, t)' = HasTable(m, t)
    BY <2>1, SameCard
  <2>5. Derived \in Seq(Relation) /\ \A n, w \in Names : Kept(Derived, PairRows(n, w)) = RelationRow(n, w)
    BY <2>2, DerivedIs
  <2>6. CardTypes' = CardTypes
    BY <2>1 DEF CardTypes
  <2> QED BY <1>2, <2>1, <2>3, <2>4, <2>5, <2>6 DEF CardInv
<1>3. ASSUME NEW row \in Relation, CardInv, AppendRelation(row) PROVE CardInv'
  <2>1. relations' = Append(relations, row) /\ fresh' = {} /\ UNCHANGED <<cards, snapshots>>
    BY <1>3 DEF AppendRelation
  <2>2. \A m, t : HasTable(m, t)' = HasTable(m, t)
    BY <2>1, SameCard
  <2>3. CardTypes' = CardTypes
    BY <2>1 DEF CardTypes
  <2>4. relations' \in Seq(Relation)
    BY <1>3, <2>1 DEF CardInv
  <2> QED BY <1>3, <2>1, <2>2, <2>3, <2>4 DEF CardInv
<1> QED BY <1>1, <1>2, <1>3

LEMMA CardsAreKept == CardsSpec => []CardInv
<1>1. CardsInit => CardInv
  BY CardsBegin
<1>2. CardInv /\ [CardsNext]_cardVars => CardInv'
  <2> SUFFICES ASSUME CardInv, [CardsNext]_cardVars PROVE CardInv'
    OBVIOUS
  <2>1. CASE \E n \in Names, layout \in Layouts, isPov \in BOOLEAN : CreateCard(n, layout, isPov)
    BY <2>1, CreateCardKeeps
  <2>2. CASE \E n \in Names, t \in Tables, row \in CardRow : AppendRow(n, t, row)
    BY <2>2, AppendRowKeeps
  <2>3. CASE \E n \in Names : DeriveSnapshot(n)
    BY <2>3, DerivesKeep
  <2>4. CASE DeriveRelations
    BY <2>4, DerivesKeep
  <2>5. CASE \E row \in Relation : AppendRelation(row)
    BY <2>5, DerivesKeep
  <2>6. CASE UNCHANGED cardVars
    <3>1. UNCHANGED <<cards, relations, fresh, snapshots>>
      BY <2>6 DEF cardVars
    <3>2. \A m, w : RelationRow(m, w)' = RelationRow(m, w)
      BY <3>1, SameCard
    <3>3. \A m, t : HasTable(m, t)' = HasTable(m, t)
      BY <3>1, SameCard
    <3>4. CardTypes' = CardTypes
      BY <3>1 DEF CardTypes
    <3> QED BY <3>1, <3>2, <3>3, <3>4 DEF CardInv
  <2> QED BY <2>1, <2>2, <2>3, <2>4, <2>5, <2>6 DEF CardsNext
<1> QED BY <1>1, <1>2, PTL DEF CardsSpec

(***************************************************************************)
(* CharacterCards: what RelationQuery tells.                               *)
(***************************************************************************)
(* What the card of a speaker says of a character, in the table of         *)
(* relations and in no other, is what the derived index has.               *)
LEMMA TheCardSays ==
  ASSUME CardTypes, NEW n \in Names, NEW w \in Names,
         With(RowsOf(n, "relations"), w) # <<>>,
         \A t \in Tables \ {"relations"} : With(RowsOf(n, t), w) = <<>>
  PROVE  RelationRow(n, w) =
           <<[chapter |-> Last(With(RowsOf(n, "relations"), w)).chapter, speaker |-> n, object |-> w]>>
<1> DEFINE K == WithCell(w)
           parts == PartsOf(cards[n])
           L == Len(cards[n])
           a == At(n, "relations")
           mine == With(RowsOf(n, "relations"), w)
           list == AllRows(n)
<1>1. /\ parts \in Seq(Seq(CardRow)) /\ Len(parts) = L
      /\ \A i \in 1 .. L : parts[i] = cards[n][i].rows
      /\ list = Joined(parts) /\ list \in Seq(CardRow)
  BY PartsOfCard
<1>2. HasTable(n, "relations")
  <2>1. ASSUME ~ HasTable(n, "relations") PROVE FALSE
    <3>1. RowsOf(n, "relations") = <<>>
      BY <2>1 DEF RowsOf
    <3>2. <<>> \in Seq(CardRow)
      OBVIOUS
    <3>3. With(<<>>, w) = Kept(<<>>, WithCell(w))
      BY <3>2, WithIs
    <3> QED BY <3>1, <3>3, KeptEmpty
  <2> QED BY <2>1
<1>3. a \in 1 .. L /\ RowsOf(n, "relations") = cards[n][a].rows /\ cards[n][a].name = "relations"
  BY <1>2, TableOf
<1>4. mine = Kept(parts[a], K)
  BY <1>1, <1>3, RowsOfTable, WithIs
<1>5. ASSUME NEW i \in 1 .. L, i # a PROVE Kept(parts[i], K) = <<>>
  <2> DEFINE t == cards[n][i].name
  <2>1. t \in Tables \ {"relations"}
    BY <1>3, <1>5, TablesOfCard
  <2>2. HasTable(n, t)
    BY TablesOfCard DEF HasTable
  <2> HIDE DEF t
  <2>3. At(n, t) \in 1 .. L /\ cards[n][At(n, t)].name = t /\ RowsOf(n, t) = cards[n][At(n, t)].rows
    BY <2>2, TableOf
  <2>4. At(n, t) = i
    BY <2>3, TablesOfCard DEF t
  <2>5. RowsOf(n, t) = parts[i]
    BY <1>1, <2>3, <2>4
  <2>6. With(RowsOf(n, t), w) = Kept(RowsOf(n, t), K)
    BY RowsOfTable, WithIs
  <2> QED BY <2>1, <2>5, <2>6
<1> HIDE DEF parts, a, list
<1>6. Kept(list, K) = mine
  <2>1. a \in Nat /\ \A i \in 1 .. Len(parts) : i # a => Kept(parts[i], K) = <<>>
    BY <1>1, <1>3, <1>5
  <2> HIDE DEF K, mine, L
  <2>2. Kept(Joined(parts), K) = IF a \in 1 .. Len(parts) THEN Kept(parts[a], K) ELSE <<>>
    BY <1>1, <2>1, JoinedKept
  <2> QED BY <1>1, <1>3, <1>4, <2>2
<1>7. LastPlace(list, w) # 0 /\ list[LastPlace(list, w)] = Last(mine)
  BY <1>1, <1>6, LastPlaceIs
<1> HIDE DEF mine
<1>8. RelationRow(n, w) = RowFrom(list, n, w) /\ w \in Cells
  BY RowFromIs, NumbersOfCells DEF list
<1> QED BY <1>7, <1>8 DEF RowFrom, mine

(* The rows that RelationQuery picks.                                      *)
Picked(a, target) == {r \in Relation :
  /\ r.chapter # 0 /\ a \in {r.speaker, r.object}
  /\ target # 0 => target \in {r.speaker, r.object}}
LEMMA MatchedIs ==
  ASSUME relations \in Seq(Relation), NEW a, NEW target
  PROVE  /\ Matched(a, target) \in Seq(Relation)
         /\ \A x \in ToSet(relations) : x \in Picked(a, target) => x \in ToSet(Matched(a, target))
<1> DEFINE J == {r \in ToSet(relations) :
             /\ r.chapter # 0 /\ a \in {r.speaker, r.object}
             /\ target # 0 => target \in {r.speaker, r.object}}
<1>1. Matched(a, target) = Kept(relations, J)
  BY DEF Matched
<1>2. \A x \in ToSet(relations) : x \in Picked(a, target) => x \in J
  BY DEF Picked
<1> HIDE DEF J
<1>3. Kept(relations, J) \in Seq(Relation)
  BY KeptType
<1>4. ToSet(Kept(relations, J)) = ToSet(relations) \cap J
  BY KeptElements
<1> QED BY <1>1, <1>2, <1>3, <1>4

(* The rows before the current one, and the current one.                   *)
OldAndNew(s, x) ==
  /\ s # <<>>
  /\ Len(IF Len(s) > 1 THEN Front(s) ELSE <<>>) + 1 = Len(s)
  /\ Len(s) = 1 => <<Last(s)>> = <<x>>
LEMMA OldAndNewRows ==
  ASSUME NEW T, NEW s \in Seq(T), NEW x \in ToSet(s)
  PROVE  OldAndNew(s, x)
<1>1. PICK i \in 1 .. Len(s) : s[i] = x
  BY DEF ToSet
<1>2. Len(s) \in Nat /\ Len(s) # 0 /\ s # <<>>
  BY <1>1
<1> DEFINE n == Len(s)
<1>5. n \in Nat /\ n # 0
  BY <1>2
<1>6. n = 1 \/ n > 1
  <2> HIDE DEF n
  <2> QED BY <1>5
<1>3. CASE Len(s) = 1
  <2>1. Last(s) = x
    BY <1>1, <1>3 DEF Last
  <2>2. Len(<<>>) = 0
    OBVIOUS
  <2> QED BY <1>2, <1>3, <2>1, <2>2 DEF OldAndNew
<1>4. CASE Len(s) > 1
  <2>1. Len(SubSeq(s, 1, Len(s) - 1)) = Len(s) - 1
    BY <1>4
  <2>2. Len(Front(s)) = Len(s) - 1
    BY <2>1 DEF Front
  <2> QED BY <1>2, <1>4, <2>2 DEF OldAndNew
<1> QED BY <1>3, <1>4, <1>6

LEMMA RelationsDoTell == ASSUME CardInv PROVE RelationsAreTold
<1> SUFFICES ASSUME NEW n \in fresh, NEW w \in Names,
                    With(RowsOf(n, "relations"), w) # <<>>,
                    \A t \in Tables \ {"relations"} : With(RowsOf(n, t), w) = <<>>
             PROVE  LET mine == With(RowsOf(n, "relations"), w)
                        list == Kept(relations, {r \in ToSet(relations) : r.speaker = n /\ r.object = w})
                    IN /\ Len(list) = 1 /\ list[1].chapter = Last(mine).chapter
                       /\ list[1].chapter # 0 => /\ list[1] \in ToSet(Matched(n, w)) \cap ToSet(Matched(w, 0))
                                                 /\ Len(History(n, w)) + 1 = Len(Matched(n, w))
                                                 /\ Len(Matched(n, w)) = 1 => Current(n, w) = list
  BY DEF RelationsAreTold
<1> DEFINE mine == With(RowsOf(n, "relations"), w)
           J == {r \in ToSet(relations) : r.speaker = n /\ r.object = w}
           list == Kept(relations, J)
           x == [chapter |-> Last(mine).chapter, speaker |-> n, object |-> w]
<1>1. CardTypes /\ relations \in Seq(Relation) /\ n \in Names /\ n # 0 /\ w # 0
  BY NumbersOfCells DEF CardInv
<1>2. list = <<x>>
  <2>1. RelationRow(n, w) = <<x>>
    BY <1>1, TheCardSays
  <2>2. Kept(relations, PairRows(n, w)) = RelationRow(n, w)
    BY DEF CardInv
  <2>3. \A i \in 1 .. Len(relations) : relations[i] \in J <=> relations[i] \in PairRows(n, w)
    BY <1>1 DEF PairRows, ToSet
  <2> HIDE DEF J, x
  <2>4. Kept(relations, J) = Kept(relations, PairRows(n, w))
    BY <1>1, <2>3, KeptAgree
  <2> QED BY <2>1, <2>2, <2>4
<1>3. x \in ToSet(relations) /\ x \in Relation
  <2>1. ToSet(list) = ToSet(relations) \cap J
    BY <1>1, KeptElements
  <2>2. x \in ToSet(list)
    <3> HIDE DEF x, J
    <3>1. x \in ToSet(<<x>>)
      <4>1. 1 \in DOMAIN <<x>> /\ <<x>>[1] = x
        OBVIOUS
      <4> QED BY <4>1 DEF ToSet
    <3> QED BY <1>2, <3>1
  <2>3. ToSet(relations) \subseteq Relation
    BY <1>1 DEF ToSet
  <2> QED BY <2>1, <2>2, <2>3
<1>4. x.speaker = n /\ x.object = w /\ x.chapter = Last(mine).chapter
  OBVIOUS
<1> HIDE DEF x, J, mine
<1>5. Len(list) = 1 /\ list[1] = x
  BY <1>2
<1>6. ASSUME x.chapter # 0
      PROVE  /\ x \in ToSet(Matched(n, w)) \cap ToSet(Matched(w, 0))
             /\ Len(History(n, w)) + 1 = Len(Matched(n, w))
             /\ Len(Matched(n, w)) = 1 => Current(n, w) = list
  <2>1. x \in Picked(n, w) /\ x \in Picked(w, 0)
    BY <1>3, <1>4, <1>6 DEF Picked
  <2>2. x \in ToSet(Matched(n, w)) /\ x \in ToSet(Matched(w, 0))
    BY <1>1, <1>3, <2>1, MatchedIs
  <2>3. Matched(n, w) \in Seq(Relation)
    BY <1>1, MatchedIs
  <2>4. OldAndNew(Matched(n, w), x)
    BY <2>2, <2>3, OldAndNewRows
  <2>5. Len(History(n, w)) + 1 = Len(Matched(n, w))
    BY <2>4 DEF OldAndNew, History
  <2>6. Len(Matched(n, w)) = 1 => Current(n, w) = <<x>>
    BY <2>4 DEF OldAndNew, Current
  <2> QED BY <1>2, <2>2, <2>5, <2>6
<1> HIDE DEF list
<1>7. /\ Len(list) = 1 /\ list[1].chapter = Last(mine).chapter
      /\ list[1].chapter # 0 => /\ list[1] \in ToSet(Matched(n, w)) \cap ToSet(Matched(w, 0))
                                /\ Len(History(n, w)) + 1 = Len(Matched(n, w))
                                /\ Len(Matched(n, w)) = 1 => Current(n, w) = list
  BY <1>4, <1>5, <1>6
<1> QED BY <1>7 DEF list, J, mine

(***************************************************************************)
(* CharacterCards: what CharacterSearch and the snapshot tell.             *)
(***************************************************************************)
(* The headings of a field are all the same table, or there is none.       *)
SameHeadings(H) ==
  /\ Len(H) \in Nat /\ DOMAIN H = 1 .. Len(H)
  /\ H # <<>> => 1 \in DOMAIN H /\ \A i \in DOMAIN H : H[i] = H[1]
LEMMA HeadingsAre == ASSUME NEW field \in DOMAIN Headings PROVE SameHeadings(Headings[field])
<1>1. field \in {"identity", "personality", "relations", "appearances", "secrets"}
  BY DEF Headings
<1>2. SameHeadings(<<>>)
  <2>1. Len(<<>>) = 0 /\ DOMAIN <<>> = 1 .. 0
    OBVIOUS
  <2> QED BY <2>1 DEF SameHeadings
<1>3. \A t : SameHeadings(<<t>>)
  BY DEF SameHeadings
<1>4. \A t : SameHeadings(<<t, t>>)
  BY DEF SameHeadings
<1>5. CASE field \in {"identity", "personality", "relations"}
  <2>1. \E t : Headings[field] = <<t, t>>
    BY <1>5 DEF Headings
  <2> QED BY <1>4, <2>1
<1>6. CASE field = "appearances"
  <2>1. Headings[field] = <<"appearances">>
    BY <1>6 DEF Headings
  <2> QED BY <1>3, <2>1
<1>7. CASE field = "secrets"
  <2>1. Headings[field] = <<>>
    BY <1>7 DEF Headings
  <2> QED BY <1>2, <2>1
<1> QED BY <1>1, <1>5, <1>6, <1>7

LEMMA RowsWithCell ==
  ASSUME NEW list \in Seq(CardRow), NEW w
  PROVE  ToSet(With(list, w)) = {r \in ToSet(list) : r.cell = w}
<1>1. ToSet(Kept(list, WithCell(w))) = ToSet(list) \cap WithCell(w)
  BY KeptElements
<1>2. ToSet(list) \subseteq CardRow
  BY DEF ToSet
<1>3. With(list, w) = Kept(list, WithCell(w))
  BY WithIs
<1> QED BY <1>1, <1>2, <1>3 DEF WithCell

LEMMA SearchDoesFind == ASSUME CardInv PROVE SearchFinds
<1> SUFFICES ASSUME NEW n \in Names, NEW w \in Names \cup Words, NEW field \in DOMAIN Headings
             PROVE  LET table == IF Headings[field] = <<>> THEN "none" ELSE Headings[field][1]
                        list == IF HasTable(n, table) THEN RowsOf(n, table) ELSE AllRows(n)
                    IN {r \in ToSet(list) : r.cell = w} = ToSet(Hits(n, field, w))
  BY DEF SearchFinds
<1> DEFINE H == Headings[field]
           table == IF H = <<>> THEN "none" ELSE H[1]
           list == IF HasTable(n, table) THEN RowsOf(n, table) ELSE AllRows(n)
           parts == [i \in DOMAIN H |-> RowsOf(n, H[i])]
           sought == IF \E i \in DOMAIN H : HasTable(n, H[i]) THEN Joined(parts) ELSE AllRows(n)
<1>0. CardTypes
  BY DEF CardInv
<1>1. SearchIn(n, field) = sought
  BY DEF SearchIn
<1>2. SameHeadings(H)
  BY HeadingsAre
<1> HIDE DEF H
<1>3. \A t : RowsOf(n, t) \in Seq(CardRow)
  BY <1>0, RowsOfTable
<1>4. AllRows(n) \in Seq(CardRow)
  BY <1>0, PartsOfCard
<1>5. parts \in Seq(Seq(CardRow)) /\ DOMAIN parts = DOMAIN H /\ \A i \in DOMAIN H : parts[i] = RowsOf(n, H[i])
  BY <1>2, <1>3 DEF SameHeadings
<1> HIDE DEF parts
<1>6. Joined(parts) \in Seq(CardRow) /\ ToSet(Joined(parts)) = UNION {ToSet(parts[i]) : i \in DOMAIN parts}
  BY <1>5, JoinedType, JoinedSet
<1>7. (\E i \in DOMAIN H : HasTable(n, H[i])) <=> HasTable(n, table)
  <2>1. CASE H = <<>>
    <3>1. DOMAIN <<>> = {}
      OBVIOUS
    <3>2. ~ HasTable(n, "none")
      <4>1. "none" \notin Tables
        BY DEF Tables
      <4> QED BY <1>0, <4>1, TableOf
    <3> QED BY <2>1, <3>1, <3>2
  <2>2. CASE H # <<>>
    BY <1>2, <2>2 DEF SameHeadings
  <2> QED BY <2>1, <2>2
<1>8. ToSet(sought) = ToSet(list) /\ sought \in Seq(CardRow) /\ list \in Seq(CardRow)
  <2>1. CASE HasTable(n, table)
    <3>1. sought = Joined(parts) /\ list = RowsOf(n, table)
      BY <1>7, <2>1
    <3>2. H # <<>>
      <4>1. DOMAIN <<>> = {}
        OBVIOUS
      <4> QED BY <1>7, <2>1, <4>1
    <3>3. 1 \in DOMAIN H /\ \A i \in DOMAIN H : H[i] = table
      BY <1>2, <3>2 DEF SameHeadings
    <3>4. \A i \in DOMAIN parts : ToSet(parts[i]) = ToSet(RowsOf(n, table))
      BY <1>5, <3>3
    <3>5. UNION {ToSet(parts[i]) : i \in DOMAIN parts} = ToSet(RowsOf(n, table))
      BY <1>5, <3>3, <3>4
    <3> QED BY <1>3, <1>6, <3>1, <3>5
  <2>2. CASE ~ HasTable(n, table)
    <3>1. sought = AllRows(n) /\ list = AllRows(n)
      BY <1>7, <2>2
    <3> QED BY <1>4, <3>1
  <2> QED BY <2>1, <2>2
<1>9. Hits(n, field, w) = With(sought, w)
  BY <1>1 DEF Hits
<1> HIDE DEF sought, list
<1>10. ToSet(Hits(n, field, w)) = {r \in ToSet(list) : r.cell = w}
  BY <1>8, <1>9, RowsWithCell
<1> QED BY <1>10 DEF list, H

---------------------------------------------------------------------------
(* The last row of the last table of a card is the last line of the file.  *)
Lines == CardRow \cup {Header, Rule}
LEMMA LastOfTwo ==
  ASSUME NEW T, NEW a \in T, NEW b \in T, NEW s \in Seq(T), s # <<>>
  PROVE  Len(<<a, b>> \o s) > 2 /\ Last(<<a, b>> \o s) = Last(s)
<1>1. Len(s) \in Nat /\ Len(s) # 0
  BY EmptySeq
<1>2. <<a, b>> \in Seq(T) /\ Len(<<a, b>>) = 2
  OBVIOUS
<1> DEFINE u == <<a, b>>
<1> HIDE DEF u
<1>3. Len(u \o s) = Len(s) + 2 /\ (u \o s)[Len(s) + 2] = s[Len(s)]
  BY <1>1, <1>2 DEF u
<1>4. Len(u \o s) > 2 /\ Last(u \o s) = Last(s)
  BY <1>1, <1>3 DEF Last
<1> QED BY <1>4 DEF u

LEMMA SnapshotDoesTell == ASSUME CardInv PROVE SnapshotIsTold
<1> SUFFICES ASSUME NEW n \in Names, NEW t \in Tables, HasTable(n, t), At(n, t) = Len(cards[n]), RowsOf(n, t) # <<>>
             PROVE  LastRow(n, t) = Last(RowsOf(n, t))
  BY DEF CardInv, SnapshotIsTold
<1> DEFINE L == Len(cards[n])
           card == cards[n]
           list == RowsOf(n, t)
           after == SubSeq(card, At(n, t), Len(card))
           lines == <<Header, Rule>> \o list
<1>1. CardTypes
  BY DEF CardInv
<1>2. card \in Seq(CardTable) /\ L \in 1 .. L /\ list = card[L].rows /\ list \in Seq(CardRow)
  BY <1>1, TablesOfCard, TableOf, RowsOfTable
<1>3. Len(after) = 1 /\ after[1] = card[L] /\ DOMAIN after = 1 .. 1
  <2> HIDE DEF card
  <2> QED BY <1>2 DEF card
<1> HIDE DEF after
<1>4. [i \in DOMAIN after |-> <<Header, Rule>> \o after[i].rows] = <<lines>>
  BY <1>2, <1>3
<1>5. list \in Seq(Lines) /\ Header \in Lines /\ Rule \in Lines
  BY <1>2 DEF Lines
<1>6. lines \in Seq(Lines)
  <2>1. <<Header, Rule>> \in Seq(Lines)
    BY <1>5
  <2> QED BY <1>5, <2>1, ConcatProperties
<1>7. Len(lines) > 2 /\ Last(lines) = Last(list)
  BY <1>5, LastOfTwo
<1> HIDE DEF lines
<1>8. Joined(<<lines>>) = lines
  <2>1. <<lines>> \in Seq(Seq(Lines)) /\ Len(<<lines>>) = 1 /\ <<lines>>[1] = lines
    BY <1>6
  <2>2. PICK f : JoinSteps(Lines, <<lines>>, f)
    BY <2>1, JoinedSteps
  <2>3. f[1] = <<>> \o lines /\ Joined(<<lines>>) = f[1]
    <3>1. f[0] = <<>> /\ Joined(<<lines>>) = f[1]
      BY <2>1, <2>2 DEF JoinSteps
    <3>2. f[1] = f[1 - 1] \o <<lines>>[1]
      BY <2>1, <2>2, 1 \in 1 .. 1 DEF JoinSteps
    <3> QED BY <2>1, <3>1, <3>2, 1 - 1 = 0
  <2> QED BY <1>6, <2>3, ConcatEmptySeq
<1>9. LinesFrom(n, t) = lines
  BY <1>4, <1>8 DEF LinesFrom, after
<1> QED BY <1>7, <1>9 DEF LastRow

(***************************************************************************)
(* CharacterCards: what CharacterRotate tells, and the theorem.            *)
(***************************************************************************)
LEMMA GreatestChapter ==
  ASSUME NEW S, S \subseteq Chapter
  PROVE  /\ Greatest(S) \in Chapter /\ (S # {} => Greatest(S) \in S)
         /\ \A x \in S : x <= Greatest(S)
<1>1. CASE S = {}
  BY <1>1, LastChapterIsNat DEF Greatest, Chapter
<1>2. CASE S # {}
  BY <1>2, LastChapterIsNat, MaxOfBounded DEF Greatest, Chapter
<1> QED BY <1>1, <1>2

LEMMA AppearancesAre ==
  ASSUME CardTypes, NEW n \in Names
  PROVE  /\ Appearances(n) \subseteq Chapter \ {0}
         /\ LastAppearance(n) \in Chapter
         /\ \A c \in Appearances(n) : c <= LastAppearance(n)
<1>1. RowsOf(n, "appearances") \in Seq(CardRow)
  BY RowsOfTable
<1>2. \A i \in DOMAIN RowsOf(n, "appearances") : RowsOf(n, "appearances")[i].chapter \in Chapter
  <2> DEFINE r == RowsOf(n, "appearances")
  <2> SUFFICES ASSUME NEW i \in DOMAIN r PROVE r[i].chapter \in Chapter
    OBVIOUS
  <2>1. r[i] \in CardRow
    BY <1>1
  <2> QED BY <2>1 DEF CardRow
<1>3. Appearances(n) \subseteq Chapter \ {0}
  BY <1>2 DEF Appearances
<1>4. Appearances(n) \subseteq Chapter
  BY <1>3
<1> QED BY <1>3, <1>4, GreatestChapter DEF LastAppearance

(* The last chapter that CharacterRotate counts from.                      *)
LastCounted(name, drafted) == Greatest({LastAppearance(m) : m \in Rotated(name)} \cup drafted)
LEMMA LastCountedIs ==
  ASSUME CardTypes, NEW name, NEW drafted \in SUBSET Chapters
  PROVE  /\ LastCounted(name, drafted) \in Chapter /\ LastCounted(name, drafted) <= LastChapter
         /\ \A c \in drafted : c <= LastCounted(name, drafted)
         /\ \A n : SinceLast(n, name, drafted) = LastCounted(name, drafted) - LastAppearance(n)
<1> DEFINE S == {LastAppearance(m) : m \in Rotated(name)} \cup drafted
<1>1. Rotated(name) \subseteq Names
  BY DEF Rotated
<1>2. S \subseteq Chapter
  <2>1. \A m \in Rotated(name) : LastAppearance(m) \in Chapter
    BY <1>1, AppearancesAre
  <2>2. drafted \subseteq Chapter
    BY LastChapterIsNat DEF Chapters, Chapter
  <2> QED BY <2>1, <2>2
<1>3. LastCounted(name, drafted) = Greatest(S)
  BY DEF LastCounted
<1>4. \A n : SinceLast(n, name, drafted) = LastCounted(name, drafted) - LastAppearance(n)
  BY DEF SinceLast, LastCounted
<1>5. drafted \subseteq S
  OBVIOUS
<1> HIDE DEF S
<1>6. Greatest(S) \in Chapter /\ \A x \in S : x <= Greatest(S)
  BY <1>2, GreatestChapter
<1> QED BY <1>3, <1>4, <1>5, <1>6, LastChapterIsNat DEF Chapter

LEMMA RotationIsIndeedFair == ASSUME CardInv PROVE RotationIsFair
<1> SUFFICES ASSUME NEW n \in Names, NEW drafted \in SUBSET Chapters
             PROVE  /\ LastAppearance(n) = LastChapter => ~IsMissing(n, 0, drafted, 1) /\ ~IsMissing(n, n, drafted, 1)
                    /\ IsMissing(n, 0, drafted, 1) /\ LastChapter \in drafted => IsMissing(n, n, drafted, 1)
                    /\ n \in Rotated(0) => \A c \in Appearances(n) :
                                             CountIn(c, 0) >= CountIn(c, n) /\ CountIn(c, n) = 1
  BY DEF RotationIsFair
<1>1. CardTypes
  BY DEF CardInv
<1>2. LastAppearance(n) \in Chapter /\ LastAppearance(n) \in Nat /\ LastChapter \in Nat
  BY <1>1, AppearancesAre, LastChapterIsNat DEF Chapter
<1>3. \A name : /\ LastCounted(name, drafted) \in Nat /\ LastCounted(name, drafted) <= LastChapter
                /\ \A c \in drafted : c <= LastCounted(name, drafted)
                /\ SinceLast(n, name, drafted) = LastCounted(name, drafted) - LastAppearance(n)
  BY <1>1, LastCountedIs, LastChapterIsNat DEF Chapter
<1>4. \A name : LastAppearance(n) = LastChapter => ~ IsMissing(n, name, drafted, 1)
  <2> SUFFICES ASSUME NEW name, LastAppearance(n) = LastChapter, SinceLast(n, name, drafted) >= 1 PROVE FALSE
    BY DEF IsMissing
  <2> DEFINE l == LastCounted(name, drafted)
  <2>1. l \in Nat /\ l <= LastChapter /\ l - LastChapter >= 1
    BY <1>3
  <2> HIDE DEF l
  <2> QED BY <1>2, <2>1
<1>5. n \in Rotated(0) => n \in Rotated(n) /\ Rotated(n) = {n}
  <2>1. n # 0
    BY NumbersOfCells
  <2> QED BY <2>1 DEF Rotated
<1>6. IsMissing(n, 0, drafted, 1) /\ LastChapter \in drafted => IsMissing(n, n, drafted, 1)
  <2> SUFFICES ASSUME n \in Rotated(0), SinceLast(n, 0, drafted) >= 1, LastChapter \in drafted
               PROVE  IsMissing(n, n, drafted, 1)
    BY DEF IsMissing
  <2>1. \A name : LastCounted(name, drafted) = LastChapter
    BY <1>2, <1>3
  <2>2. SinceLast(n, n, drafted) = SinceLast(n, 0, drafted)
    BY <1>3, <2>1
  <2> QED BY <1>5, <2>2 DEF IsMissing
<1>7. ASSUME n \in Rotated(0), NEW c \in Appearances(n)
      PROVE  CountIn(c, 0) >= CountIn(c, n) /\ CountIn(c, n) = 1
  <2> DEFINE A == {m \in Rotated(n) : c \in Appearances(m)}
             B == {m \in Rotated(0) : c \in Appearances(m)}
  <2>1. A = {n} /\ A \subseteq B /\ B \subseteq Names
    BY <1>5, <1>7 DEF Rotated
  <2>2. CountIn(c, n) = Cardinality(A) /\ CountIn(c, 0) = Cardinality(B)
    BY DEF CountIn
  <2> HIDE DEF A, B
  <2>3. Cardinality(A) = 1
    BY <2>1, FS_Singleton
  <2>4. IsFiniteSet(B)
    BY <2>1, FS_Subset, CardBounds
  <2>5. Cardinality(A) <= Cardinality(B) /\ Cardinality(B) \in Nat
    BY <2>1, <2>4, FS_Subset, FS_CardinalityType
  <2> QED BY <2>2, <2>3, <2>5
<1> QED BY <1>4, <1>6, <1>7

(* What the tools tell of characters is what the cards say: the index of   *)
(* relations of a pair, the search of a field, the rotation of characters  *)
(* and the snapshot (relation_index, CharacterSearch, CharacterRotate,     *)
(* character_snapshot), for all names, layouts and numbers of rows.        *)
THEOREM TheCardsAreTold == CardsSpec => []CardsAreTold
<1>1. CardInv => CardsAreTold
  BY RelationsDoTell, SearchDoesFind, RotationIsIndeedFair, SnapshotDoesTell DEF CardsAreTold
<1> QED BY <1>1, CardsAreKept, PTL

(***************************************************************************)
(* Outline: chapters, plans and details.                                   *)
(***************************************************************************)
-----------------------------------------------------------------------------
OutlineTypes ==
  /\ known \in BOOLEAN /\ outline \in Seq(Plan)
  /\ DOMAIN details \subseteq Chapters /\ \A c \in DOMAIN details : details[c] \in Detail
  /\ DOMAIN written \subseteq Chapters

LEMMA OutlineIsTyped == OutlineSpec => []OutlineTypes
<1>1. OutlineInit => OutlineTypes
  BY DEF OutlineInit, OutlineTypes
<1>2. OutlineTypes /\ [OutlineNext]_outlineVars => OutlineTypes'
  <2> SUFFICES ASSUME OutlineTypes, [OutlineNext]_outlineVars PROVE OutlineTypes'
    OBVIOUS
  <2>1. CASE UNCHANGED outlineVars
    BY <2>1 DEF outlineVars, OutlineTypes
  <2>2. ASSUME NEW row \in Plans, PlanChapter(row) PROVE OutlineTypes'
    <3>1. row \in Plan
      BY OutlineBounds
    <3>2. outline' \in Seq(Plan)
      BY <2>2, <3>1 DEF PlanChapter, OutlineTypes
    <3> QED BY <2>2, <3>2 DEF PlanChapter, OutlineTypes
  <2>3. ASSUME NEW c \in Chapters, NEW detail \in PlanDetails, WriteDetail(c, detail) PROVE OutlineTypes'
    <3>1. detail \in Detail
      BY OutlineBounds
    <3>2. DOMAIN details' = DOMAIN details \cup {c} /\ \A d \in DOMAIN details' :
            details'[d] = IF d = c THEN detail ELSE details[d]
      BY <2>3 DEF WriteDetail
    <3>3. UNCHANGED <<known, outline, written>>
      BY <2>3 DEF WriteDetail
    <3> QED BY <3>1, <3>2, <3>3 DEF OutlineTypes
  <2>4. ASSUME NEW c \in Chapters, NEW plain \in BOOLEAN, WriteChapter(c, plain) PROVE OutlineTypes'
    BY <2>4 DEF WriteChapter, OutlineTypes
  <2>5. ASSUME NEW c \in Chapters, DeleteChapter(c) PROVE OutlineTypes'
    BY <2>5 DEF DeleteChapter, OutlineTypes
  <2> QED BY <2>1, <2>2, <2>3, <2>4, <2>5 DEF OutlineNext
<1> QED BY <1>1, <1>2, PTL DEF OutlineSpec

(***************************************************************************)
(* What the grid says of a chapter in a column.                            *)
(***************************************************************************)
RowsRead(range) ==
  {i \in DOMAIN outline : known /\ outline[i].chapter # 0 /\ InRange(outline[i].chapter, range)}
RowsOfChapter(c, range) == {i \in RowsRead(range) : outline[i].chapter = c}
DetailedIn(range) == {c \in DOMAIN details : InRange(c, range)}
Says(c, f, range) == Read(f, outline[Max(RowsOfChapter(c, range))].cells[f])
Detailed(c, f) == IF f \in details[c].has THEN "detail" ELSE Filler(f)
Shows(c, f, range) ==
  CASE RowsOfChapter(c, range) = {} -> Detailed(c, f)
    [] RowsOfChapter(c, range) # {} /\ c \in DetailedIn(range) /\ f # "time" /\ Says(c, f, range) = Filler(f)
         -> Detailed(c, f)
    [] OTHER -> Says(c, f, range)

LEMMA RowsAreRead ==
  ASSUME NEW range
  PROVE  /\ DOMAIN FromOutline(range) = {outline[i].chapter : i \in RowsRead(range)}
         /\ \A c : c \in DOMAIN FromOutline(range) <=> RowsOfChapter(c, range) # {}
         /\ \A c \in DOMAIN FromOutline(range) :
              FromOutline(range)[c] = OutlineRow(outline[Max(RowsOfChapter(c, range))])
<1> DEFINE read == IF known THEN {i \in DOMAIN outline : outline[i].chapter # 0 /\ InRange(outline[i].chapter, range)}
                   ELSE {}
<1>1. read = RowsRead(range)
  BY DEF RowsRead
<1>2. FromOutline(range) = [c \in {outline[i].chapter : i \in read} |->
        OutlineRow(outline[Max({i \in read : outline[i].chapter = c})])]
  BY DEF FromOutline
<1> HIDE DEF read
<1>3. FromOutline(range) = [c \in {outline[i].chapter : i \in RowsRead(range)} |->
        OutlineRow(outline[Max(RowsOfChapter(c, range))])]
  BY <1>1, <1>2 DEF RowsOfChapter
<1> QED BY <1>3 DEF RowsOfChapter

LEMMA GridSays ==
  ASSUME NEW range, NEW shown
  PROVE  /\ DOMAIN Grid(range, shown) = DOMAIN FromOutline(range) \cup DetailedIn(range)
         /\ \A c \in DOMAIN Grid(range, shown) : \A f \in Fields :
              Grid(range, shown)[c].from[f] = IF f \in shown THEN Shows(c, f, range) ELSE Hidden(f)
<1> DEFINE R == FromOutline(range)
           all == [c \in DOMAIN R \cup DetailedIn(range) |->
                     CASE c \notin DetailedIn(range) -> R[c]
                       [] c \notin DOMAIN R -> DetailRow(details[c])
                       [] OTHER -> Merged(R[c], DetailRow(details[c]))]
<1>1. Grid(range, shown) = [c \in DOMAIN all |-> Masked(all[c], shown)]
  BY DEF Grid, DetailedIn
<1>2. DOMAIN all = DOMAIN R \cup DetailedIn(range)
  OBVIOUS
<1>3. ASSUME NEW c \in DOMAIN all, NEW f \in Fields
      PROVE  all[c].from[f] = Shows(c, f, range)
  <2>1. c \in DOMAIN R => R[c].from[f] = Says(c, f, range)
    <3> HIDE DEF R
    <3>1. c \in DOMAIN R => R[c] = OutlineRow(outline[Max(RowsOfChapter(c, range))])
      BY RowsAreRead DEF R
    <3> QED BY <3>1 DEF OutlineRow, Says
  <2>2. DetailRow(details[c]).from[f] = Detailed(c, f)
    BY DEF DetailRow, Detailed
  <2>3. c \in DOMAIN R <=> RowsOfChapter(c, range) # {}
    BY RowsAreRead
  <2>4. all[c] = CASE c \notin DetailedIn(range) -> R[c]
                   [] c \notin DOMAIN R -> DetailRow(details[c])
                   [] OTHER -> Merged(R[c], DetailRow(details[c]))
    OBVIOUS
  <2>5. c \in DOMAIN R \/ c \in DetailedIn(range)
    OBVIOUS
  <2> HIDE DEF all, R
  <2>6. CASE c \notin DetailedIn(range)
    <3>1. all[c] = R[c] /\ c \in DOMAIN R
      BY <2>4, <2>5, <2>6
    <3> QED BY <2>1, <2>3, <2>6, <3>1 DEF Shows
  <2>7. CASE c \in DetailedIn(range) /\ c \notin DOMAIN R
    <3>1. all[c] = DetailRow(details[c])
      BY <2>4, <2>7
    <3> QED BY <2>2, <2>3, <2>7, <3>1 DEF Shows
  <2>8. CASE c \in DetailedIn(range) /\ c \in DOMAIN R
    <3>1. all[c] = Merged(R[c], DetailRow(details[c]))
      BY <2>4, <2>8
    <3>2. all[c].from[f] = IF f # "time" /\ R[c].from[f] = Filler(f)
                           THEN DetailRow(details[c]).from[f] ELSE R[c].from[f]
      BY <3>1 DEF Merged
    <3> QED BY <2>1, <2>2, <2>3, <2>8, <3>2 DEF Shows
  <2> QED BY <2>6, <2>7, <2>8
<1> HIDE DEF all
<1>4. \A c \in DOMAIN all : \A f \in Fields :
        Masked(all[c], shown).from[f] = IF f \in shown THEN all[c].from[f] ELSE Hidden(f)
  BY DEF Masked
<1> QED BY <1>1, <1>2, <1>3, <1>4

LEMMA RangeOnlySelects ==
  ASSUME NEW range, NEW c
  PROVE  /\ InRange(c, range) => /\ RowsOfChapter(c, range) = RowsOfChapter(c, <<>>)
                                 /\ c \in DetailedIn(range) <=> c \in DetailedIn(<<>>)
         /\ ~InRange(c, range) => RowsOfChapter(c, range) = {} /\ c \notin DetailedIn(range)
<1>1. \A d : InRange(d, <<>>)
  BY DEF InRange
<1> QED BY <1>1 DEF RowsOfChapter, RowsRead, DetailedIn

LEMMA LastRowOfChapter ==
  ASSUME OutlineTypes, NEW c, NEW range, RowsOfChapter(c, range) # {}
  PROVE  /\ Max(RowsOfChapter(c, range)) \in RowsOfChapter(c, range)
         /\ \A j \in RowsOfChapter(c, range) : j <= Max(RowsOfChapter(c, range))
<1>1. RowsOfChapter(c, range) \subseteq 0 .. Len(outline) /\ Len(outline) \in Nat
  BY DEF RowsOfChapter, RowsRead, OutlineTypes
<1> QED BY <1>1, MaxOfBounded

LEMMA LastRowIs ==
  ASSUME OutlineTypes, NEW c
  PROVE  /\ \A i \in RowsOfChapter(c, <<>>) : IsLastRow(i) => Max(RowsOfChapter(c, <<>>)) = i
         /\ RowsOfChapter(c, <<>>) # {} => IsLastRow(Max(RowsOfChapter(c, <<>>)))
<1> DEFINE R == RowsOfChapter(c, <<>>)
<1>1. /\ R \subseteq 1 .. Len(outline) /\ Len(outline) \in Nat
      /\ \A i : i \in R <=> i \in 1 .. Len(outline) /\ known /\ outline[i].chapter # 0 /\ outline[i].chapter = c
  BY DEF RowsOfChapter, RowsRead, OutlineTypes, InRange
<1>2. R # {} => Max(R) \in R /\ \A j \in R : j <= Max(R)
  BY LastRowOfChapter
<1> HIDE DEF R
<1>3. ASSUME NEW i \in R, IsLastRow(i) PROVE Max(R) = i
  <2>1. Max(R) \in R /\ i <= Max(R)
    BY <1>2
  <2>2. Max(R) \notin i + 1 .. Len(outline)
    BY <1>1, <1>3, <2>1 DEF IsLastRow
  <2> QED BY <1>1, <2>1, <2>2
<1>4. ASSUME R # {} PROVE IsLastRow(Max(R))
  <2> DEFINE m == Max(R)
  <2>1. m \in R /\ \A j \in R : j <= m
    BY <1>2, <1>4
  <2> HIDE DEF m
  <2>2. ASSUME NEW j \in m + 1 .. Len(outline) PROVE outline[j].chapter # outline[m].chapter
    <3>1. j \in 1 .. Len(outline) /\ ~(j <= m)
      BY <1>1, <2>1
    <3> QED BY <1>1, <2>1, <3>1
  <2> QED BY <1>1, <2>1, <2>2 DEF IsLastRow, m
<1> QED BY <1>3, <1>4 DEF R

(* Every chapter that has a detailed outline has its cards, a card for     *)
(* each scene, with the point of view that the scene names.                *)
CardOf(c, i) ==
  [chapter |-> c, scene |-> i,
   pov |-> FirstNamed(<<details[c].scenes[i].pov, FilePov(details[c])>>),
   world |-> FirstNamed(<<details[c].scenes[i].world, FileWorld(details[c])>>)]
LEMMA CardsOfScenes ==
  ASSUME NEW c, details[c].scenes # <<>>
  PROVE  Cards(c) = [i \in DOMAIN details[c].scenes |-> CardOf(c, i)]
BY DEF Cards, CardOf

LEMMA CardsOfChapter ==
  ASSUME OutlineTypes, NEW c \in DOMAIN details
  PROVE  (\A card \in ToSet(Cards(c)) : card.chapter = c) /\ ToSet(Cards(c)) # {}
<1>1. details[c].scenes \in Seq(Scene)
  BY DEF OutlineTypes, Detail
<1>2. CASE details[c].scenes = <<>>
  BY <1>2 DEF Cards, ToSet
<1>3. CASE details[c].scenes # <<>>
  <2>1. 1 \in DOMAIN details[c].scenes
    BY <1>1, <1>3, EmptySeq
  <2>2. \A i : CardOf(c, i).chapter = c
    BY DEF CardOf
  <2>3. ToSet(Cards(c)) = {CardOf(c, i) : i \in DOMAIN details[c].scenes}
    BY <1>3, CardsOfScenes DEF ToSet
  <2> QED BY <2>1, <2>2, <2>3
<1> QED BY <1>2, <1>3

LEMMA FirstOfTwo ==
  ASSUME NEW a, NEW b, a # 0
  PROVE  FirstNamed(<<a, b>>) = a
<1> DEFINE named == <<a, b>>
<1>1. SelectInSeq(named, LAMBDA name : name # 0) = 1
  <2> DEFINE I == {i \in 1 .. Len(named) : named[i] # 0}
  <2>1. I \subseteq {1, 2} /\ 1 \in I
    OBVIOUS
  <2>2. SelectInSeq(named, LAMBDA name : name # 0) = IF I # {} THEN Min(I) ELSE 0
    BY DEF SelectInSeq
  <2> HIDE DEF I
  <2>3. I = {1} \/ I = {1, 2}
    BY <2>1
  <2>4. Min(I) = 1
    <3>1. Min({1}) = 1
      BY DEF Min
    <3>2. Min({1, 2}) = 1
      BY DEF Min
    <3> QED BY <2>3, <3>1, <3>2
  <2> QED BY <2>1, <2>2, <2>4
<1>2. named[1] = a
  OBVIOUS
<1> HIDE DEF named
<1>3. FirstNamed(named) = a
  BY <1>1, <1>2 DEF FirstNamed
<1> QED BY <1>3 DEF named

LEMMA ScenesFound == ASSUME OutlineTypes PROVE ScenesAreFound
<1> SUFFICES ASSUME NEW c \in DOMAIN details, NEW i \in DOMAIN details[c].scenes, NEW p \in PovsNamed,
                    details[c].scenes[i].pov # 0
             PROVE  (\E card \in Corkboard(<<>>, p, 0) : card.chapter = c /\ card.scene = i)
                      <=> p = details[c].scenes[i].pov
  BY DEF ScenesAreFound
<1> DEFINE own == details[c].scenes[i].pov
<1>1. details[c].scenes # <<>> /\ p # 0
  <2>1. DOMAIN <<>> = {}
    OBVIOUS
  <2> QED BY <2>1 DEF PovsNamed
<1>2. ToSet(Cards(c)) = {CardOf(c, k) : k \in DOMAIN details[c].scenes}
  BY <1>1, CardsOfScenes DEF ToSet
<1>3. CardOf(c, i).pov = own /\ CardOf(c, i).chapter = c /\ \A k : CardOf(c, k).scene = k
  BY FirstOfTwo DEF CardOf
<1>4. Corkboard(<<>>, p, 0) =
        {card \in UNION {ToSet(Cards(d)) : d \in DOMAIN details} : card.pov = p}
  <2>1. {d \in DOMAIN details : InRange(d, <<>>)} = DOMAIN details
    BY DEF InRange
  <2>2. \A card : IsWanted(card, p, 0) <=> card.pov = p
    BY <1>1 DEF IsWanted
  <2> QED BY <2>1, <2>2 DEF Corkboard
<1>5. ASSUME NEW card \in Corkboard(<<>>, p, 0), card.chapter = c, card.scene = i PROVE p = own
  <2>1. card.pov = p
    BY <1>4
  <2>2. PICK d \in DOMAIN details : card \in ToSet(Cards(d))
    BY <1>4
  <2>3. d = c
    BY <1>5, <2>2, CardsOfChapter
  <2>4. PICK k \in DOMAIN details[c].scenes : card = CardOf(c, k)
    BY <1>2, <2>2, <2>3
  <2>5. k = i
    BY <1>3, <1>5, <2>4
  <2> QED BY <1>3, <2>1, <2>4, <2>5
<1>6. ASSUME p = own PROVE \E card \in Corkboard(<<>>, p, 0) : card.chapter = c /\ card.scene = i
  <2>1. CardOf(c, i) \in ToSet(Cards(c))
    BY <1>2
  <2>2. CardOf(c, i) \in Corkboard(<<>>, p, 0)
    BY <1>3, <1>4, <1>6, <2>1
  <2> QED BY <1>3, <2>2
<1> QED BY <1>5, <1>6

(* PlotGrid and Corkboard lose no plan, for every outline and every        *)
(* detailed outline that may be written (build_plot_grid).                 *)
LEMMA PlansOfTypes ==
  ASSUME OutlineTypes
  PROVE  PlansAreKept
<1> DEFINE every == Fields \cup {"tension"}
           whole == Grid(<<>>, every)
<1>1. \A d : InRange(d, <<>>)
  BY DEF InRange
<1>2. DOMAIN whole = DOMAIN FromOutline(<<>>) \cup DOMAIN details
  <2>1. DOMAIN whole = DOMAIN FromOutline(<<>>) \cup DetailedIn(<<>>)
    <3> HIDE DEF every
    <3> QED BY GridSays
  <2> QED BY <1>1, <2>1 DEF DetailedIn
<1>3. ASSUME NEW c \in DOMAIN whole, NEW f \in Fields PROVE whole[c].from[f] = Shows(c, f, <<>>)
  <2>1. f \in every
    OBVIOUS
  <2> HIDE DEF every
  <2> QED BY <2>1, GridSays
<1> HIDE DEF whole
<1>4. ASSUME NEW i \in DOMAIN outline, known, outline[i].chapter # 0
      PROVE  /\ outline[i].chapter \in DOMAIN whole
             /\ outline[i].bare => outline[i].chapter <= PlannedChapters
             /\ IsLastRow(i) => \A f \in Fields :
                  outline[i].cells[f] = "text" => whole[outline[i].chapter].from[f] = "outline"
  <2> DEFINE c == outline[i].chapter
  <2>1. i \in RowsOfChapter(c, <<>>) /\ i \in 1 .. Len(outline) /\ outline[i] \in Plan
    BY <1>1, <1>4 DEF RowsOfChapter, RowsRead, OutlineTypes
  <2>2. c \in DOMAIN whole
    BY <1>2, <2>1, RowsAreRead
  <2>3. ASSUME outline[i].bare PROVE c <= PlannedChapters
    <3> DEFINE S == {outline[k].chapter : k \in {j \in DOMAIN outline : outline[j].bare}}
    <3>1. \A j \in DOMAIN outline : outline[j].chapter \in 0 .. LastChapter
      <4>1. \A j \in DOMAIN outline : outline[j] \in Plan
        BY DEF OutlineTypes
      <4> QED BY <4>1 DEF Plan, Chapter
    <3>2. c \in S /\ S \subseteq 0 .. LastChapter
      BY <2>3, <3>1
    <3>3. PlannedChapters = Greatest(S)
      BY DEF PlannedChapters
    <3> HIDE DEF S
    <3> QED BY <3>2, <3>3, MaxOfBounded, LastChapterIsNat DEF Greatest
  <2>4. ASSUME IsLastRow(i), NEW f \in Fields, outline[i].cells[f] = "text"
        PROVE  whole[c].from[f] = "outline"
    <3>1. Max(RowsOfChapter(c, <<>>)) = i
      BY <2>1, <2>4, LastRowIs
    <3>2. Says(c, f, <<>>) = "outline"
      BY <2>4, <3>1 DEF Says, Read
    <3>3. Filler(f) # "outline"
      BY DEF Filler
    <3> QED BY <1>3, <2>1, <2>2, <3>2, <3>3 DEF Shows
  <2> QED BY <2>2, <2>3, <2>4
<1>5. ASSUME NEW c \in DOMAIN details, NEW f \in details[c].has
      PROVE  \/ whole[c].from[f] = "detail"
             \/ \E i \in DOMAIN outline :
                  IsLastRow(i) /\ outline[i].chapter = c /\ Hides(f, outline[i].cells[f])
  <2>1. c \in DOMAIN whole /\ f \in Fields /\ f # "time" /\ c \in DetailedIn(<<>>)
    BY <1>1, <1>2 DEF OutlineTypes, Detail, DetailedIn
  <2>2. Detailed(c, f) = "detail"
    BY DEF Detailed
  <2>3. CASE RowsOfChapter(c, <<>>) = {} \/ Says(c, f, <<>>) = Filler(f)
    BY <1>3, <2>1, <2>2, <2>3 DEF Shows
  <2>4. CASE RowsOfChapter(c, <<>>) # {} /\ Says(c, f, <<>>) # Filler(f)
    <3> DEFINE m == Max(RowsOfChapter(c, <<>>))
    <3>1. m \in RowsOfChapter(c, <<>>) /\ IsLastRow(m)
      BY <2>4, LastRowOfChapter, LastRowIs
    <3>2. m \in DOMAIN outline /\ outline[m].chapter = c
      BY <3>1 DEF RowsOfChapter, RowsRead
    <3>3. Read(f, outline[m].cells[f]) # Filler(f)
      BY <2>4 DEF Says
    <3> HIDE DEF m
    <3>4. outline[m].cells[f] \in Filling
      <4>1. outline[m] \in Plan
        BY <3>2 DEF OutlineTypes
      <4> QED BY <2>1, <4>1 DEF Plan
    <3>5. Hides(f, outline[m].cells[f])
      BY <2>1, <3>3, <3>4 DEF Hides, Read, Filler, Filling, Fields
    <3> QED BY <3>1, <3>2, <3>5
  <2> QED BY <2>3, <2>4
<1>6. ASSUME NEW range \in Ranges, NEW shown \in Shown
      PROVE  LET g == Grid(range, shown) IN
             /\ DOMAIN g = {c \in DOMAIN whole : InRange(c, range)}
             /\ \A c \in DOMAIN g : \A f \in shown \cap Fields : g[c].from[f] = whole[c].from[f]
  <2> DEFINE g == Grid(range, shown)
  <2>1. DOMAIN g = DOMAIN FromOutline(range) \cup DetailedIn(range)
    BY GridSays
  <2>2. \A c : c \in DOMAIN g <=> RowsOfChapter(c, range) # {} \/ c \in DetailedIn(range)
    BY <2>1, RowsAreRead
  <2>3. \A c : c \in DOMAIN whole <=> RowsOfChapter(c, <<>>) # {} \/ c \in DetailedIn(<<>>)
    BY <1>1, <1>2, RowsAreRead DEF DetailedIn
  <2>4. ASSUME NEW c \in DOMAIN g, NEW f \in shown \cap Fields PROVE g[c].from[f] = Shows(c, f, range)
    BY GridSays
  <2> HIDE DEF g
  <2>5. DOMAIN g = {c \in DOMAIN whole : InRange(c, range)}
    BY <2>2, <2>3, RangeOnlySelects
  <2>6. ASSUME NEW c \in DOMAIN g, NEW f \in shown \cap Fields PROVE g[c].from[f] = whole[c].from[f]
    <3>1. c \in DOMAIN whole /\ InRange(c, range)
      BY <2>5
    <3>2. Shows(c, f, range) = Shows(c, f, <<>>)
      BY <3>1, RangeOnlySelects DEF Shows, Says
    <3> QED BY <1>3, <2>4, <3>1, <3>2
  <2> QED BY <2>5, <2>6 DEF g
<1>7. {c \in Chapters : StatsFinds(c)} \subseteq StatsCounts /\ Cardinality(StatsCounts) = Completed
  <2>1. \A c \in Chapters : c # 0
    BY DEF Chapters
  <2>2. StatsCounts = DOMAIN written
    BY <2>1 DEF StatsCounts, OutlineTypes
  <2> QED BY <2>2 DEF StatsFinds, Completed
<1>8. DOMAIN written = 1 .. Completed => NextChapter \notin DOMAIN written
  <2>1. IsFiniteSet(Chapters)
    BY LastChapterIsNat, FS_Interval DEF Chapters
  <2>2. Completed \in Nat
    BY <2>1, FS_Subset, FS_CardinalityType DEF Completed, OutlineTypes
  <2> QED BY <2>2 DEF NextChapter
<1>9. ASSUME NEW range \in Ranges
      PROVE  {x.chapter : x \in Corkboard(range, 0, 0)} = DOMAIN details \cap DOMAIN Grid(range, {})
  <2>1. Corkboard(range, 0, 0) = UNION {ToSet(Cards(c)) : c \in DetailedIn(range)}
    BY DEF Corkboard, IsWanted, DetailedIn
  <2>2. \A c \in DetailedIn(range) : c \in DOMAIN details
    BY DEF DetailedIn
  <2>3. {x.chapter : x \in Corkboard(range, 0, 0)} = DetailedIn(range)
    <3>1. ASSUME NEW x \in Corkboard(range, 0, 0) PROVE x.chapter \in DetailedIn(range)
      <4>1. PICK c \in DetailedIn(range) : x \in ToSet(Cards(c))
        BY <2>1
      <4>2. c \in DOMAIN details
        BY <2>2
      <4>3. x.chapter = c
        BY <4>1, <4>2, CardsOfChapter
      <4> QED BY <4>1, <4>3
    <3>2. ASSUME NEW c \in DetailedIn(range)
          PROVE  \E x \in Corkboard(range, 0, 0) : x.chapter = c
      <4>1. PICK x : x \in ToSet(Cards(c))
        BY <2>2, CardsOfChapter
      <4> QED BY <2>1, <2>2, <4>1, CardsOfChapter
    <3> QED BY <3>1, <3>2
  <2>4. DOMAIN Grid(range, {}) = DOMAIN FromOutline(range) \cup DetailedIn(range)
    BY GridSays
  <2>5. \A c \in DOMAIN FromOutline(range) : InRange(c, range)
    BY RowsAreRead, RangeOnlySelects
  <2>6. DOMAIN details \cap DOMAIN Grid(range, {}) = DetailedIn(range)
    BY <2>4, <2>5 DEF DetailedIn
  <2> QED BY <2>3, <2>6
<1>10. DOMAIN details \subseteq DOMAIN whole
  BY <1>2
<1> QED BY <1>4, <1>5, <1>6, <1>7, <1>8, <1>9, <1>10, ScenesFound DEF PlansAreKept, whole

(* PlotGrid, Corkboard, Stats and the hint of progress lose no plan and no *)
(* file, for any outline and any detailed outlines (build_plot_grid,       *)
(* parse_scene_sections, load_progress).                                   *)
THEOREM ThePlansAreKept == OutlineSpec => []PlansAreKept
BY OutlineIsTyped, PlansOfTypes, PTL

(***************************************************************************)
(* TodoList: the list that TodoWrite keeps.                                *)
(***************************************************************************)
(***************************************************************************)
(* The order of the rows.                                                  *)
(***************************************************************************)
Progress == DOMAIN Cycled
Stored == UNION {[S -> [position : Int, status : Progress]] : S \in {R \in SUBSET TodoIds : IsFiniteSet(R)}}

LEMMA TableType ==
  ASSUME NEW held \in Stored
  PROVE  /\ DOMAIN held \subseteq TodoIds /\ IsFiniteSet(DOMAIN held)
         /\ held = [id \in DOMAIN held |-> held[id]]
         /\ \A id \in DOMAIN held : /\ id \in Nat /\ held[id].position \in Int
                                    /\ held[id].status \in Progress
                                    /\ held[id] \in [position : Int, status : Progress]
<1>1. PICK S \in SUBSET TodoIds : IsFiniteSet(S) /\ held \in [S -> [position : Int, status : Progress]]
  BY DEF Stored
<1> QED BY <1>1, TodoBounds

(* Each row has a place of its own, and each place its row.                *)
LEMMA EveryPlaceIsTaken ==
  ASSUME NEW held \in Stored
  PROVE  /\ Cardinality(DOMAIN held) \in Nat
         /\ \A id \in DOMAIN held :
              /\ IsFiniteSet(Before(held, id))
              /\ Cardinality(Before(held, id)) \in Nat
              /\ Cardinality(Before(held, id)) + 1 \in 1 .. Cardinality(DOMAIN held)
         /\ \A a, b \in DOMAIN held : a # b => Cardinality(Before(held, a)) # Cardinality(Before(held, b))
         /\ \A n \in 1 .. Cardinality(DOMAIN held) :
              \E id \in DOMAIN held : Cardinality(Before(held, id)) = n - 1
<1> DEFINE B(id) == Before(held, id)
           n == Cardinality(DOMAIN held)
           place == [id \in DOMAIN held |-> Cardinality(B(id)) + 1]
<1>1. n \in Nat
  BY TableType, FS_CardinalityType
<1>2. \A id \in DOMAIN held : id \in Nat /\ held[id].position \in Int
  BY TableType
<1>3. ASSUME NEW id \in DOMAIN held
      PROVE  IsFiniteSet(B(id)) /\ Cardinality(B(id)) \in 0 .. (n - 1)
  <2>1. B(id) \subseteq DOMAIN held \ {id}
    BY <1>2 DEF Before
  <2>2. IsFiniteSet(DOMAIN held \ {id}) /\ Cardinality(DOMAIN held \ {id}) = n - 1
    BY TableType, FS_RemoveElement
  <2>3. IsFiniteSet(B(id)) /\ Cardinality(B(id)) <= n - 1
    BY <2>1, <2>2, FS_Subset
  <2>4. Cardinality(B(id)) \in Nat
    BY <2>3, FS_CardinalityType
  <2> QED BY <1>1, <2>3, <2>4
<1>4. ASSUME NEW a \in DOMAIN held, NEW b \in DOMAIN held, a \in B(b)
      PROVE  Cardinality(B(a)) # Cardinality(B(b))
  <2>1. B(a) \subseteq B(b) /\ a \notin B(a)
    BY <1>2, <1>4 DEF Before
  <2> HIDE DEF B
  <2> QED BY <1>3, <1>4, <2>1, FS_Subset
<1>5. ASSUME NEW a \in DOMAIN held, NEW b \in DOMAIN held, a # b
      PROVE  Cardinality(B(a)) # Cardinality(B(b))
  <2>1. a \in B(b) \/ b \in B(a)
    BY <1>2, <1>5 DEF Before
  <2> HIDE DEF B
  <2> QED BY <1>4, <2>1
<1>6. \A id \in DOMAIN held : Cardinality(B(id)) \in Nat /\ Cardinality(B(id)) + 1 \in 1 .. n
  <2> HIDE DEF B, n
  <2> QED BY <1>1, <1>3
<1>7. place \in Injection(DOMAIN held, 1 .. n)
  <2> HIDE DEF B, n
  <2>1. place \in [DOMAIN held -> 1 .. n]
    BY <1>6
  <2>2. \A a, b \in DOMAIN held : place[a] = place[b] => a = b
    BY <1>5, <1>6
  <2> HIDE DEF place
  <2> QED BY <2>1, <2>2 DEF Injection, IsInjective
<1>8. IsFiniteSet(1 .. n) /\ Cardinality(1 .. n) = n
  BY <1>1, FS_Interval
<1>9. place \in Surjection(DOMAIN held, 1 .. n)
  <2> HIDE DEF place
  <2> QED BY <1>7, <1>8, FS_Injection
<1>10. ASSUME NEW k \in 1 .. n PROVE \E id \in DOMAIN held : Cardinality(B(id)) = k - 1
  <2>1. PICK id \in DOMAIN held : place[id] = k
    <3> HIDE DEF place
    <3> QED BY <1>9 DEF Surjection
  <2> HIDE DEF B
  <2>2. Cardinality(B(id)) + 1 = k /\ Cardinality(B(id)) \in Nat
    BY <1>6, <2>1
  <2> QED BY <2>2
<1> QED BY <1>1, <1>3, <1>5, <1>6, <1>10

(* What is listed are todos.                                               *)
LEMMA TodosInType ==
  ASSUME NEW held \in Stored
  PROVE  TodosIn(held) \in Seq(Todo)
<1>1. ASSUME NEW i \in 1 .. Cardinality(DOMAIN held) PROVE IdAt(held, i) \in DOMAIN held
  BY EveryPlaceIsTaken DEF IdAt
<1>2. ASSUME NEW i \in 1 .. Cardinality(DOMAIN held)
      PROVE  [id |-> IdAt(held, i), status |-> held[IdAt(held, i)].status] \in Todo
  BY <1>1, TableType DEF Todo, Progress
<1>3. Cardinality(DOMAIN held) \in Nat
  BY EveryPlaceIsTaken
<1> QED BY <1>2, <1>3 DEF TodosIn

(* A list of different ids has as many ids as todos.                       *)
LEMMA CountOfIds ==
  ASSUME NEW list \in Seq(Todo), \A i, j \in DOMAIN list : list[i].id = list[j].id => i = j
  PROVE  \A k \in 0 .. Len(list) :
           /\ IsFiniteSet({list[j].id : j \in 1 .. k})
           /\ Cardinality({list[j].id : j \in 1 .. k}) = k
<1> DEFINE I(k) == {list[j].id : j \in 1 .. k}
           N == {k \in Nat : k <= Len(list) => IsFiniteSet(I(k)) /\ Cardinality(I(k)) = k}
<1>1. 0 \in N
  <2>1. I(0) = {}
    OBVIOUS
  <2> QED BY <2>1, FS_EmptySet
<1>2. ASSUME NEW k \in Nat, k \in N PROVE k + 1 \in N
  <2> SUFFICES ASSUME k + 1 <= Len(list)
               PROVE  IsFiniteSet(I(k + 1)) /\ Cardinality(I(k + 1)) = k + 1
    OBVIOUS
  <2>1. I(k + 1) = I(k) \cup {list[k + 1].id}
    <3>1. 1 .. k + 1 = (1 .. k) \cup {k + 1}
      OBVIOUS
    <3> QED BY <3>1
  <2>2. list[k + 1].id \notin I(k)
    <3>1. \A j \in 1 .. k : j \in DOMAIN list /\ k + 1 \in DOMAIN list /\ j # k + 1
      OBVIOUS
    <3> QED BY <3>1
  <2>3. IsFiniteSet(I(k)) /\ Cardinality(I(k)) = k
    BY <1>2
  <2> HIDE DEF I
  <2>4. /\ IsFiniteSet(I(k) \cup {list[k + 1].id})
        /\ Cardinality(I(k) \cup {list[k + 1].id}) = Cardinality(I(k)) + 1
    BY <2>2, <2>3, FS_AddElement
  <2> QED BY <2>1, <2>3, <2>4
<1> HIDE DEF N
<1>3. Nat \subseteq N
  BY <1>1, <1>2, SetInduction
<1>4. ASSUME NEW k \in 0 .. Len(list) PROVE IsFiniteSet(I(k)) /\ Cardinality(I(k)) = k
  <2>1. k \in N /\ k <= Len(list)
    BY <1>3
  <2> HIDE DEF I
  <2> QED BY <2>1 DEF N
<1> QED BY <1>4

(* The rows hold a list: its ids, in its order, with its statuses.         *)
Hold(held, list) ==
  /\ DOMAIN held = IdsIn(list)
  /\ \A i, j \in DOMAIN list : i < j => held[list[i].id].position < held[list[j].id].position
  /\ \A i \in DOMAIN list : held[list[i].id].status = list[i].status

LEMMA HeldIdsDiffer ==
  ASSUME NEW held \in Stored, NEW list \in Seq(Todo), Hold(held, list)
  PROVE  \A i, j \in DOMAIN list : list[i].id = list[j].id => i = j
<1> SUFFICES ASSUME NEW i \in DOMAIN list, NEW j \in DOMAIN list, i < j
             PROVE  list[i].id # list[j].id
  OBVIOUS
<1>1. held[list[i].id].position < held[list[j].id].position
  BY DEF Hold
<1>2. list[i].id \in DOMAIN held
  BY DEF Hold, IdsIn
<1>3. held[list[i].id].position \in Int
  BY <1>2, TableType
<1> QED BY <1>1, <1>3

LEMMA WhatIsHeldIsListed ==
  ASSUME NEW held \in Stored, NEW list \in Seq(Todo), Hold(held, list)
  PROVE  TodosIn(held) = list
<1>1. \A i, j \in DOMAIN list : list[i].id = list[j].id => i = j
  BY HeldIdsDiffer
<1>2. DOMAIN held = {list[j].id : j \in 1 .. Len(list)}
  BY DEF Hold, IdsIn
<1>3. Cardinality(DOMAIN held) = Len(list)
  BY <1>1, <1>2, CountOfIds, Len(list) \in 0 .. Len(list)
<1>4. ASSUME NEW i \in 1 .. Len(list)
      PROVE  Before(held, list[i].id) = {list[j].id : j \in 1 .. (i - 1)}
  <2>1. ASSUME NEW j \in 1 .. Len(list)
        PROVE  list[j].id \in Before(held, list[i].id) <=> j < i
    <3>1. list[i].id \in DOMAIN held /\ list[j].id \in DOMAIN held
      BY <1>2
    <3>2. held[list[i].id].position \in Int /\ held[list[j].id].position \in Int
          /\ list[i].id \in Nat
      BY <3>1, TableType
    <3>3. j < i => held[list[j].id].position < held[list[i].id].position
      BY DEF Hold
    <3>4. i < j => held[list[i].id].position < held[list[j].id].position
      BY DEF Hold
    <3> QED BY <3>1, <3>2, <3>3, <3>4 DEF Before
  <2>2. Before(held, list[i].id) \subseteq {list[j].id : j \in 1 .. (i - 1)}
    <3> SUFFICES ASSUME NEW a \in Before(held, list[i].id)
                 PROVE  a \in {list[j].id : j \in 1 .. (i - 1)}
      OBVIOUS
    <3>1. PICK j \in 1 .. Len(list) : a = list[j].id
      BY <1>2 DEF Before
    <3>2. j \in 1 .. (i - 1)
      BY <2>1, <3>1
    <3> QED BY <3>1, <3>2
  <2>3. {list[j].id : j \in 1 .. (i - 1)} \subseteq Before(held, list[i].id)
    BY <2>1
  <2> QED BY <2>2, <2>3
<1>5. ASSUME NEW i \in 1 .. Len(list) PROVE Cardinality(Before(held, list[i].id)) = i - 1
  <2>1. i - 1 \in 0 .. Len(list)
    OBVIOUS
  <2> QED BY <1>1, <1>4, <2>1, CountOfIds
<1>6. ASSUME NEW i \in 1 .. Len(list) PROVE IdAt(held, i) = list[i].id
  <2>1. list[i].id \in DOMAIN held
    BY <1>2
  <2>2. \A a \in DOMAIN held : Cardinality(Before(held, a)) = i - 1 => a = list[i].id
    BY <1>5, <2>1, EveryPlaceIsTaken
  <2> QED BY <1>5, <2>1, <2>2 DEF IdAt
<1>7. ASSUME NEW i \in 1 .. Len(list)
      PROVE  [id |-> IdAt(held, i), status |-> held[IdAt(held, i)].status] = list[i]
  <2>1. held[list[i].id].status = list[i].status
    BY DEF Hold
  <2>2. list[i] \in Todo
    OBVIOUS
  <2> QED BY <1>6, <2>1, <2>2 DEF Todo
<1>8. TodosIn(held) = [i \in 1 .. Len(list) |-> list[i]]
  BY <1>3, <1>7 DEF TodosIn
<1> QED BY <1>8

(***************************************************************************)
(* What a batch leads to.                                                  *)
(***************************************************************************)
IsLast(list, id, k) ==
  k \in DOMAIN list /\ list[k].id = id /\ \A j \in DOMAIN list : list[j].id = id => j <= k
IsFirst(list, id, k) ==
  k \in DOMAIN list /\ list[k].id = id /\ \A j \in 1 .. (k - 1) : list[j].id # id

LEMMA LastOfId ==
  ASSUME NEW list \in Seq(Todo), NEW id \in IdsIn(list)
  PROVE  \E k : IsLast(list, id, k) /\ LastIn(list, id) = list[k]
<1> DEFINE P == {i \in DOMAIN list : list[i].id = id}
           D == {Len(list) - i : i \in P}
<1>1. D \subseteq Nat /\ D # {} /\ P \subseteq Nat
  BY DEF IdsIn
<1>2. PICK m \in D : \A d \in D : m <= d
  <2> HIDE DEF D
  <2> QED BY <1>1, LeastNumber
<1>3. PICK k \in P : m = Len(list) - k
  BY <1>2
<1>4. ASSUME NEW j \in P PROVE j <= k
  <2>1. m <= Len(list) - j
    BY <1>2
  <2>2. j \in 1 .. Len(list) /\ k \in 1 .. Len(list) /\ Len(list) \in Nat
    OBVIOUS
  <2> HIDE DEF P, D
  <2> QED BY <1>3, <2>1, <2>2
<1>5. Max(P) \in P /\ \A j \in P : j <= Max(P)
  <2> HIDE DEF P, D
  <2> QED BY <1>1, <1>4 DEF Max
<1> QED BY <1>5 DEF IsLast, LastIn

LEMMA FirstOfId ==
  ASSUME NEW list \in Seq(Todo), NEW id \in IdsIn(list)
  PROVE  \E k : IsFirst(list, id, k)
<1> DEFINE P == {i \in DOMAIN list : list[i].id = id}
<1>1. P \subseteq Nat /\ P # {}
  BY DEF IdsIn
<1>2. PICK k \in P : \A j \in P : k <= j
  <2> HIDE DEF P
  <2> QED BY <1>1, LeastNumber
<1>3. ASSUME NEW j \in 1 .. (k - 1) PROVE list[j].id # id
  <2>1. j \in DOMAIN list /\ ~(k <= j)
    OBVIOUS
  <2> QED BY <1>2, <2>1
<1> QED BY <1>3 DEF IsFirst

(* What Once keeps: at the first place of each id its last todo.           *)
LEMMA OnceKeeps ==
  ASSUME NEW list \in Seq(Todo)
  PROVE  /\ Once(list) \in Seq(Todo)
         /\ \E e \in [DOMAIN Once(list) -> DOMAIN list] :
              /\ \A i, j \in DOMAIN Once(list) : i < j => e[i] < e[j]
              /\ \A i \in DOMAIN Once(list) : /\ IsFirst(list, list[e[i]].id, e[i])
                                              /\ Once(list)[i] = LastIn(list, list[e[i]].id)
              /\ \A k : IsFirst(list, list[k].id, k) => \E i \in DOMAIN Once(list) : e[i] = k
<1> DEFINE s == [i \in DOMAIN list |-> i]
           F == {i \in DOMAIN list : \A j \in 1 .. i - 1 : list[j].id # list[i].id}
           T == 1 .. Len(list)
           kept == Kept(s, F)
<1>1. s \in Seq(T) /\ Len(s) = Len(list) /\ \A i \in T : s[i] = i
  OBVIOUS
<1> HIDE DEF s, F
<1>2. PICK e : Places(s, F, e)
  BY <1>1, KeptPlaces
<1>3. kept \in Seq(T) /\ kept \in Seq(T \cap F)
  BY <1>1, KeptType
<1>4. DOMAIN kept = 1 .. Len(kept) /\ Len(kept) \in Nat
  BY <1>3
<1>5. \A i \in DOMAIN kept : kept[i] = e[i] /\ e[i] \in T /\ e[i] \in F
  <2> SUFFICES ASSUME NEW i \in DOMAIN kept PROVE kept[i] = e[i] /\ e[i] \in T /\ e[i] \in F
    OBVIOUS
  <2>1. e[i] \in T /\ kept[i] = s[e[i]]
    BY <1>1, <1>2, <1>4 DEF Places
  <2>2. kept[i] \in F
    BY <1>3
  <2> QED BY <1>1, <2>1, <2>2
<1>6. \A i, j \in DOMAIN kept : i < j => e[i] < e[j]
  BY <1>2, <1>4 DEF Places
<1>7. \A k \in T : k \in F => \E i \in DOMAIN kept : e[i] = k
  BY <1>1, <1>2, <1>4 DEF Places
<1>8. e \in [DOMAIN kept -> DOMAIN list]
  BY <1>1, <1>2, <1>4 DEF Places
<1>9. Once(list) = [i \in DOMAIN kept |-> LastIn(list, list[kept[i]].id)]
  BY DEF Once, s, F
<1>10. ASSUME NEW i \in DOMAIN kept PROVE LastIn(list, list[kept[i]].id) \in Todo
  <2>1. list[kept[i]].id \in IdsIn(list)
    BY <1>5 DEF IdsIn
  <2> QED BY <2>1, LastOfId DEF IsLast
<1> HIDE DEF kept
<1>11. Once(list) \in Seq(Todo)
  BY <1>4, <1>9, <1>10
<1>12. DOMAIN Once(list) = DOMAIN kept
  BY <1>9
<1>13. \A i \in DOMAIN kept : IsFirst(list, list[e[i]].id, e[i])
  BY <1>5 DEF IsFirst, F
<1>14. \A k : IsFirst(list, list[k].id, k) => \E i \in DOMAIN kept : e[i] = k
  BY <1>7 DEF IsFirst, F
<1>15. \A i \in DOMAIN kept : Once(list)[i] = LastIn(list, list[e[i]].id)
  BY <1>5, <1>9
<1> QED BY <1>6, <1>8, <1>11, <1>12, <1>13, <1>14, <1>15

(* A list of different ids is left as it is.                               *)
LEMMA OnceOfDifferent ==
  ASSUME NEW list \in Seq(Todo), \A i, j \in DOMAIN list : list[i].id = list[j].id => i = j
  PROVE  Once(list) = list
<1> DEFINE s == [i \in DOMAIN list |-> i]
           F == {i \in DOMAIN list : \A j \in 1 .. i - 1 : list[j].id # list[i].id}
<1>1. s \in Seq(Nat) /\ Len(s) = Len(list) /\ DOMAIN s = DOMAIN list /\ \A i \in DOMAIN list : s[i] = i
  OBVIOUS
<1>2. \A i \in 1 .. Len(s) : s[i] \in F
  <2> SUFFICES ASSUME NEW i \in DOMAIN list, NEW j \in 1 .. i - 1 PROVE list[j].id # list[i].id
    BY <1>1
  <2>1. j \in DOMAIN list /\ j # i
    OBVIOUS
  <2> QED BY <2>1
<1> HIDE DEF s, F
<1>3. Kept(s, F) = s
  BY <1>1, <1>2, KeptAll
<1>4. Once(list) = [i \in DOMAIN list |-> LastIn(list, list[s[i]].id)]
  BY <1>1, <1>3 DEF Once, s, F
<1>5. ASSUME NEW i \in DOMAIN list PROVE LastIn(list, list[s[i]].id) = list[i]
  <2>1. list[i].id \in IdsIn(list) /\ s[i] = i
    BY <1>1 DEF IdsIn
  <2> QED BY <2>1, LastOfId DEF IsLast
<1> QED BY <1>4, <1>5

(* At most one in progress.                                                *)
Single(list) ==
  \A i, j \in DOMAIN list : list[i].status = "in_progress" /\ list[j].status = "in_progress" => i = j

LEMMA CountInProgress ==
  ASSUME NEW list \in Seq(Todo)
  PROVE  InProgress(list) <= 1 <=> Single(list)
<1> DEFINE P == {i \in DOMAIN list : list[i].status = "in_progress"}
<1>1. IsFiniteSet(P) /\ Cardinality(P) \in Nat
  <2>1. IsFiniteSet(1 .. Len(list))
    BY FS_Interval
  <2>2. P \in SUBSET (1 .. Len(list))
    OBVIOUS
  <2> HIDE DEF P
  <2> QED BY <2>1, <2>2, FS_Subset, FS_CardinalityType
<1>2. Single(list) <=> \A i, j \in P : i = j
  BY DEF Single
<1>3. InProgress(list) = Cardinality(P)
  BY DEF InProgress
<1> HIDE DEF P
<1>4. ASSUME Cardinality(P) <= 1 PROVE \A i, j \in P : i = j
  <2>1. Cardinality(P) = 0 \/ Cardinality(P) = 1
    BY <1>1, <1>4
  <2>2. P = {} \/ \E x : P = {x}
    BY <1>1, <2>1, FS_EmptySet, FS_Singleton
  <2> QED BY <2>2
<1>5. ASSUME \A i, j \in P : i = j PROVE Cardinality(P) <= 1
  <2>1. P = {} \/ \E x : P = {x}
    <3> SUFFICES ASSUME P # {} PROVE \E x : P = {x}
      OBVIOUS
    <3>1. PICK x : x \in P
      OBVIOUS
    <3>2. P = {x}
      BY <1>5, <3>1
    <3> QED BY <3>2
  <2>2. Cardinality(P) = 0 \/ Cardinality(P) = 1
    BY <1>1, <2>1, FS_EmptySet, FS_Singleton
  <2> QED BY <2>2
<1> QED BY <1>2, <1>3, <1>4, <1>5

LEMMA OnceIsSingle ==
  ASSUME NEW list \in Seq(Todo), Single(list)
  PROVE  Single(Once(list))
<1>1. PICK e \in [DOMAIN Once(list) -> DOMAIN list] :
        /\ \A i, j \in DOMAIN Once(list) : i < j => e[i] < e[j]
        /\ \A i \in DOMAIN Once(list) : /\ IsFirst(list, list[e[i]].id, e[i])
                                        /\ Once(list)[i] = LastIn(list, list[e[i]].id)
  BY OnceKeeps
<1>2. ASSUME NEW i \in DOMAIN Once(list), NEW j \in DOMAIN Once(list), i < j,
             Once(list)[i].status = "in_progress", Once(list)[j].status = "in_progress"
      PROVE  FALSE
  <2>1. list[e[i]].id \in IdsIn(list) /\ list[e[j]].id \in IdsIn(list)
    BY DEF IdsIn
  <2>2. PICK k : IsLast(list, list[e[i]].id, k) /\ Once(list)[i] = list[k]
    BY <1>1, <2>1, LastOfId
  <2>3. PICK l : IsLast(list, list[e[j]].id, l) /\ Once(list)[j] = list[l]
    BY <1>1, <2>1, LastOfId
  <2>4. k = l
    BY <1>2, <2>2, <2>3 DEF IsLast, Single
  <2>5. list[e[i]].id = list[e[j]].id
    BY <2>2, <2>3, <2>4 DEF IsLast
  <2>6. e[i] < e[j] /\ e[i] \in 1 .. Len(list) /\ e[j] \in 1 .. Len(list)
    BY <1>1, <1>2
  <2>7. e[i] \in 1 .. (e[j] - 1)
    BY <2>6
  <2> QED BY <1>1, <2>5, <2>7 DEF IsFirst
<1>3. DOMAIN Once(list) \subseteq Nat
  BY OnceKeeps
<1> SUFFICES ASSUME NEW i \in DOMAIN Once(list), NEW j \in DOMAIN Once(list),
                    Once(list)[i].status = "in_progress", Once(list)[j].status = "in_progress"
             PROVE  i = j
  BY DEF Single
<1>4. i \in Nat /\ j \in Nat
  BY <1>3
<1> QED BY <1>2, <1>4

LEMMA ProjectedType ==
  ASSUME NEW list \in Seq(Todo), NEW todos \in Seq(Todo), NEW replace \in BOOLEAN
  PROVE  Projected(list, todos, replace) \in Seq(Todo)
<1>1. CASE replace
  BY <1>1 DEF Projected
<1>2. CASE ~replace
  <2>1. ASSUME NEW i \in DOMAIN list, list[i].id \in IdsIn(todos)
        PROVE  LastIn(todos, list[i].id) \in Todo
    BY <2>1, LastOfId DEF IsLast
  <2>2. \A i \in DOMAIN list :
          (IF list[i].id \in IdsIn(todos) THEN LastIn(todos, list[i].id) ELSE list[i]) \in Todo
    BY <2>1
  <2>3. Projected(list, todos, replace)
          = [i \in 1 .. Len(list) |-> IF list[i].id \in IdsIn(todos)
                                      THEN LastIn(todos, list[i].id) ELSE list[i]]
    BY <1>2 DEF Projected
  <2> QED BY <2>2, <2>3
<1> QED BY <1>1, <1>2

LEMMA ApplicableType ==
  ASSUME NEW list, NEW todos \in Seq(Todo), NEW replace \in BOOLEAN
  PROVE  Applicable(list, todos, replace) \in Seq(Todo)
BY KeptType DEF Applicable

(* The rows after the first n todos of a batch that replaces the list, and *)
(* of one that changes what is in it.                                      *)
Replaced(held, todos, n) ==
  /\ DOMAIN held = {todos[i].id : i \in 1 .. n}
  /\ \A id \in DOMAIN held : \E i \in 1 .. n : /\ IsFirst(todos, id, i) /\ held[id].position = i - 1
  /\ \A id \in DOMAIN held : \E k \in 1 .. n :
       /\ todos[k].id = id /\ held[id].status = todos[k].status
       /\ \A j \in k + 1 .. n : todos[j].id # id
Updated(held, list, todos, n) ==
  /\ DOMAIN held = IdsIn(list)
  /\ \A i, j \in DOMAIN list : i < j => held[list[i].id].position < held[list[j].id].position
  /\ \A i \in DOMAIN list :
       \/ /\ \A j \in 1 .. n : todos[j].id # list[i].id
          /\ held[list[i].id].status = list[i].status
       \/ \E k \in 1 .. n : /\ todos[k].id = list[i].id
                            /\ held[list[i].id].status = todos[k].status
                            /\ \A j \in k + 1 .. n : todos[j].id # list[i].id

(* Where a write stands while nothing disturbs it.                         *)
Stands(w) ==
  LET me == writer[w] IN
  /\ Single(Projected(meant, me.todos, me.replace))
  /\ me.at <= Len(me.todos) + 1
  /\ me.phase = "delete" => me.replace /\ me.at = 1
  /\ me.phase = "put" => /\ me.replace => me.position = me.at - 1
                         /\ ~me.replace => me.todos[me.at].id \in DOMAIN todoRows
  /\ me.phase # "delete" /\ me.replace => Replaced(todoRows, me.todos, me.at - 1)
  /\ ~me.replace => Updated(todoRows, meant, me.todos, me.at - 1)

WriterStates ==
  {Idle, Done}
    \cup [phase : {"delete", "find"}, todos : Seq(Todo), replace : BOOLEAN, at : Nat \ {0}]
    \cup {s \in [phase : {"put"}, todos : Seq(Todo), replace : BOOLEAN, at : Nat \ {0}, position : Int] :
             s.at <= Len(s.todos)}
TodoTypes ==
  /\ todoRows \in Stored /\ writer \in [Writers -> WriterStates]
  /\ events \in Seq(Seq(Todo)) /\ bar \in Seq(Todo) /\ meant \in Seq(Todo)
  /\ answer = NoAnswer \/ answer \in [on : {TRUE}, list : Seq(Todo)]
  /\ troubled \in BOOLEAN /\ overtaken \in BOOLEAN
OneWriter == \A v, w \in Writers : InWrite(v) /\ InWrite(w) => v = w
Rests == Hold(todoRows, meant) /\ Single(meant)
WritesInv ==
  ~troubled => /\ OneWriter
               /\ \A w \in Writers : InWrite(w) => Stands(w)
               /\ (\A w \in Writers : ~InWrite(w)) => Rests
News == IF events # <<>> THEN events[Len(events)] ELSE IF answer # NoAnswer THEN answer.list ELSE bar
NewsInv == (\A w \in Writers : writer[w] = Idle) /\ ~overtaken => News = TodosIn(todoRows)

LEMMA TodosStart == TodosInit => TodoTypes /\ WritesInv /\ NewsInv
<1> SUFFICES ASSUME TodosInit PROVE TodoTypes /\ WritesInv /\ NewsInv
  OBVIOUS
<1>1. todoRows \in [{} -> [position : Int, status : Progress]] /\ todoRows \in Stored
  <2>1. todoRows \in [{} -> [position : Int, status : Progress]]
    BY DEF TodosInit
  <2>2. {} \in {R \in SUBSET TodoIds : IsFiniteSet(R)}
    BY FS_EmptySet
  <2> QED BY <2>1, <2>2 DEF Stored
<1>2. TodoTypes
  <2>1. Idle \in WriterStates
    BY DEF WriterStates
  <2>2. writer \in [Writers -> WriterStates]
    BY <2>1 DEF TodosInit
  <2>3. <<>> \in Seq(Seq(Todo)) /\ <<>> \in Seq(Todo)
    OBVIOUS
  <2> QED BY <1>1, <2>2, <2>3 DEF TodosInit, TodoTypes
<1>3. \A w \in Writers : ~InWrite(w)
  BY DEF TodosInit, InWrite, Idle
<1>4. Rests
  BY DEF TodosInit, Rests, Hold, Single, IdsIn
<1>5. Hold(todoRows, <<>>) /\ <<>> \in Seq(Todo)
  BY <1>4 DEF TodosInit, Rests
<1>6. TodosIn(todoRows) = <<>>
  BY <1>1, <1>5, WhatIsHeldIsListed
<1>7. News = <<>>
  BY DEF News, TodosInit
<1> QED BY <1>2, <1>3, <1>4, <1>6, <1>7 DEF WritesInv, OneWriter, NewsInv

(***************************************************************************)
(* A batch that has been applied to its end.                               *)
(***************************************************************************)
LEMMA ReplacedHolds ==
  ASSUME NEW held \in Stored, NEW list \in Seq(Todo), Replaced(held, list, Len(list))
  PROVE  Hold(held, Once(list))
<1>1. PICK e \in [DOMAIN Once(list) -> DOMAIN list] :
        /\ \A i, j \in DOMAIN Once(list) : i < j => e[i] < e[j]
        /\ \A i \in DOMAIN Once(list) : /\ IsFirst(list, list[e[i]].id, e[i])
                                        /\ Once(list)[i] = LastIn(list, list[e[i]].id)
        /\ \A k : IsFirst(list, list[k].id, k) => \E i \in DOMAIN Once(list) : e[i] = k
  BY OnceKeeps
<1>2. ASSUME NEW i \in DOMAIN Once(list)
      PROVE  /\ Once(list)[i].id = list[e[i]].id
             /\ Once(list)[i].id \in DOMAIN held
             /\ held[Once(list)[i].id].position = e[i] - 1
             /\ held[Once(list)[i].id].status = Once(list)[i].status
  <2> DEFINE id == list[e[i]].id
  <2>1. id \in IdsIn(list) /\ id \in DOMAIN held /\ e[i] \in 1 .. Len(list)
    BY DEF IdsIn, Replaced
  <2>2. PICK k : IsLast(list, id, k) /\ Once(list)[i] = list[k]
    BY <1>1, <2>1, LastOfId
  <2>3. PICK f \in 1 .. Len(list) : IsFirst(list, id, f) /\ held[id].position = f - 1
    BY <2>1 DEF Replaced
  <2>4. f = e[i]
    <3>1. IsFirst(list, id, e[i])
      BY <1>1
    <3>2. ~(f < e[i]) /\ ~(e[i] < f)
      BY <2>1, <2>3, <3>1 DEF IsFirst
    <3> QED BY <2>1, <3>2
  <2>5. PICK l \in 1 .. Len(list) : /\ list[l].id = id /\ held[id].status = list[l].status
                                    /\ \A j \in l + 1 .. Len(list) : list[j].id # id
    BY <2>1 DEF Replaced
  <2>6. l = k
    <3>1. k \in 1 .. Len(list) /\ list[k].id = id /\ l <= k
      BY <2>2, <2>5 DEF IsLast
    <3>2. ~(l < k)
      BY <2>5, <3>1
    <3> QED BY <3>1, <3>2
  <2> QED BY <2>1, <2>2, <2>3, <2>4, <2>5, <2>6 DEF IsLast
<1>3. \A id \in DOMAIN held : \E i \in DOMAIN Once(list) : Once(list)[i].id = id
  <2> SUFFICES ASSUME NEW id \in DOMAIN held
               PROVE  \E i \in DOMAIN Once(list) : Once(list)[i].id = id
    OBVIOUS
  <2>1. PICK f \in 1 .. Len(list) : IsFirst(list, id, f)
    BY DEF Replaced
  <2>2. IsFirst(list, list[f].id, f) /\ list[f].id = id
    BY <2>1 DEF IsFirst
  <2>3. PICK i \in DOMAIN Once(list) : e[i] = f
    BY <1>1, <2>2
  <2> QED BY <1>2, <2>2, <2>3
<1>4. DOMAIN held = IdsIn(Once(list))
  BY <1>2, <1>3 DEF IdsIn
<1>5. ASSUME NEW i \in DOMAIN Once(list), NEW j \in DOMAIN Once(list), i < j
      PROVE  held[Once(list)[i].id].position < held[Once(list)[j].id].position
  <2>1. e[i] < e[j] /\ e[i] \in 1 .. Len(list) /\ e[j] \in 1 .. Len(list)
    BY <1>1, <1>5
  <2>2. held[Once(list)[i].id].position = e[i] - 1 /\ held[Once(list)[j].id].position = e[j] - 1
    BY <1>2
  <2> QED BY <2>1, <2>2
<1> QED BY <1>2, <1>4, <1>5 DEF Hold

LEMMA UpdatedHolds ==
  ASSUME NEW held \in Stored, NEW list \in Seq(Todo), NEW todos \in Seq(Todo),
         Updated(held, list, todos, Len(todos))
  PROVE  Hold(held, Projected(list, todos, FALSE))
<1> DEFINE after == Projected(list, todos, FALSE)
<1>1. after = [i \in DOMAIN list |-> IF list[i].id \in IdsIn(todos)
                                     THEN LastIn(todos, list[i].id) ELSE list[i]]
  BY DEF Projected
<1> HIDE DEF after
<1>2. ASSUME NEW i \in DOMAIN list
      PROVE  after[i].id = list[i].id /\ held[after[i].id].status = after[i].status
  <2>1. CASE list[i].id \in IdsIn(todos)
    <3>1. PICK k : IsLast(todos, list[i].id, k) /\ after[i] = todos[k]
      BY <1>1, <2>1, LastOfId
    <3>2. k \in 1 .. Len(todos) /\ todos[k].id = list[i].id
      BY <3>1 DEF IsLast
    <3>3. PICK l \in 1 .. Len(todos) : /\ todos[l].id = list[i].id
                                       /\ held[list[i].id].status = todos[l].status
                                       /\ \A j \in l + 1 .. Len(todos) : todos[j].id # list[i].id
      BY <3>2 DEF Updated
    <3>4. l <= k /\ ~(l < k)
      BY <3>1, <3>2, <3>3 DEF IsLast
    <3>5. l = k
      BY <3>2, <3>4
    <3> QED BY <3>1, <3>2, <3>3, <3>5
  <2>2. CASE list[i].id \notin IdsIn(todos)
    <3>1. after[i] = list[i]
      BY <1>1, <2>2
    <3>2. \A k \in 1 .. Len(todos) : todos[k].id # list[i].id
      BY <2>2 DEF IdsIn
    <3> QED BY <3>1, <3>2 DEF Updated
  <2> QED BY <2>1, <2>2
<1>3. DOMAIN after = DOMAIN list
  BY <1>1
<1>4. DOMAIN held = IdsIn(after)
  BY <1>2, <1>3 DEF Updated, IdsIn
<1>5. \A i, j \in DOMAIN after : i < j => held[after[i].id].position < held[after[j].id].position
  BY <1>2, <1>3 DEF Updated
<1>6. Hold(held, after)
  BY <1>2, <1>3, <1>4, <1>5 DEF Hold
<1> QED BY <1>6 DEF after

(***************************************************************************)
(* A step that leaves the rows and every write alone.                      *)
(***************************************************************************)
LEMMA QuietKeepsWrites ==
  ASSUME WritesInv, todoRows' = todoRows, meant' = meant, troubled' = troubled,
         \A w \in Writers : InWrite(w)' <=> InWrite(w),
         \A w \in Writers : InWrite(w) => writer'[w] = writer[w]
  PROVE  WritesInv'
<1> SUFFICES ASSUME ~troubled PROVE /\ OneWriter'
                                    /\ \A w \in Writers : InWrite(w)' => Stands(w)'
                                    /\ (\A w \in Writers : ~InWrite(w)') => Rests'
  BY DEF WritesInv
<1>1. OneWriter'
  BY DEF WritesInv, OneWriter
<1>2. ASSUME NEW w \in Writers, InWrite(w)' PROVE Stands(w)'
  <2>1. InWrite(w) /\ writer'[w] = writer[w]
    BY <1>2
  <2>2. Stands(w)
    BY <2>1 DEF WritesInv
  <2> QED BY <2>1, <2>2 DEF Stands
<1>3. (\A w \in Writers : ~InWrite(w)') => Rests'
  BY DEF WritesInv, Rests
<1> QED BY <1>1, <1>2, <1>3

(* The writer of a step and the others.                                    *)
LEMMA TheOthersStay ==
  ASSUME TodoTypes, NEW w \in Writers, NEW to, writer' = [writer EXCEPT ![w] = to]
  PROVE  /\ writer'[w] = to
         /\ \A v \in Writers \ {w} : writer'[v] = writer[v] /\ (InWrite(v)' <=> InWrite(v))
         /\ to \in WriterStates => writer' \in [Writers -> WriterStates]
BY DEF TodoTypes, InWrite

(* A batch begins.                                                         *)
LEMMA BeginKeepsWrites ==
  ASSUME TodoTypes, WritesInv, NEW w \in Writers, writer[w] = Idle,
         NEW todos \in Seq(Todo), NEW replace \in BOOLEAN, Begins(w, todos, replace),
         IsValid(TodosIn(todoRows), todos, replace), todoRows' = todoRows, meant' = meant
  PROVE  /\ WritesInv' /\ writer' \in [Writers -> WriterStates] /\ troubled' \in BOOLEAN
         /\ writer'[w] # Idle
<1> DEFINE to == [phase |-> IF replace THEN "delete" ELSE "find", todos |-> todos,
                  replace |-> replace, at |-> 1]
<1>1. writer' = [writer EXCEPT ![w] = to] /\ troubled' = (troubled \/ \E v \in Writers \ {w} : InWrite(v))
  BY DEF Begins
<1>2. to \in WriterStates /\ to.phase \in {"delete", "find"} /\ to.phase = (IF replace THEN "delete" ELSE "find")
      /\ to.todos = todos /\ to.replace = replace /\ to.at = 1
  BY DEF WriterStates
<1> HIDE DEF to
<1>3. /\ writer'[w] = to
      /\ \A v \in Writers \ {w} : writer'[v] = writer[v] /\ (InWrite(v)' <=> InWrite(v))
      /\ writer' \in [Writers -> WriterStates]
  BY <1>1, <1>2, TheOthersStay
<1>4. writer'[w] # Idle
  BY <1>2, <1>3 DEF Idle
<1>5. ASSUME ~troubled' PROVE OneWriter' /\ (\A v \in Writers : InWrite(v)' => Stands(v)') /\ InWrite(w)'
  <2>1. ~troubled /\ \A v \in Writers \ {w} : ~InWrite(v)
    BY <1>1, <1>5
  <2>2. ~InWrite(w)
    BY DEF InWrite, Idle
  <2>3. Rests
    BY <2>1, <2>2 DEF WritesInv
  <2>4. TodosIn(todoRows) = meant
    BY <2>3, WhatIsHeldIsListed DEF Rests, TodoTypes
  <2>5. Single(Projected(meant, todos, replace))
    BY <2>4, ProjectedType, CountInProgress DEF IsValid, TodoTypes
  <2>6. ~replace => Updated(todoRows, meant, todos, 0)
    BY <2>3 DEF Rests, Hold, Updated
  <2>7. Stands(w)'
    BY <1>2, <1>3, <2>5, <2>6 DEF Stands
  <2>8. \A v \in Writers \ {w} : ~InWrite(v)'
    BY <1>3, <2>1
  <2>9. InWrite(w)'
    BY <1>2, <1>3 DEF InWrite
  <2> QED BY <2>7, <2>8, <2>9 DEF OneWriter
<1>6. WritesInv'
  BY <1>5 DEF WritesInv
<1>7. troubled' \in BOOLEAN
  BY <1>1 DEF TodoTypes
<1> QED BY <1>3, <1>4, <1>6, <1>7

(* A step of the only write under way.                                     *)
LEMMA WriteKeepsWrites ==
  ASSUME TodoTypes, WritesInv, NEW w \in Writers, InWrite(w), NEW to, writer' = [writer EXCEPT ![w] = to],
         to.phase \in {"find", "put"}, ~troubled /\ Stands(w) => Stands(w)',
         meant' = meant, troubled' = troubled
  PROVE  WritesInv'
<1> SUFFICES ASSUME ~troubled PROVE /\ OneWriter'
                                    /\ \A v \in Writers : InWrite(v)' => Stands(v)'
                                    /\ (\A v \in Writers : ~InWrite(v)') => Rests'
  BY DEF WritesInv
<1>1. InWrite(w)' /\ \A v \in Writers \ {w} : InWrite(v)' <=> InWrite(v)
  BY TheOthersStay DEF InWrite
<1>2. \A v \in Writers \ {w} : ~InWrite(v)
  BY DEF WritesInv, OneWriter
<1>3. Stands(w)'
  BY DEF WritesInv
<1> QED BY <1>1, <1>2, <1>3 DEF OneWriter

(***************************************************************************)
(* The steps.                                                              *)
(***************************************************************************)
TodoInv == TodoTypes /\ WritesInv /\ NewsInv

LEMMA NoNewsWhileBusy ==
  ASSUME NEW w \in Writers, writer'[w] # Idle
  PROVE  NewsInv'
BY DEF NewsInv

LEMMA PhaseTypes ==
  ASSUME TodoTypes, NEW w \in Writers
  PROVE  /\ writer[w] \in WriterStates
         /\ InWrite(w) => /\ writer[w].todos \in Seq(Todo) /\ writer[w].replace \in BOOLEAN
                          /\ writer[w].at \in Nat \ {0}
         /\ writer[w].phase \in {"delete", "find"} =>
              writer[w] \in [phase : {"delete", "find"}, todos : Seq(Todo), replace : BOOLEAN, at : Nat \ {0}]
         /\ writer[w].phase = "put" => /\ writer[w].position \in Int
                                       /\ writer[w].at <= Len(writer[w].todos)
<1>1. writer[w] \in WriterStates
  BY DEF TodoTypes
<1>2. CASE writer[w] \in {Idle, Done}
  BY <1>1, <1>2 DEF InWrite, Idle, Done
<1>3. CASE writer[w] \in [phase : {"delete", "find"}, todos : Seq(Todo), replace : BOOLEAN, at : Nat \ {0}]
  BY <1>1, <1>3
<1>4. CASE writer[w] \in {s \in [phase : {"put"}, todos : Seq(Todo), replace : BOOLEAN, at : Nat \ {0},
                                  position : Int] : s.at <= Len(s.todos)}
  BY <1>1, <1>4
<1> QED BY <1>1, <1>2, <1>3, <1>4 DEF WriterStates

LEMMA DoneIsNotWriting ==
  /\ Done \in WriterStates /\ Idle \in WriterStates /\ Done # Idle
  /\ \A w : writer[w] = Done \/ writer[w] = Idle => ~InWrite(w)
  /\ \A w : writer'[w] = Done \/ writer'[w] = Idle => ~InWrite(w)'
BY DEF WriterStates, Done, Idle, InWrite

LEMMA CallKeeps ==
  ASSUME TodoInv, NEW w \in Tools, NEW todos \in TodoBatches, NEW replace \in BOOLEAN,
         CallTodoWrite(w, todos, replace)
  PROVE  TodoInv'
<1> DEFINE existing == TodosIn(todoRows)
           apply == Applicable(existing, todos, replace)
<1>1. w \in Writers /\ todos \in Seq(Todo) /\ writer[w] = Idle
  BY TodoBounds DEF Writers, CallTodoWrite
<1>2. /\ apply \in Seq(Todo)
      /\ \/ writer' = [writer EXCEPT ![w] = Done] /\ UNCHANGED troubled
         \/ IsValid(existing, apply, replace) /\ Begins(w, apply, replace)
      /\ UNCHANGED <<todoRows, events, answer, bar, meant, overtaken>>
  BY <1>1, ApplicableType DEF CallTodoWrite
<1>3. WritesInv' /\ writer' \in [Writers -> WriterStates] /\ troubled' \in BOOLEAN /\ writer'[w] # Idle
  <2> HIDE DEF apply
  <2>1. CASE writer' = [writer EXCEPT ![w] = Done] /\ UNCHANGED troubled
    <3>1. /\ writer'[w] = Done /\ writer' \in [Writers -> WriterStates]
          /\ \A v \in Writers \ {w} : writer'[v] = writer[v] /\ (InWrite(v)' <=> InWrite(v))
      BY <1>1, <2>1, TheOthersStay, DoneIsNotWriting DEF TodoInv
    <3>2. ~InWrite(w) /\ ~InWrite(w)'
      BY <1>1, <3>1, DoneIsNotWriting
    <3>3. WritesInv'
      BY <1>2, <2>1, <3>1, <3>2, QuietKeepsWrites DEF TodoInv
    <3> QED BY <2>1, <3>1, <3>3, DoneIsNotWriting DEF TodoInv, TodoTypes
  <2>2. CASE IsValid(existing, apply, replace) /\ Begins(w, apply, replace)
    BY <1>1, <1>2, <2>2, BeginKeepsWrites DEF TodoInv
  <2> QED BY <1>2, <2>1, <2>2
<1> QED BY <1>1, <1>2, <1>3, NoNewsWhileBusy DEF TodoInv, TodoTypes

LEMMA CycleKeeps ==
  ASSUME TodoInv, NEW id \in TodoIds, Cycle(id)
  PROVE  TodoInv'
<1> DEFINE update == <<[id |-> id, status |-> Cycled[LastIn(bar, id).status]]>>
<1>1. Author \in Writers /\ writer[Author] = Idle /\ id \in IdsIn(bar)
  BY DEF Writers, Cycle
<1>2. /\ \/ IsValid(TodosIn(todoRows), update, FALSE) /\ Begins(Author, update, FALSE)
         \/ UNCHANGED <<writer, troubled>>
      /\ UNCHANGED <<todoRows, events, answer, bar, meant, overtaken>>
  BY DEF Cycle
<1>3. update \in Seq(Todo)
  <2>1. LastIn(bar, id) \in Todo
    BY <1>1, LastOfId DEF TodoInv, TodoTypes, IsLast
  <2>2. LastIn(bar, id).status \in DOMAIN Cycled
    BY <2>1 DEF Todo
  <2>3. DOMAIN Cycled = {"pending", "in_progress", "completed", "cancelled"}
    BY DEF Cycled
  <2>4. \A x \in DOMAIN Cycled : Cycled[x] \in DOMAIN Cycled
    BY DEF Cycled
  <2>5. [id |-> id, status |-> Cycled[LastIn(bar, id).status]] \in Todo
    BY <2>2, <2>4 DEF Todo
  <2> QED BY <2>5
<1> HIDE DEF update
<1>4. CASE IsValid(TodosIn(todoRows), update, FALSE) /\ Begins(Author, update, FALSE)
  <2>1. WritesInv' /\ writer' \in [Writers -> WriterStates] /\ troubled' \in BOOLEAN /\ writer'[Author] # Idle
    BY <1>1, <1>2, <1>3, <1>4, BeginKeepsWrites DEF TodoInv
  <2> QED BY <1>1, <1>2, <2>1, NoNewsWhileBusy DEF TodoInv, TodoTypes
<1>5. CASE UNCHANGED <<writer, troubled>>
  <2>1. \A v \in Writers : InWrite(v)' <=> InWrite(v)
    BY <1>5 DEF InWrite
  <2>2. WritesInv'
    BY <1>2, <1>5, <2>1, QuietKeepsWrites DEF TodoInv
  <2> QED BY <1>2, <1>5, <2>2 DEF TodoInv, TodoTypes, NewsInv, News
<1> QED BY <1>2, <1>4, <1>5

LEMMA DeleteKeeps ==
  ASSUME TodoInv, NEW w \in Writers, Delete(w)
  PROVE  TodoInv'
<1> DEFINE me == writer[w]
           to == [me EXCEPT !.phase = "find"]
<1>1. /\ me \in [phase : {"delete", "find"}, todos : Seq(Todo), replace : BOOLEAN, at : Nat \ {0}]
      /\ InWrite(w) /\ me.phase = "delete"
  BY PhaseTypes DEF TodoInv, Delete, InWrite
<1>2. /\ to \in [phase : {"delete", "find"}, todos : Seq(Todo), replace : BOOLEAN, at : Nat \ {0}]
      /\ to.phase = "find" /\ to.todos = me.todos /\ to.replace = me.replace /\ to.at = me.at
  BY <1>1
<1>3. /\ writer' = [writer EXCEPT ![w] = to]
      /\ todoRows' = <<>> /\ UNCHANGED <<events, answer, bar, meant, troubled, overtaken>>
  BY DEF Delete
<1> HIDE DEF to
<1>4. writer'[w] = to /\ writer' \in [Writers -> WriterStates] /\ writer'[w] # Idle
  <2>1. to \in WriterStates
    BY <1>2 DEF WriterStates
  <2>2. writer'[w] = to /\ writer' \in [Writers -> WriterStates]
    BY <1>3, <2>1, TheOthersStay DEF TodoInv
  <2> QED BY <1>2, <2>2 DEF Idle
<1>5. todoRows' \in Stored /\ DOMAIN todoRows' = {}
  <2>1. todoRows' \in [{} -> [position : Int, status : Progress]]
    BY <1>3
  <2>2. {} \in {R \in SUBSET TodoIds : IsFiniteSet(R)}
    BY FS_EmptySet
  <2> QED BY <2>1, <2>2 DEF Stored
<1>6. Stands(w) => Stands(w)'
  <2> SUFFICES ASSUME Stands(w) PROVE Stands(w)'
    OBVIOUS
  <2>1. me.replace /\ me.at = 1 /\ Single(Projected(meant, me.todos, me.replace)) /\ me.at <= Len(me.todos) + 1
    BY <1>1 DEF Stands
  <2>2. Replaced(todoRows, me.todos, me.at - 1)'
    BY <1>2, <1>4, <1>5, <2>1 DEF Replaced
  <2> QED BY <1>2, <1>3, <1>4, <2>1, <2>2 DEF Stands
<1>7. WritesInv'
  BY <1>1, <1>2, <1>3, <1>6, WriteKeepsWrites DEF TodoInv
<1> QED BY <1>3, <1>4, <1>5, <1>7, NoNewsWhileBusy DEF TodoInv, TodoTypes

(* The rows that the next todo of a batch is put in.                       *)
Put(held, todo, position) ==
  [id \in DOMAIN held \cup {todo.id} |->
     IF id = todo.id
     THEN [position |-> IF todo.id \in DOMAIN held THEN held[todo.id].position ELSE position,
           status |-> todo.status]
     ELSE held[id]]

LEMMA PutType ==
  ASSUME NEW held \in Stored, NEW todo \in Todo, NEW position \in Int
  PROVE  Put(held, todo, position) \in Stored
<1> DEFINE new == Put(held, todo, position)
           S == DOMAIN held \cup {todo.id}
<1>1. todo.id \in TodoIds /\ todo.status \in Progress
  BY DEF Todo, Progress
<1>2. S \in SUBSET TodoIds /\ IsFiniteSet(S)
  BY <1>1, TableType, FS_AddElement
<1>3. \A id \in S : (IF id = todo.id
        THEN [position |-> IF todo.id \in DOMAIN held THEN held[todo.id].position ELSE position,
              status |-> todo.status]
        ELSE held[id]) \in [position : Int, status : Progress]
  BY <1>1, TableType
<1>4. new \in [S -> [position : Int, status : Progress]]
  BY <1>3 DEF Put
<1> QED BY <1>2, <1>4 DEF Stored

LEMMA ReplacedNext ==
  ASSUME NEW held \in Stored, NEW todos \in Seq(Todo), NEW n \in Nat, n + 1 <= Len(todos),
         Replaced(held, todos, n)
  PROVE  Replaced(Put(held, todos[n + 1], n), todos, n + 1)
<1> DEFINE t == todos[n + 1]
           new == Put(held, t, n)
<1>1. t \in Todo /\ n \in Int
  OBVIOUS
<1> HIDE DEF t
<1>2. /\ DOMAIN new = DOMAIN held \cup {t.id} /\ new[t.id].status = t.status
      /\ new[t.id].position = IF t.id \in DOMAIN held THEN held[t.id].position ELSE n
      /\ \A id \in DOMAIN held : id # t.id => new[id] = held[id]
  BY DEF Put
<1> HIDE DEF new
<1> USE DEF t
<1>3. DOMAIN new = {todos[i].id : i \in 1 .. n + 1}
  <2>1. 1 .. n + 1 = (1 .. n) \cup {n + 1}
    OBVIOUS
  <2>2. DOMAIN held = {todos[i].id : i \in 1 .. n}
    BY DEF Replaced
  <2> QED BY <1>2, <2>1, <2>2
<1>4. ASSUME NEW id \in DOMAIN new
      PROVE  \E i \in 1 .. n + 1 : IsFirst(todos, id, i) /\ new[id].position = i - 1
  <2>1. CASE id \in DOMAIN held
    <3>1. new[id].position = held[id].position
      BY <1>2, <2>1
    <3>2. PICK i \in 1 .. n : IsFirst(todos, id, i) /\ held[id].position = i - 1
      BY <2>1 DEF Replaced
    <3> QED BY <3>1, <3>2, i \in 1 .. n + 1
  <2>2. CASE id \notin DOMAIN held
    <3>1. id = t.id /\ new[id].position = n
      BY <1>2, <2>2
    <3>2. \A j \in 1 .. n : todos[j].id # id
      BY <2>2 DEF Replaced
    <3>3. n + 1 \in DOMAIN todos /\ (n + 1) - 1 = n
      OBVIOUS
    <3>4. IsFirst(todos, id, n + 1)
      BY <3>1, <3>2, <3>3 DEF IsFirst
    <3> QED BY <3>1, <3>3, <3>4, n + 1 \in 1 .. n + 1
  <2> QED BY <2>1, <2>2
<1>5. ASSUME NEW id \in DOMAIN new
      PROVE  \E k \in 1 .. n + 1 : /\ todos[k].id = id /\ new[id].status = todos[k].status
                                   /\ \A j \in k + 1 .. n + 1 : todos[j].id # id
  <2>1. CASE id = t.id
    <3>1. new[id].status = todos[n + 1].status /\ todos[n + 1].id = id
      BY <1>2, <2>1
    <3>2. \A j \in (n + 1) + 1 .. n + 1 : todos[j].id # id
      OBVIOUS
    <3> QED BY <3>1, <3>2, n + 1 \in 1 .. n + 1
  <2>2. CASE id # t.id
    <3>1. id \in DOMAIN held /\ new[id] = held[id]
      BY <1>2, <2>2
    <3>2. PICK k \in 1 .. n : /\ todos[k].id = id /\ held[id].status = todos[k].status
                              /\ \A j \in k + 1 .. n : todos[j].id # id
      BY <3>1 DEF Replaced
    <3>3. \A j \in k + 1 .. n + 1 : todos[j].id # id
      BY <2>2, <3>2
    <3> QED BY <3>1, <3>2, <3>3, k \in 1 .. n + 1
  <2> QED BY <2>1, <2>2
<1>6. Replaced(new, todos, n + 1)
  BY <1>3, <1>4, <1>5 DEF Replaced
<1> QED BY <1>6 DEF new

LEMMA UpdatedNext ==
  ASSUME NEW held \in Stored, NEW list \in Seq(Todo), NEW todos \in Seq(Todo), NEW n \in Nat,
         n + 1 <= Len(todos), Updated(held, list, todos, n)
  PROVE  /\ todos[n + 1].id \notin DOMAIN held => Updated(held, list, todos, n + 1)
         /\ todos[n + 1].id \in DOMAIN held =>
              \A p \in Int : Updated(Put(held, todos[n + 1], p), list, todos, n + 1)
<1> DEFINE t == todos[n + 1]
<1>1. t \in Todo
  OBVIOUS
<1>2. ASSUME NEW i \in DOMAIN list, t.id # list[i].id
      PROVE  \/ /\ \A j \in 1 .. n + 1 : todos[j].id # list[i].id
                /\ held[list[i].id].status = list[i].status
             \/ \E k \in 1 .. n + 1 : /\ todos[k].id = list[i].id
                                       /\ held[list[i].id].status = todos[k].status
                                       /\ \A j \in k + 1 .. n + 1 : todos[j].id # list[i].id
  <2>1. CASE /\ \A j \in 1 .. n : todos[j].id # list[i].id
             /\ held[list[i].id].status = list[i].status
    <3>1. \A j \in 1 .. n + 1 : todos[j].id # list[i].id
      BY <1>2, <2>1
    <3> QED BY <2>1, <3>1
  <2>2. CASE \E k \in 1 .. n : /\ todos[k].id = list[i].id
                               /\ held[list[i].id].status = todos[k].status
                               /\ \A j \in k + 1 .. n : todos[j].id # list[i].id
    <3>1. PICK k \in 1 .. n : /\ todos[k].id = list[i].id
                              /\ held[list[i].id].status = todos[k].status
                              /\ \A j \in k + 1 .. n : todos[j].id # list[i].id
      BY <2>2
    <3>2. \A j \in k + 1 .. n + 1 : todos[j].id # list[i].id
      BY <1>2, <3>1
    <3> QED BY <3>1, <3>2, k \in 1 .. n + 1
  <2> QED BY <2>1, <2>2 DEF Updated
<1>3. ASSUME t.id \notin DOMAIN held PROVE Updated(held, list, todos, n + 1)
  <2>1. \A i \in DOMAIN list : t.id # list[i].id
    BY <1>3 DEF Updated, IdsIn
  <2> HIDE DEF t
  <2> QED BY <1>2, <2>1 DEF Updated
<1>4. ASSUME t.id \in DOMAIN held, NEW p \in Int
      PROVE  Updated(Put(held, t, p), list, todos, n + 1)
  <2> DEFINE new == Put(held, t, p)
  <2> HIDE DEF t
  <2>1. /\ DOMAIN new = DOMAIN held /\ new[t.id].status = t.status
        /\ new[t.id].position = held[t.id].position
        /\ \A id \in DOMAIN held : id # t.id => new[id] = held[id]
    BY <1>4 DEF Put
  <2> HIDE DEF new
  <2> USE DEF t
  <2>2. \A i \in DOMAIN list : /\ list[i].id \in DOMAIN held
                               /\ new[list[i].id].position = held[list[i].id].position
    BY <2>1 DEF Updated, IdsIn
  <2>3. ASSUME NEW i \in DOMAIN list
        PROVE  \/ /\ \A j \in 1 .. n + 1 : todos[j].id # list[i].id
                  /\ new[list[i].id].status = list[i].status
               \/ \E k \in 1 .. n + 1 : /\ todos[k].id = list[i].id
                                         /\ new[list[i].id].status = todos[k].status
                                         /\ \A j \in k + 1 .. n + 1 : todos[j].id # list[i].id
    <3>1. CASE list[i].id = t.id
      <4>1. todos[n + 1].id = list[i].id /\ new[list[i].id].status = todos[n + 1].status
        BY <2>1, <3>1
      <4>2. \A j \in (n + 1) + 1 .. n + 1 : todos[j].id # list[i].id
        OBVIOUS
      <4> QED BY <4>1, <4>2, n + 1 \in 1 .. n + 1
    <3>2. CASE list[i].id # t.id
      <4>1. new[list[i].id] = held[list[i].id]
        BY <2>1, <2>2, <3>2
      <4> QED BY <1>2, <3>2, <4>1
    <3> QED BY <3>1, <3>2
  <2>4. Updated(new, list, todos, n + 1)
    BY <2>1, <2>2, <2>3 DEF Updated
  <2> QED BY <2>4 DEF new
<1> QED BY <1>3, <1>4

LEMMA InsertKeeps ==
  ASSUME TodoInv, NEW w \in Writers, Insert(w)
  PROVE  TodoInv'
<1> DEFINE me == writer[w]
           to == [phase |-> "find", todos |-> me.todos, replace |-> me.replace, at |-> me.at + 1]
<1>1. /\ InWrite(w) /\ me.phase = "put" /\ me.todos \in Seq(Todo) /\ me.replace \in BOOLEAN
      /\ me.at \in Nat \ {0} /\ me.position \in Int /\ me.at <= Len(me.todos)
  BY PhaseTypes DEF TodoInv, Insert, InWrite
<1>2. /\ to \in WriterStates /\ to.phase = "find" /\ to.todos = me.todos
      /\ to.replace = me.replace /\ to.at = me.at + 1
  BY <1>1 DEF WriterStates
<1>3. /\ writer' = [writer EXCEPT ![w] = to] /\ todoRows' = Put(todoRows, me.todos[me.at], me.position)
      /\ UNCHANGED <<events, answer, bar, meant, troubled, overtaken>>
  BY DEF Insert, Put
<1> HIDE DEF to
<1>4. writer'[w] = to /\ writer' \in [Writers -> WriterStates]
  BY <1>2, <1>3, TheOthersStay DEF TodoInv
<1>5. writer'[w] # Idle
  BY <1>2, <1>4 DEF Idle
<1>6. todoRows' \in Stored
  <2>1. me.todos[me.at] \in Todo /\ me.position \in Int /\ todoRows \in Stored
    BY <1>1 DEF TodoInv, TodoTypes
  <2> QED BY <1>3, <2>1, PutType
<1>7. ASSUME Stands(w) PROVE Stands(w)'
  <2> DEFINE n == me.at - 1
  <2>1. n \in Nat /\ n + 1 = me.at /\ n + 1 <= Len(me.todos) /\ to.at - 1 = n + 1 /\ to.at <= Len(me.todos) + 1
    BY <1>1, <1>2
  <2>2. Single(Projected(meant, me.todos, me.replace))
    BY <1>7 DEF Stands
  <2>3. CASE me.replace
    <3>1. Replaced(todoRows, me.todos, n) /\ me.position = n
      BY <1>1, <1>7, <2>3 DEF Stands
    <3>2. Replaced(todoRows', me.todos, n + 1)
      BY <1>1, <1>3, <2>1, <3>1, ReplacedNext DEF TodoInv, TodoTypes
    <3> QED BY <1>2, <1>3, <1>4, <2>1, <2>2, <2>3, <3>2 DEF Stands
  <2>4. CASE ~me.replace
    <3>1. Updated(todoRows, meant, me.todos, n) /\ me.todos[me.at].id \in DOMAIN todoRows
      BY <1>1, <1>7, <2>4 DEF Stands
    <3>2. Updated(todoRows', meant, me.todos, n + 1)
      BY <1>1, <1>3, <2>1, <3>1, UpdatedNext DEF TodoInv, TodoTypes
    <3> QED BY <1>2, <1>3, <1>4, <2>1, <2>2, <2>4, <3>2 DEF Stands
  <2> QED BY <1>1, <2>3, <2>4
<1>8. WritesInv'
  BY <1>1, <1>2, <1>3, <1>7, WriteKeepsWrites DEF TodoInv
<1> QED BY <1>3, <1>4, <1>5, <1>6, <1>8, NoNewsWhileBusy DEF TodoInv, TodoTypes

LEMMA FindKeeps ==
  ASSUME TodoInv, NEW w \in Writers, FindPosition(w)
  PROVE  TodoInv'
<1> DEFINE me == writer[w]
           id == me.todos[me.at].id
           next(p) == [phase |-> "put", todos |-> me.todos, replace |-> me.replace,
                       at |-> me.at, position |-> p]
           skip == [me EXCEPT !.at = me.at + 1]
<1>1. /\ InWrite(w) /\ me.phase = "find" /\ me.todos \in Seq(Todo) /\ me.replace \in BOOLEAN
      /\ me.at \in Nat \ {0} /\ me.at <= Len(me.todos)
      /\ me \in [phase : {"delete", "find"}, todos : Seq(Todo), replace : BOOLEAN, at : Nat \ {0}]
  BY PhaseTypes DEF TodoInv, FindPosition, InWrite
<1>2. PICK to : /\ writer' = [writer EXCEPT ![w] = to]
                /\ \/ me.replace /\ to = next(me.at - 1)
                   \/ ~me.replace /\ id \in DOMAIN todoRows /\ to = next(todoRows[id].position)
                   \/ ~me.replace /\ id \notin DOMAIN todoRows /\ to = skip
  BY <1>1 DEF FindPosition
<1>3. UNCHANGED <<todoRows, events, answer, bar, meant, troubled, overtaken>>
  BY DEF FindPosition
<1>4. ASSUME NEW p \in Int
      PROVE  /\ next(p) \in WriterStates /\ next(p).phase = "put" /\ next(p).todos = me.todos
             /\ next(p).replace = me.replace /\ next(p).at = me.at /\ next(p).position = p
  BY <1>1 DEF WriterStates
<1>5. /\ skip \in WriterStates /\ skip.phase = "find" /\ skip.todos = me.todos
      /\ skip.replace = me.replace /\ skip.at = me.at + 1
  <2>1. skip \in [phase : {"delete", "find"}, todos : Seq(Todo), replace : BOOLEAN, at : Nat \ {0}]
    BY <1>1
  <2> QED BY <1>1, <2>1 DEF WriterStates
<1> HIDE DEF next, skip
<1>6. me.at - 1 \in Int /\ (id \in DOMAIN todoRows => todoRows[id].position \in Int)
  BY <1>1, TableType DEF TodoInv, TodoTypes
<1>7. to \in WriterStates /\ to.phase \in {"find", "put"}
  BY <1>2, <1>4, <1>5, <1>6
<1>8. writer'[w] = to /\ writer' \in [Writers -> WriterStates] /\ writer'[w] # Idle
  <2>1. writer'[w] = to /\ writer' \in [Writers -> WriterStates]
    BY <1>2, <1>7, TheOthersStay DEF TodoInv
  <2> QED BY <1>7, <2>1 DEF Idle
<1>9. ASSUME Stands(w) PROVE Stands(w)'
  <2> DEFINE n == me.at - 1
  <2>1. n \in Nat /\ n + 1 = me.at /\ n + 1 <= Len(me.todos)
    BY <1>1
  <2>2. Single(Projected(meant, me.todos, me.replace))
    BY <1>9 DEF Stands
  <2>3. CASE me.replace
    <3>1. Replaced(todoRows, me.todos, me.at - 1)
      BY <1>1, <1>9, <2>3 DEF Stands
    <3>2. /\ to.phase = "put" /\ to.todos = me.todos /\ to.replace = me.replace
          /\ to.at = me.at /\ to.position = me.at - 1
      BY <1>2, <1>4, <1>6, <2>3
    <3>3. to.at <= Len(me.todos) + 1
      BY <1>1, <3>2
    <3> QED BY <1>3, <1>8, <2>2, <2>3, <3>1, <3>2, <3>3 DEF Stands
  <2>4. CASE ~me.replace /\ id \in DOMAIN todoRows
    <3>1. Updated(todoRows, meant, me.todos, me.at - 1)
      BY <1>1, <1>9, <2>4 DEF Stands
    <3>2. to.phase = "put" /\ to.todos = me.todos /\ to.replace = me.replace /\ to.at = me.at
      BY <1>2, <1>4, <1>6, <2>4
    <3> QED BY <1>1, <1>3, <1>8, <2>1, <2>2, <2>4, <3>1, <3>2 DEF Stands
  <2>5. CASE ~me.replace /\ id \notin DOMAIN todoRows
    <3>1. Updated(todoRows, meant, me.todos, n)
      BY <1>1, <1>9, <2>5 DEF Stands
    <3>2. Updated(todoRows, meant, me.todos, n + 1)
      BY <1>1, <2>1, <2>5, <3>1, UpdatedNext DEF TodoInv, TodoTypes
    <3>3. /\ to.phase = "find" /\ to.todos = me.todos /\ to.replace = me.replace /\ to.at = me.at + 1
      BY <1>2, <1>5, <2>5
    <3>4. to.at - 1 = n + 1 /\ to.at <= Len(me.todos) + 1
      BY <2>1, <3>3
    <3> QED BY <1>3, <1>8, <2>2, <2>5, <3>2, <3>3, <3>4 DEF Stands
  <2> QED BY <1>2, <2>3, <2>4, <2>5
<1>10. WritesInv'
  BY <1>1, <1>2, <1>3, <1>7, <1>9, WriteKeepsWrites DEF TodoInv
<1> QED BY <1>3, <1>8, <1>10, NoNewsWhileBusy DEF TodoInv, TodoTypes

LEMMA EndKeeps ==
  ASSUME TodoInv, NEW w \in Writers, EndWrite(w)
  PROVE  TodoInv'
<1> DEFINE me == writer[w]
           after == Projected(meant, me.todos, me.replace)
<1>1. /\ InWrite(w) /\ me.phase = "find" /\ me.todos \in Seq(Todo) /\ me.replace \in BOOLEAN
      /\ me.at \in Nat \ {0} /\ me.at > Len(me.todos)
  BY PhaseTypes DEF TodoInv, EndWrite, InWrite
<1>2. /\ writer' = [writer EXCEPT ![w] = Done] /\ meant' = Once(after)
      /\ UNCHANGED <<todoRows, events, answer, bar, troubled, overtaken>>
  BY DEF EndWrite
<1>3. /\ writer'[w] = Done /\ writer' \in [Writers -> WriterStates]
      /\ \A v \in Writers \ {w} : writer'[v] = writer[v] /\ (InWrite(v)' <=> InWrite(v))
  BY <1>2, TheOthersStay, DoneIsNotWriting DEF TodoInv
<1>4. after \in Seq(Todo) /\ meant' \in Seq(Todo)
  BY <1>1, <1>2, ProjectedType, OnceKeeps DEF TodoInv, TodoTypes
<1>5. ASSUME ~troubled PROVE Rests' /\ \A v \in Writers : ~InWrite(v)'
  <2>1. Stands(w) /\ \A v \in Writers \ {w} : ~InWrite(v)
    BY <1>1, <1>5 DEF TodoInv, WritesInv, OneWriter
  <2>2. Single(after) /\ me.at - 1 = Len(me.todos)
    BY <1>1, <2>1 DEF Stands
  <2>3. todoRows \in Stored /\ meant \in Seq(Todo)
    BY DEF TodoInv, TodoTypes
  <2>4. Hold(todoRows, Once(after))
    <3>1. CASE me.replace
      <4>1. after = me.todos
        BY <3>1 DEF Projected
      <4>2. Replaced(todoRows, me.todos, Len(me.todos))
        BY <1>1, <2>1, <2>2, <3>1 DEF Stands
      <4> HIDE DEF after
      <4> QED BY <1>1, <2>3, <4>1, <4>2, ReplacedHolds
    <3>2. CASE ~me.replace
      <4>1. Updated(todoRows, meant, me.todos, Len(me.todos)) /\ me.replace = FALSE
        BY <1>1, <2>1, <2>2, <3>2 DEF Stands
      <4>2. Hold(todoRows, after)
        BY <1>1, <2>3, <4>1, UpdatedHolds
      <4> HIDE DEF after
      <4> QED BY <1>4, <2>3, <4>2, HeldIdsDiffer, OnceOfDifferent
    <3> QED BY <1>1, <3>1, <3>2
  <2>5. Single(Once(after))
    BY <1>4, <2>2, OnceIsSingle
  <2>6. \A v \in Writers : ~InWrite(v)'
    BY <1>3, <2>1, DoneIsNotWriting
  <2> HIDE DEF after
  <2> QED BY <1>2, <2>4, <2>5, <2>6 DEF Rests
<1>6. WritesInv'
  BY <1>2, <1>5 DEF WritesInv, OneWriter
<1>7. writer'[w] # Idle
  BY <1>3, DoneIsNotWriting
<1> QED BY <1>2, <1>3, <1>4, <1>6, <1>7, NoNewsWhileBusy DEF TodoInv, TodoTypes

LEMMA FailKeeps ==
  ASSUME TodoInv, NEW w \in Writers, FailWrite(w)
  PROVE  TodoInv'
<1>1. /\ troubled' = TRUE /\ overtaken' = (overtaken \/ w = Author)
      /\ UNCHANGED <<todoRows, events, answer, bar, meant>>
      /\ writer' = [writer EXCEPT ![w] = IF w = Author THEN Idle ELSE Done]
  BY DEF FailWrite
<1>2. writer' \in [Writers -> WriterStates] /\ (w # Author => writer'[w] # Idle)
  BY <1>1, DoneIsNotWriting DEF TodoInv, TodoTypes
<1>3. WritesInv'
  BY <1>1 DEF WritesInv
<1>4. NewsInv'
  BY <1>1, <1>2 DEF NewsInv
<1> QED BY <1>1, <1>2, <1>3, <1>4 DEF TodoInv, TodoTypes

LEMMA NewsKeep ==
  ASSUME TodoInv, \/ \E w \in Writers : TellTool(w)
                  \/ TellAuthor \/ HearTodos \/ ReadStatus \/ Refresh
  PROVE  TodoInv'
<1>1. TodosIn(todoRows) \in Seq(Todo)
  BY TodosInType DEF TodoInv, TodoTypes
<1>2. ASSUME NEW w \in Writers, writer[w] = Done, writer' = [writer EXCEPT ![w] = Idle],
             UNCHANGED <<todoRows, meant, troubled>>
      PROVE  WritesInv' /\ writer' \in [Writers -> WriterStates]
  <2>1. /\ writer'[w] = Idle /\ writer' \in [Writers -> WriterStates]
        /\ \A v \in Writers \ {w} : writer'[v] = writer[v] /\ (InWrite(v)' <=> InWrite(v))
    BY <1>2, TheOthersStay, DoneIsNotWriting DEF TodoInv
  <2>2. ~InWrite(w) /\ ~InWrite(w)'
    BY <1>2, <2>1, DoneIsNotWriting
  <2> QED BY <1>2, <2>1, <2>2, QuietKeepsWrites DEF TodoInv
<1>3. ASSUME UNCHANGED <<todoRows, writer, meant, troubled>> PROVE WritesInv'
  <2>1. \A v \in Writers : InWrite(v)' <=> InWrite(v)
    BY <1>3 DEF InWrite
  <2> QED BY <1>3, <2>1, QuietKeepsWrites DEF TodoInv
<1>4. ASSUME NEW w \in Writers, TellTool(w) PROVE TodoInv'
  <2>1. WritesInv' /\ writer' \in [Writers -> WriterStates]
    BY <1>2, <1>4 DEF TellTool
  <2>2. events' = Append(events, TodosIn(todoRows)) /\ events \in Seq(Seq(Todo))
    BY <1>4 DEF TellTool, TodoInv, TodoTypes
  <2>3. /\ events' \in Seq(Seq(Todo)) /\ events' # <<>>
        /\ events'[Len(events')] = TodosIn(todoRows)
    BY <1>1, <2>2
  <2>4. todoRows' = todoRows
    BY <1>4 DEF TellTool
  <2>5. NewsInv'
    BY <2>3, <2>4 DEF NewsInv, News
  <2> QED BY <1>4, <2>1, <2>3, <2>5 DEF TellTool, TodoInv, TodoTypes
<1>5. ASSUME TellAuthor PROVE TodoInv'
  <2>1. WritesInv' /\ writer' \in [Writers -> WriterStates]
    BY <1>2, <1>5 DEF TellAuthor, Writers
  <2>2. /\ bar' = TodosIn(todoRows) /\ overtaken' = (overtaken \/ events # <<>> \/ answer # NoAnswer)
        /\ UNCHANGED <<todoRows, events, answer, meant, troubled>>
    BY <1>5 DEF TellAuthor
  <2>3. NewsInv'
    BY <2>2 DEF NewsInv, News
  <2>4. overtaken' \in BOOLEAN
    BY <2>2 DEF TodoInv, TodoTypes
  <2> QED BY <1>1, <2>1, <2>2, <2>3, <2>4 DEF TodoInv, TodoTypes
<1>6. ASSUME HearTodos PROVE TodoInv'
  <2>1. /\ events # <<>> /\ bar' = Head(events) /\ events' = Tail(events)
        /\ overtaken' = (overtaken \/ answer # NoAnswer)
        /\ UNCHANGED <<todoRows, writer, answer, meant, troubled>>
    BY <1>6 DEF HearTodos
  <2>2. events \in Seq(Seq(Todo))
    BY DEF TodoInv, TodoTypes
  <2>3. bar' \in Seq(Todo) /\ events' \in Seq(Seq(Todo)) /\ Len(events') = Len(events) - 1 /\ Len(events) > 0
        /\ \A i \in 1 .. Len(events') : events'[i] = events[i + 1]
    BY <2>1, <2>2
  <2>4. ASSUME \A v \in Writers : writer[v] = Idle, ~overtaken'
        PROVE  News' = TodosIn(todoRows)
    <3>1. News = TodosIn(todoRows) /\ answer = NoAnswer
      BY <2>1, <2>4 DEF TodoInv, NewsInv
    <3>2. events[Len(events)] = TodosIn(todoRows)
      BY <2>1, <3>1 DEF News
    <3>3. CASE events' = <<>>
      <4>1. Len(events) = 1
        BY <2>3, <3>3
      <4>2. bar' = events[1]
        BY <2>1, <2>2
      <4> QED BY <2>1, <3>1, <3>2, <3>3, <4>1, <4>2 DEF News
    <3>4. CASE events' # <<>>
      <4>1. Len(events') \in 1 .. Len(events')
        BY <2>3, <3>4, EmptySeq
      <4>2. events'[Len(events')] = events[Len(events)]
        BY <2>3, <4>1
      <4> QED BY <3>2, <3>4, <4>2 DEF News
    <3> QED BY <3>3, <3>4
  <2>5. NewsInv'
    BY <2>1, <2>4 DEF NewsInv
  <2>6. overtaken' \in BOOLEAN
    BY <2>1 DEF TodoInv, TodoTypes
  <2> QED BY <1>3, <2>1, <2>3, <2>5, <2>6 DEF TodoInv, TodoTypes
<1>7. ASSUME ReadStatus PROVE TodoInv'
  <2>1. /\ answer = NoAnswer /\ answer' = [on |-> TRUE, list |-> TodosIn(todoRows)]
        /\ UNCHANGED <<todoRows, writer, events, bar, meant, troubled, overtaken>>
    BY <1>7 DEF ReadStatus
  <2>2. answer' \in [on : {TRUE}, list : Seq(Todo)] /\ answer'.list = TodosIn(todoRows) /\ answer' # NoAnswer
    BY <1>1, <2>1 DEF NoAnswer
  <2>3. NewsInv'
    BY <2>1, <2>2 DEF TodoInv, NewsInv, News
  <2> QED BY <1>3, <2>1, <2>2, <2>3 DEF TodoInv, TodoTypes
<1>8. ASSUME Refresh PROVE TodoInv'
  <2>1. /\ answer # NoAnswer /\ bar' = answer.list /\ answer' = NoAnswer
        /\ UNCHANGED <<todoRows, writer, events, meant, troubled, overtaken>>
    BY <1>8 DEF Refresh
  <2>2. bar' \in Seq(Todo)
    BY <2>1 DEF TodoInv, TodoTypes
  <2>3. NewsInv'
    BY <2>1 DEF TodoInv, NewsInv, News
  <2> QED BY <1>3, <2>1, <2>2, <2>3 DEF TodoInv, TodoTypes
<1> QED BY <1>4, <1>5, <1>6, <1>7, <1>8

LEMMA TodosStep == TodoInv /\ [TodoNext]_todoVars => TodoInv'
<1> SUFFICES ASSUME TodoInv, [TodoNext]_todoVars PROVE TodoInv'
  OBVIOUS
<1>1. CASE UNCHANGED todoVars
  <2>1. \A v \in Writers : InWrite(v)' <=> InWrite(v)
    BY <1>1 DEF InWrite, todoVars
  <2>2. WritesInv'
    BY <1>1, <2>1, QuietKeepsWrites DEF TodoInv, todoVars
  <2>3. NewsInv'
    BY <1>1 DEF TodoInv, NewsInv, News, todoVars
  <2> QED BY <1>1, <2>2, <2>3 DEF TodoInv, TodoTypes, todoVars
<1>2. ASSUME NEW w \in Writers, WriterStep(w) PROVE TodoInv'
  BY <1>2, DeleteKeeps, FindKeeps, InsertKeeps, EndKeeps, FailKeeps DEF WriterStep
<1>3. CASE TodoNext
  BY <1>2, <1>3, CallKeeps, CycleKeeps, NewsKeep DEF TodoNext
<1> QED BY <1>1, <1>3

(* The rows are the meant list while writes neither overlap nor fail, and  *)
(* the status bar shows them at rest, for every set of calls and lists.    *)
THEOREM TheTodosAreKept == TodoSpec => []TodosAreKept
<1>1. TodoInv => TodosAreKept
  <2> SUFFICES ASSUME TodoInv PROVE TodosAreKept
    OBVIOUS
  <2>1. ASSUME ~troubled, \A w \in Writers : ~InWrite(w)
        PROVE  TodosIn(todoRows) = meant /\ InProgress(meant) <= 1
    BY <2>1, WhatIsHeldIsListed, CountInProgress DEF TodoInv, TodoTypes, WritesInv, Rests
  <2>2. ASSUME \A w \in Writers : writer[w] = Idle, events = <<>>, answer = NoAnswer, ~overtaken
        PROVE  bar = TodosIn(todoRows)
    BY <2>2 DEF TodoInv, NewsInv, News
  <2> QED BY <2>1, <2>2 DEF TodosAreKept
<1>2. TodosInit => TodoInv
  BY TodosStart DEF TodoInv
<1> QED BY <1>1, <1>2, TodosStep, PTL DEF TodoSpec

(***************************************************************************)
(* ToolGate: the gate before the tools.                                    *)
(***************************************************************************)
(***************************************************************************)
(* Types.                                                                  *)
(***************************************************************************)
LateCalls == [call : GateCalls, fork : BOOLEAN]
Jobs == [type : AgentTypes, hook : BOOLEAN]
Agents == [type : AgentTypes \cup {"MemoryExtractor"}, joined : BOOLEAN]
RunCalls == [by : Roles, tool : {c.tool : c \in GateCalls}, place : SUBSET Areas,
             approved : BOOLEAN, late : BOOLEAN]

(* The type invariant in parts.                                            *)
ModesTyped ==
  /\ settings \in GateSettings
  /\ mode \in PermissionModes /\ chosen \in PermissionModes /\ prior \subseteq PermissionModes
TurnTyped == turn \in {"idle", "stream", "batch", "drain"} /\ allowFork \in BOOLEAN
CallsTyped ==
  /\ ready \subseteq GateCalls /\ done \subseteq GateCalls /\ waiting \subseteq GateCalls
  /\ late \subseteq LateCalls /\ question \in BOOLEAN
AgentsTyped == jobs \subseteq Jobs /\ agents \subseteq Agents /\ leaked \in BOOLEAN
RanTyped == ran = NoRun \/ ran \in RunCalls

LEMMA TypesInParts ==
  GateTypeOK <=> ModesTyped /\ TurnTyped /\ CallsTyped /\ AgentsTyped /\ RanTyped
<1>1. ready \cup done \cup waiting \subseteq GateCalls
        <=> ready \subseteq GateCalls /\ done \subseteq GateCalls /\ waiting \subseteq GateCalls
  OBVIOUS
<1>2. {allowFork, question, leaked} \subseteq BOOLEAN
        <=> allowFork \in BOOLEAN /\ question \in BOOLEAN /\ leaked \in BOOLEAN
  OBVIOUS
<1> QED
  BY <1>1, <1>2 DEF GateTypeOK, ModesTyped, TurnTyped, CallsTyped, AgentsTyped, RanTyped, LateCalls,
     Jobs, Agents, RunCalls

(* A call that runs is recorded with its agent.                            *)
LEMMA RunsIsTyped ==
  ASSUME NEW by \in Roles, NEW c \in GateCalls, NEW fork \in BOOLEAN, NEW approved \in BOOLEAN,
         NEW isLate \in BOOLEAN, Runs(by, c, fork, approved, isLate)
  PROVE  ran' \in RunCalls
<1>1. ran' = [by |-> by, tool |-> c.tool, place |-> c.place, approved |-> approved, late |-> isLate]
  BY DEF Runs
<1>2. c.place \in SUBSET Areas
  BY GateConstants
<1> QED BY <1>1, <1>2 DEF RunCalls

(* The jobs of hooks and forks are jobs.                                   *)
LEMMA JobsAreTyped ==
  /\ \A c : HookJobs(c) \subseteq Jobs
  /\ \A c : \A fork \in ForkJobs(c) : fork \subseteq Jobs
<1>1. "KnowledgeAuditor" \in AgentTypes
  BY DEF AgentTypes, SuggestedTools
<1>2. ASSUME NEW c PROVE HookJobs(c) \subseteq Jobs
  <2>1. [type |-> "KnowledgeAuditor", hook |-> TRUE] \in Jobs
    BY <1>1 DEF Jobs
  <2>2. HookJobs(c) = {} \/ HookJobs(c) = {[type |-> "KnowledgeAuditor", hook |-> TRUE]}
    BY DEF HookJobs
  <2> QED BY <2>1, <2>2
<1>3. ASSUME NEW c, NEW fork \in ForkJobs(c) PROVE fork \subseteq Jobs
  <2>1. CASE fork = {}
    BY <2>1
  <2>2. CASE \E t \in Forked : fork = {[type |-> t, hook |-> FALSE]}
    BY <2>2, GateConstants DEF Jobs
  <2>3. fork = {} \/ \E t \in Forked : fork = {[type |-> t, hook |-> FALSE]}
    BY DEF ForkJobs
  <2> QED BY <2>1, <2>2, <2>3
<1> QED BY <1>2, <1>3

(* A step of the stream or of the author: modes and agents stay.           *)
LEMMA TypesOfCalls ==
  ASSUME GateTypeOK,
         \/ StartTurn \/ StreamIsCut \/ RecordResults \/ BatchStops \/ NothingQueued \/ Answer
         \/ \E c \in GateCalls : CallTool(c) \/ RunCall(c) \/ Approve(c) \/ Reject(c)
         \/ \E l \in late : RunLateCall(l)
  PROVE  GateTypeOK'
<1> USE TypesInParts
<1>0. CountIsZero \in BOOLEAN
  BY DEF CountIsZero
<1>1. ModesTyped'
  BY DEF GateTypeOK, ModesTyped, gateModes, StartTurn, StreamIsCut, RecordResults, BatchStops,
     NothingQueued, Answer, CallTool, RunCall, Approve, Reject, RunLateCall
<1>2. TurnTyped'
  BY <1>0 DEF TurnTyped, Stream, Settle, GoOn, Resolved, StartTurn, StreamIsCut,
     RecordResults, BatchStops, NothingQueued, Answer, CallTool, RunCall, Approve, Reject, RunLateCall
<1>3. CallsTyped'
  <2>1. CASE StreamIsCut
    <3>1. \A c \in ready : [call |-> c, fork |-> allowFork] \in LateCalls
      BY DEF CallsTyped, TurnTyped, LateCalls
    <3> QED BY <2>1, <3>1 DEF StreamIsCut, CallsTyped
  <2>2. CASE RecordResults
    <3>1. \A recorded : (\E c \in recorded : Asks(c)) \in BOOLEAN
      OBVIOUS
    <3>2. question' \in BOOLEAN
      BY <2>2, <3>1, Zenon DEF RecordResults
    <3> QED BY <2>2, <3>2, Zenon DEF RecordResults, CallsTyped
  <2>3. CASE \E c \in GateCalls : CallTool(c) \/ RunCall(c) \/ Approve(c) \/ Reject(c)
    BY <2>3 DEF CallsTyped, CallTool, RunCall, Approve, Reject, Resolved
  <2>4. CASE \E l \in late : RunLateCall(l)
    BY <2>4 DEF CallsTyped, RunLateCall
  <2>5. CASE StartTurn \/ BatchStops \/ NothingQueued \/ Answer
    BY <2>5 DEF CallsTyped, callVars, StartTurn, BatchStops, NothingQueued, Answer
  <2> QED BY <2>1, <2>2, <2>3, <2>4, <2>5
<1>4. AgentsTyped'
  <2>1. UNCHANGED agentVars
    BY DEF StartTurn, StreamIsCut, RecordResults, BatchStops, NothingQueued, Answer, CallTool,
       RunCall, Approve, Reject, RunLateCall
  <2>2. jobs' \subseteq Jobs
    <3>1. CASE RecordResults
      <4>1. \A recorded : JobsOfResults(recorded) \subseteq Jobs
        BY JobsAreTyped DEF JobsOfResults
      <4> QED BY <3>1, <4>1 DEF RecordResults, AgentsTyped
    <3>2. CASE \E c \in GateCalls : RunCall(c) \/ Approve(c)
      BY <3>2, JobsAreTyped DEF RunCall, Approve, AgentsTyped
    <3>3. CASE \E l \in late : RunLateCall(l)
      BY <3>3, JobsAreTyped DEF RunLateCall, AgentsTyped
    <3>4. CASE StartTurn \/ StreamIsCut \/ BatchStops \/ NothingQueued \/ Answer
               \/ \E c \in GateCalls : CallTool(c) \/ Reject(c)
      BY <3>4 DEF StartTurn, StreamIsCut, BatchStops, NothingQueued, Answer, CallTool, Reject,
         AgentsTyped
    <3> QED BY <3>1, <3>2, <3>3, <3>4
  <2> QED BY <2>1, <2>2 DEF AgentsTyped, agentVars
<1>5. RanTyped'
  <2>1. "main" \in Roles
    BY DEF Roles
  <2>2. CASE \E c \in GateCalls : RunCall(c) \/ Approve(c)
    BY <2>1, <2>2, <1>0, RunsIsTyped DEF RunCall, Approve, RanTyped, TurnTyped
  <2>3. CASE \E l \in late : RunLateCall(l)
    <3>1. PICK l \in late : RunLateCall(l)
      BY <2>3
    <3>2. l.call \in GateCalls /\ l.fork \in BOOLEAN
      BY DEF CallsTyped, LateCalls
    <3> QED BY <2>1, <3>1, <3>2, RunsIsTyped DEF RunLateCall, RanTyped
  <2>4. CASE StartTurn \/ StreamIsCut \/ RecordResults \/ BatchStops \/ NothingQueued \/ Answer
             \/ \E c \in GateCalls : CallTool(c) \/ Reject(c)
    BY <2>4 DEF StartTurn, StreamIsCut, RecordResults, BatchStops, NothingQueued, Answer, CallTool,
       Reject, RanTyped
  <2> QED BY <2>2, <2>3, <2>4
<1>6. (GateTypeOK <=> ModesTyped /\ TurnTyped /\ CallsTyped /\ AgentsTyped /\ RanTyped)'
  BY TypesInParts DEF GateTypeOK, ModesTyped, TurnTyped, CallsTyped, AgentsTyped, RanTyped, LateCalls,
     Jobs, Agents, RunCalls
<1> QED BY <1>1, <1>2, <1>3, <1>4, <1>5, <1>6

(* A step of the agents, of a drain or of the author's mode.               *)
LEMMA TypesOfAgents ==
  ASSUME GateTypeOK,
         \/ Drain \/ SpawnMemory \/ DrainEnds \/ DrainFails
         \/ \E m \in PermissionModes : SetPermissionMode(m)
         \/ \E a \in agents : AgentEnds(a) \/ \E c \in GateCalls : AgentCalls(a, c)
  PROVE  GateTypeOK'
<1> USE TypesInParts
<1>0. CountIsZero \in BOOLEAN
  BY DEF CountIsZero
<1>1. ModesTyped'
  <2>1. CASE DrainEnds \/ DrainFails
    <3>1. prior = {} \/ (CHOOSE m \in prior : TRUE) \in prior
      OBVIOUS
    <3>2. mode' \in PermissionModes
      BY <2>1, <3>1 DEF ModesTyped, DrainEnds, DrainFails, Restore
    <3> QED BY <2>1, <3>2 DEF ModesTyped, DrainEnds, DrainFails, Restore
  <2>2. CASE Drain
    <3>1. "auto" \in PermissionModes
      BY DEF PermissionModes
    <3> QED BY <2>2, <3>1 DEF ModesTyped, Drain
  <2>3. CASE SpawnMemory \/ \E a \in agents : AgentEnds(a) \/ \E c \in GateCalls : AgentCalls(a, c)
    BY <2>3 DEF ModesTyped, gateModes, SpawnMemory, AgentEnds, AgentCalls
  <2>4. CASE \E m \in PermissionModes : SetPermissionMode(m)
    BY <2>4 DEF ModesTyped, SetPermissionMode
  <2> QED BY <2>1, <2>2, <2>3, <2>4
<1>2. TurnTyped'
  BY <1>0 DEF TurnTyped, Stream, Settle, GoOn, Drain, SpawnMemory, DrainEnds, DrainFails,
     SetPermissionMode, AgentEnds, AgentCalls
<1>3. CallsTyped'
  BY DEF CallsTyped, callVars, Drain, SpawnMemory, DrainEnds, DrainFails,
     SetPermissionMode, AgentEnds, AgentCalls
<1>4. AgentsTyped'
  <2>1. CASE Drain
    <3>1. \A j \in jobs : [type |-> j.type, joined |-> TRUE] \in Agents
      BY DEF AgentsTyped, Jobs, Agents
    <3>2. agents' \subseteq Agents
      BY <2>1, <3>1 DEF Drain, AgentsTyped
    <3>3. (leaked \/ \E j \in jobs : ~HasBudget(j.type)) \in BOOLEAN
      OBVIOUS
    <3>4. leaked' \in BOOLEAN
      BY <2>1, <3>3, Zenon DEF Drain
    <3>5. jobs' \subseteq Jobs
      BY <2>1 DEF Drain
    <3> QED BY <3>2, <3>4, <3>5 DEF AgentsTyped
  <2>2. CASE SpawnMemory
    <3>1. [type |-> "MemoryExtractor", joined |-> FALSE] \in Agents
      BY DEF Agents
    <3> QED BY <2>2, <3>1 DEF SpawnMemory, AgentsTyped
  <2>3. CASE DrainFails
    <3>1. \A a \in agents : [a EXCEPT !.joined = FALSE] \in Agents
      BY DEF AgentsTyped, Agents
    <3> QED BY <2>3, <3>1 DEF DrainFails, AgentsTyped
  <2>4. CASE DrainEnds \/ \E m \in PermissionModes : SetPermissionMode(m)
    BY <2>4 DEF DrainEnds, SetPermissionMode, agentVars, AgentsTyped
  <2>5. CASE \E a \in agents : AgentEnds(a)
    BY <2>5 DEF AgentEnds, AgentsTyped
  <2>6. CASE \E a \in agents : \E c \in GateCalls : AgentCalls(a, c)
    BY <2>6 DEF AgentCalls, agentVars, AgentsTyped
  <2> QED BY <2>1, <2>2, <2>3, <2>4, <2>5, <2>6
<1>5. RanTyped'
  <2>1. CASE \E a \in agents : \E c \in GateCalls : AgentCalls(a, c)
    <3>1. PICK a \in agents, c \in GateCalls : AgentCalls(a, c)
      BY <2>1
    <3>2. a.type \in Roles
      BY DEF AgentsTyped, Agents, Roles
    <3> QED BY <3>1, <3>2, RunsIsTyped DEF AgentCalls, RunsForAgent, RanTyped
  <2>2. CASE \/ Drain \/ SpawnMemory \/ DrainEnds \/ DrainFails
             \/ \E m \in PermissionModes : SetPermissionMode(m)
             \/ \E a \in agents : AgentEnds(a)
    BY <2>2 DEF RanTyped, Drain, SpawnMemory, DrainEnds, DrainFails, SetPermissionMode, AgentEnds
  <2> QED BY <2>1, <2>2
<1>6. (GateTypeOK <=> ModesTyped /\ TurnTyped /\ CallsTyped /\ AgentsTyped /\ RanTyped)'
  BY TypesInParts DEF GateTypeOK, ModesTyped, TurnTyped, CallsTyped, AgentsTyped, RanTyped, LateCalls,
     Jobs, Agents, RunCalls
<1> QED BY <1>1, <1>2, <1>3, <1>4, <1>5, <1>6

(* The variables of the gate have their types in every reachable state.    *)
THEOREM GateTypeCorrect == GateSpec => []GateTypeOK
<1>1. GateInit => GateTypeOK
  BY TypesInParts DEF GateInit, ModesTyped, TurnTyped, CallsTyped, AgentsTyped, RanTyped
<1>2. GateTypeOK /\ [GateNext]_gateVars => GateTypeOK'
  <2> SUFFICES ASSUME GateTypeOK, [GateNext]_gateVars PROVE GateTypeOK'
    OBVIOUS
  <2>1. CASE GateNext
    BY <2>1, TypesOfCalls, TypesOfAgents DEF GateNext
  <2>2. CASE UNCHANGED gateVars
    BY <2>2 DEF GateTypeOK, gateVars, gateModes, callVars, agentVars
  <2> QED BY <2>1, <2>2
<1> QED BY <1>1, <1>2, PTL DEF GateSpec

(***************************************************************************)
(* The invariant of the gate.                                              *)
(***************************************************************************)
(* Outside a drain the mode is the author's, and a drain knows how to get  *)
(* back to it; a stream whose context lets fork began with no agent, and   *)
(* none but an extraction begins while it runs.                            *)
ModesAgree ==
  /\ turn # "drain" => prior = {}
  /\ prior = {} => mode = chosen
  /\ prior # {} => prior = {chosen}
StreamMayFork == turn = "stream" /\ allowFork => OnlyExtracting
QuestionsFit ==
  /\ waiting # {} => chosen = "normal"
  /\ question => chosen # "unattended"
GateInv == ModesAgree /\ StreamMayFork /\ QuestionsFit

LEMMA ModesStayAgreed ==
  ASSUME GateTypeOK, ModesAgree, GateNext
  PROVE  ModesAgree'
<1>1. CASE \/ StartTurn \/ StreamIsCut \/ RecordResults \/ BatchStops \/ NothingQueued \/ Answer
           \/ SpawnMemory
           \/ \E c \in GateCalls : CallTool(c) \/ RunCall(c) \/ Approve(c) \/ Reject(c)
           \/ \E l \in late : RunLateCall(l)
           \/ \E a \in agents : AgentEnds(a) \/ \E c \in GateCalls : AgentCalls(a, c)
  <2>1. UNCHANGED gateModes
    BY <1>1 DEF StartTurn, StreamIsCut, RecordResults, BatchStops, NothingQueued, Answer, SpawnMemory,
       CallTool, RunCall, Approve, Reject, RunLateCall, AgentEnds, AgentCalls
  <2>2. turn' = turn \/ turn # "drain"
    BY <1>1 DEF StartTurn, StreamIsCut, RecordResults, BatchStops, NothingQueued, Answer, SpawnMemory,
       CallTool, RunCall, Approve, Reject, RunLateCall, AgentEnds, AgentCalls, Resolved
  <2> QED BY <2>1, <2>2 DEF ModesAgree, gateModes
<1>2. CASE Drain
  BY <1>2 DEF Drain, ModesAgree
<1>3. CASE DrainEnds \/ DrainFails
  <2>1. mode' = chosen
    <3>1. CASE prior = {}
      BY <1>3, <3>1 DEF DrainEnds, DrainFails, Restore, ModesAgree
    <3>2. CASE prior # {}
      <4>1. (CHOOSE m \in {chosen} : TRUE) \in {chosen}
        OBVIOUS
      <4> QED BY <1>3, <3>2, <4>1 DEF DrainEnds, DrainFails, Restore, ModesAgree
    <3> QED BY <3>1, <3>2
  <2> QED BY <1>3, <2>1 DEF DrainEnds, DrainFails, Restore, ModesAgree
<1>4. CASE \E m \in PermissionModes : SetPermissionMode(m)
  BY <1>4 DEF SetPermissionMode, ModesAgree
<1> QED BY <1>1, <1>2, <1>3, <1>4 DEF GateNext

LEMMA StreamsKeepTheirLeave ==
  ASSUME GateTypeOK, StreamMayFork, GateNext
  PROVE  StreamMayFork'
<1>0. CountIsZero => OnlyExtracting
  BY DEF CountIsZero, OnlyExtracting
<1>1. CASE UNCHANGED agentVars
  <2>1. OnlyExtracting' = OnlyExtracting
    BY <1>1 DEF OnlyExtracting, agentVars
  <2>2. \/ turn' # "stream"
        \/ turn' = turn /\ allowFork' = allowFork
        \/ allowFork' = CountIsZero
    BY <1>1 DEF GateNext, StartTurn, StreamIsCut, RecordResults, BatchStops, NothingQueued, Answer,
       Drain, SpawnMemory, DrainEnds, DrainFails, CallTool, RunCall, Approve, Reject, RunLateCall,
       SetPermissionMode, AgentEnds, AgentCalls, Resolved, GoOn, Stream, Settle
  <2> QED BY <1>0, <2>1, <2>2 DEF StreamMayFork
<1>2. CASE \E a \in agents : AgentEnds(a)
  <2>1. PICK a \in agents : AgentEnds(a)
    BY <1>2
  <2>2. turn' = turn /\ allowFork' = allowFork
    BY <2>1 DEF AgentEnds
  <2>3. ASSUME OnlyExtracting PROVE OnlyExtracting'
    <3>1. a.type = "MemoryExtractor" /\ ~leaked
      BY <2>3 DEF OnlyExtracting
    <3>2. ~leaked'
      BY <2>1, <3>1 DEF AgentEnds
    <3> QED BY <2>1, <2>3, <3>2 DEF AgentEnds, OnlyExtracting
  <2> QED BY <2>2, <2>3 DEF StreamMayFork
<1>3. CASE SpawnMemory
  BY <1>3 DEF SpawnMemory, StreamMayFork, OnlyExtracting
<1>4. CASE Drain \/ DrainFails
  BY <1>4 DEF Drain, DrainFails, Settle, StreamMayFork
<1>5. CASE ~(\E a \in agents : AgentEnds(a)) /\ ~(SpawnMemory \/ Drain \/ DrainFails)
  <2>1. UNCHANGED agentVars
    BY <1>5 DEF GateNext, StartTurn, StreamIsCut, RecordResults, BatchStops, NothingQueued, Answer,
       DrainEnds, CallTool, RunCall, Approve, Reject, RunLateCall, SetPermissionMode, AgentCalls
  <2> QED BY <1>1, <2>1
<1> QED BY <1>2, <1>3, <1>4, <1>5

(* Only a stream asks, and only in the author's mode; only the author, with *)
(* nothing waiting, changes that.                                          *)
LEMMA QuestionsStayFit ==
  ASSUME GateTypeOK, ModesAgree, QuestionsFit, GateNext
  PROVE  QuestionsFit'
<1>1. CASE \E c \in GateCalls : CallTool(c)
  <2>1. PICK c \in GateCalls : CallTool(c)
    BY <1>1
  <2>2. mode = chosen /\ UNCHANGED <<chosen, question>>
    BY <2>1 DEF CallTool, ModesAgree, gateModes
  <2>3. Verdict(c, allowFork) = "ask" => mode = "normal"
    BY <2>2 DEF Verdict, ModeAllows, PermissionModes, GateTypeOK
  <2>4. waiting' = waiting \/ chosen = "normal"
    BY <2>1, <2>2, <2>3 DEF CallTool
  <2> QED BY <2>2, <2>4 DEF QuestionsFit
<1>2. CASE RecordResults
  <2>1. mode = chosen /\ UNCHANGED <<chosen, waiting>>
    BY <1>2 DEF RecordResults, ModesAgree, gateModes
  <2>2. question' => mode # "unattended"
    BY <1>2, Zenon DEF RecordResults, Asks
  <2> QED BY <2>1, <2>2 DEF QuestionsFit
<1>3. CASE \E m \in PermissionModes : SetPermissionMode(m)
  BY <1>3 DEF SetPermissionMode, IsTurnInProgress, QuestionsFit, callVars
<1>4. CASE ~(\E c \in GateCalls : CallTool(c)) /\ ~RecordResults
           /\ ~(\E m \in PermissionModes : SetPermissionMode(m))
  <2>1. chosen' = chosen /\ (question' = question \/ question' = FALSE) /\ waiting' \subseteq waiting
    BY <1>4 DEF GateNext, StartTurn, StreamIsCut, BatchStops, NothingQueued, Answer, Drain, SpawnMemory,
       DrainEnds, DrainFails, Restore, RunCall, Approve, Reject, RunLateCall, AgentEnds, AgentCalls,
       Resolved, gateModes, callVars
  <2> QED BY <2>1 DEF QuestionsFit
<1> QED BY <1>1, <1>2, <1>3, <1>4

(***************************************************************************)
(* What the record of a call that runs says.                               *)
(***************************************************************************)
(* A call of the main session that the check allows, or that the author    *)
(* has approved, keeps to the mode that is in force.                       *)
LEMMA MainCallsObey ==
  ASSUME NEW c \in GateCalls, NEW fork \in BOOLEAN, NEW approved \in BOOLEAN, NEW isLate \in BOOLEAN,
         Runs("main", c, fork, approved, isLate), UNCHANGED gateModes,
         mode = chosen \/ isLate, approved => chosen = "normal"
  PROVE  ModeIsObeyed'
<1>1. ran' = [by |-> "main", tool |-> c.tool, place |-> c.place, approved |-> approved, late |-> isLate]
  BY DEF Runs
<1>2. settings' = settings /\ mode' = mode /\ chosen' = chosen
  BY DEF gateModes
<1>3. Verdict(c, fork) = "allow" \/ approved
  BY DEF Runs, MayRun
<1> SUFFICES ASSUME c.tool \notin AlwaysAllow \cup {"TodoWrite"}, mode = chosen
             PROVE  ChosenModeAllows'
  <2>1. AlwaysAllow' = AlwaysAllow
    BY <1>2 DEF AlwaysAllow
  <2>2. ran'.late = isLate /\ ran'.tool = c.tool
    BY <1>1
  <2> QED BY <1>2, <2>1, <2>2 DEF ModeIsObeyed
<1>4. CASE approved
  BY <1>1, <1>2, <1>4 DEF ChosenModeAllows
<1>5. CASE ~approved
  <2>1. ModeAllows(c)
    BY <1>3, <1>5 DEF Verdict
  <2> QED BY <1>1, <1>2, <2>1 DEF ChosenModeAllows, ModeAllows, PlanAllows
<1> QED BY <1>4, <1>5

(* A call that may not fork does not.                                      *)
LEMMA ForkNeedsLeave ==
  ASSUME NEW by, NEW c, NEW fork \in BOOLEAN, NEW approved, MayRun(by, c, fork, approved),
         c.tool = "ForkSubAgent"
  PROVE  fork
<1> SUFFICES ASSUME ~fork PROVE FALSE
  OBVIOUS
<1>1. Verdict(c, fork) = "deny"
  <2>1. fork = FALSE
    OBVIOUS
  <2>2. c.tool = "ForkSubAgent" /\ ~fork
    BY <2>1
  <2> QED BY <2>2 DEF Verdict, DenyRuleBlocks
<1>2. Verdict(c, fork) = "allow" \/ Verdict(c, fork) = "ask"
  BY DEF MayRun
<1> QED BY <1>1, <1>2

(* What a call of the main session leaves behind.                          *)
LEMMA MainCallsHold ==
  ASSUME NEW c \in GateCalls, NEW fork \in BOOLEAN, NEW approved \in BOOLEAN, NEW isLate \in BOOLEAN,
         Runs("main", c, fork, approved, isLate), UNCHANGED gateModes, UNCHANGED agentVars,
         mode = chosen \/ isLate, approved => chosen = "normal", fork => OnlyExtracting \/ isLate,
         QuestionsFit'
  PROVE  TheGateHolds'
<1>1. ran' = [by |-> "main", tool |-> c.tool, place |-> c.place, approved |-> approved, late |-> isLate]
  BY DEF Runs
<1>2. ModeIsObeyed'
  BY MainCallsObey
<1>3. NobodyIsAskedInVain'
  BY <1>1 DEF NobodyIsAskedInVain, QuestionsFit, gateModes
<1>4. ForksDoNotNest'
  <2>1. OnlyExtracting' = OnlyExtracting
    BY DEF OnlyExtracting, agentVars
  <2>2. c.tool = "ForkSubAgent" => fork
    BY ForkNeedsLeave DEF Runs
  <2>3. ran'.by = "main" /\ ran'.late = isLate /\ ran'.tool = c.tool
    BY <1>1
  <2> QED BY <2>1, <2>2, <2>3 DEF ForksDoNotNest
<1>5. RolesAreKept'
  BY <1>1 DEF RolesAreKept
<1> QED BY <1>2, <1>3, <1>4, <1>5 DEF TheGateHolds

(* What a call of an agent leaves behind.                                  *)
LEMMA AgentCallsHold ==
  ASSUME GateTypeOK, NEW a \in agents, NEW c \in GateCalls, AgentCalls(a, c), QuestionsFit'
  PROVE  TheGateHolds'
<1>1. ran' = [by |-> a.type, tool |-> c.tool, place |-> c.place, approved |-> FALSE, late |-> FALSE]
  BY DEF AgentCalls, RunsForAgent, Runs
<1>2. MayRun(a.type, c, FALSE, FALSE)
  BY DEF AgentCalls, RunsForAgent, Runs
<1>3. a.type \in AgentTypes \cup {"MemoryExtractor"} /\ a.type # "main"
  <2>1. a.type \in AgentTypes \cup {"MemoryExtractor"}
    BY DEF GateTypeOK
  <2>2. "main" \notin AgentTypes
    BY DEF AgentTypes, SuggestedTools
  <2> QED BY <2>1, <2>2
<1>4. ran'.by = a.type /\ ran'.tool = c.tool /\ ran'.place = c.place
  BY <1>1
<1>5. ModeIsObeyed'
  BY <1>3, <1>4 DEF ModeIsObeyed
<1>6. NobodyIsAskedInVain'
  BY <1>3, <1>4 DEF NobodyIsAskedInVain, QuestionsFit
<1>7. ForksDoNotNest'
  BY <1>2, <1>4, ForkNeedsLeave DEF ForksDoNotNest
<1>8. RolesAreKept'
  <2>1. GatePasses(a.type, c)
    BY <1>2 DEF MayRun
  <2> QED BY <1>3, <1>4, <2>1 DEF RolesAreKept, GatePasses, MemoryForkMayUse, PathWriters
<1> QED BY <1>5, <1>6, <1>7, <1>8 DEF TheGateHolds

(* A step that runs no call.                                               *)
LEMMA QuietStepsHold ==
  ASSUME ran' = NoRun, QuestionsFit'
  PROVE  TheGateHolds'
BY DEF TheGateHolds, ModeIsObeyed, NobodyIsAskedInVain, ForksDoNotNest, RolesAreKept, QuestionsFit, NoRun

(* No call ever runs past the gate.                                        *)
THEOREM NoCallPassesTheGate == GateSpec => []TheGateHolds
<1>1. GateInit => GateInv /\ TheGateHolds
  BY DEF GateInit, GateInv, ModesAgree, StreamMayFork, QuestionsFit, TheGateHolds, ModeIsObeyed,
     NobodyIsAskedInVain, ForksDoNotNest, RolesAreKept, NoRun
<1>2. GateTypeOK /\ GateInv /\ TheGateHolds /\ [GateNext]_gateVars => GateInv' /\ TheGateHolds'
  <2> SUFFICES ASSUME GateTypeOK, GateInv, TheGateHolds, [GateNext]_gateVars
               PROVE  GateInv' /\ TheGateHolds'
    OBVIOUS
  <2>1. CASE UNCHANGED gateVars
    <3>1. GateInv'
      BY <2>1 DEF GateInv, ModesAgree, StreamMayFork, QuestionsFit, OnlyExtracting, gateVars, gateModes,
         callVars, agentVars
    <3>2. AlwaysAllow' = AlwaysAllow /\ OnlyExtracting' = OnlyExtracting
      BY <2>1 DEF AlwaysAllow, OnlyExtracting, gateVars, gateModes, agentVars
    <3>3. UNCHANGED <<mode, chosen, waiting, question, ran>>
      BY <2>1 DEF gateVars, gateModes, callVars
    <3>4. TheGateHolds'
      BY <3>2, <3>3 DEF TheGateHolds, ModeIsObeyed, ChosenModeAllows, NobodyIsAskedInVain,
         ForksDoNotNest, RolesAreKept
    <3> QED BY <3>1, <3>4
  <2>2. CASE GateNext
    <3>1. GateInv'
      BY <2>2, ModesStayAgreed, StreamsKeepTheirLeave, QuestionsStayFit DEF GateInv
    <3>2. CASE ran' = NoRun
      BY <3>1, <3>2, QuietStepsHold DEF GateInv
    <3>3. CASE ran' # NoRun
      <4>1. \/ \E c \in GateCalls : RunCall(c)
            \/ \E c \in GateCalls : Approve(c)
            \/ \E l \in late : RunLateCall(l)
            \/ \E a \in agents : \E c \in GateCalls : AgentCalls(a, c)
        BY <2>2, <3>3 DEF GateNext, StartTurn, StreamIsCut, RecordResults, BatchStops, NothingQueued,
           Answer, Drain, SpawnMemory, DrainEnds, DrainFails, CallTool, Reject, SetPermissionMode,
           AgentEnds
      <4>2. CASE \E c \in GateCalls : RunCall(c)
        <5>1. PICK c \in GateCalls : RunCall(c)
          BY <4>2
        <5>2. /\ Runs("main", c, allowFork, FALSE, FALSE)
              /\ UNCHANGED gateModes /\ UNCHANGED agentVars
          BY <3>3, <5>1 DEF RunCall
        <5>3. mode = chosen /\ (allowFork => OnlyExtracting) /\ allowFork \in BOOLEAN
          BY <5>1 DEF RunCall, GateInv, ModesAgree, StreamMayFork, GateTypeOK
        <5> QED BY <3>1, <5>2, <5>3, MainCallsHold DEF GateInv
      <4>3. CASE \E c \in GateCalls : Approve(c)
        <5>1. PICK c \in GateCalls : Approve(c)
          BY <4>3
        <5>2. /\ Runs("main", c, CountIsZero, TRUE, FALSE)
              /\ UNCHANGED gateModes /\ UNCHANGED agentVars
          BY <3>3, <5>1 DEF Approve
        <5>3. mode = chosen /\ chosen = "normal"
          BY <5>1 DEF Approve, Resolved, GateInv, ModesAgree, QuestionsFit
        <5>4. CountIsZero \in BOOLEAN /\ (CountIsZero => OnlyExtracting)
          BY DEF CountIsZero, OnlyExtracting
        <5> QED BY <3>1, <5>2, <5>3, <5>4, MainCallsHold DEF GateInv
      <4>4. CASE \E l \in late : RunLateCall(l)
        <5>1. PICK l \in late : RunLateCall(l)
          BY <4>4
        <5>2. /\ Runs("main", l.call, l.fork, FALSE, TRUE)
              /\ UNCHANGED gateModes /\ UNCHANGED agentVars
          BY <3>3, <5>1 DEF RunLateCall
        <5>3. l.call \in GateCalls /\ l.fork \in BOOLEAN
          BY DEF GateTypeOK
        <5> QED BY <3>1, <5>2, <5>3, MainCallsHold DEF GateInv
      <4>5. CASE \E a \in agents : \E c \in GateCalls : AgentCalls(a, c)
        BY <3>1, <4>5, AgentCallsHold DEF GateInv
      <4> QED BY <4>1, <4>2, <4>3, <4>4, <4>5
    <3> QED BY <3>1, <3>2, <3>3
  <2> QED BY <2>1, <2>2
<1> QED BY <1>1, <1>2, GateTypeCorrect, PTL DEF GateSpec

(***************************************************************************)
(* KnowledgeBase: the files together, and ImpactAnalysis.                  *)
(***************************************************************************)
(* The files share no state: what happens to one of them is what happens   *)
(* to it alone.                                                            *)
LEMMA EachFile == BaseSpec => LedgerSpec /\ ThreadsSpec /\ CardsSpec /\ OutlineSpec
<1>1. BaseInit => LedgerInit /\ ThreadsInit /\ CardsInit /\ OutlineInit
  BY DEF BaseInit
<1>2. [BaseNext]_baseVars => [LedgerNext]_ledgerVars
  BY DEF BaseNext, baseVars, RebuildToc
<1>3. [BaseNext]_baseVars => [ThreadsNext]_threadVars
  BY DEF BaseNext, baseVars, RebuildToc
<1>4. [BaseNext]_baseVars => [CardsNext]_cardVars
  BY DEF BaseNext, baseVars, RebuildToc
<1>5. [BaseNext]_baseVars => [OutlineNext]_outlineVars
  BY DEF BaseNext, baseVars, RebuildToc
<1> QED BY <1>1, <1>2, <1>3, <1>4, <1>5, PTL DEF BaseSpec, LedgerSpec, ThreadsSpec, CardsSpec, OutlineSpec

(* A character that CharacterRotate saw in a chapter or later.             *)
LEMMA NoCardIsMissed ==
  ASSUME CardTypes, NEW c \in Chapters, NEW n \in Names, LastAppearance(n) >= c
  PROVE  n \in ImpactedCards(c)
<1> DEFINE list == RowsOf(n, "appearances")
<1>1. c \in Nat /\ c # 0 /\ LastAppearance(n) \in Nat
  BY AppearancesAre, LastChapterIsNat DEF Chapters, Chapter
<1>2. Appearances(n) # {}
  BY <1>1 DEF LastAppearance, Greatest
<1>3. LastAppearance(n) \in Appearances(n)
  <2>1. Appearances(n) \subseteq Chapter
    BY AppearancesAre
  <2> QED BY <1>2, <2>1, GreatestChapter DEF LastAppearance
<1>4. PICK i \in DOMAIN list : list[i].chapter = LastAppearance(n)
  BY <1>3 DEF Appearances
<1>5. list[i] \in ToSet(list) /\ list[i].chapter >= c
  BY <1>4 DEF ToSet
<1> HIDE DEF list
<1> QED BY <1>5 DEF ImpactedCards, list

(* The last row of a timeline speaks for all, while it is in order.        *)
LEMMA TheTimelineTells ==
  ASSUME ThreadTypes, TimelineInOrder, NEW c \in Chapters, TrackedIn(c, LastChapter) # <<>>
  PROVE  TimelineImpacted(c)
<1> DEFINE K == {r \in ToSet(tracks) : r.chapter >= c /\ r.chapter <= LastChapter}
           L == Len(tracks)
<1>1. tracks \in Seq(Track) /\ L \in Nat /\ DOMAIN tracks = 1 .. L
  BY DEF ThreadTypes
<1>2. Kept(tracks, K) # <<>>
  BY DEF TrackedIn
<1>3. \E i \in 1 .. L : tracks[i] \in K
  <2> HIDE DEF K
  <2> QED BY <1>1, <1>2, KeptNone
<1>4. PICK i \in 1 .. L : tracks[i].chapter >= c
  BY <1>3
<1>5. L \in 1 .. L /\ tracks # <<>>
  BY <1>1, <1>4
<1>6. tracks[i].chapter \in Nat /\ tracks[L].chapter \in Nat /\ c \in Nat
  <2>1. tracks[i] \in Track /\ tracks[L] \in Track
    BY <1>1, <1>4, <1>5
  <2> QED BY <2>1, LastChapterIsNat DEF Track, Chapter, Chapters
<1>7. tracks[i].chapter <= tracks[L].chapter
  <2>1. CASE i = L
    BY <1>6, <2>1
  <2>2. CASE i # L
    <3>1. i \in DOMAIN tracks
      BY <1>1
    <3>2. L \in i + 1 .. L
      <4> HIDE DEF L
      <4> QED BY <1>1, <2>2
    <3> QED BY <3>1, <3>2 DEF TimelineInOrder
  <2> QED BY <2>1, <2>2
<1>8. LastTracked = tracks[L].chapter
  BY <1>5 DEF LastTracked, Last
<1>9. LastTracked >= c
  BY <1>4, <1>6, <1>7, <1>8
<1> QED BY <1>5, <1>9 DEF TimelineImpacted

(* Of an earlier chapter the answer names no less.                         *)
LEMMA EarlierNamesNoLess ==
  ASSUME ThreadTypes, CardTypes, NEW c \in Chapters, NEW d \in 1 .. c
  PROVE  /\ ImpactedCards(c) \subseteq ImpactedCards(d)
         /\ ImpactedThreads(c) \subseteq ImpactedThreads(d)
         /\ ImpactedEvents(c) \subseteq ImpactedEvents(d)
<1>1. \A x \in Chapter : x >= c => x >= d
  BY LastChapterIsNat DEF Chapters, Chapter
<1>2. ImpactedThreads(c) \subseteq ImpactedThreads(d)
  <2>1. \A j \in DOMAIN threads : threads[j].chapter \in Chapter
    <3>1. \A j \in DOMAIN threads : threads[j] \in Thread
      BY DEF ThreadTypes
    <3> QED BY <3>1 DEF Thread
  <2> QED BY <1>1, <2>1 DEF ImpactedThreads
<1>3. ImpactedEvents(c) \subseteq ImpactedEvents(d)
  <2>1. \A j \in DOMAIN causes : causes[j].chapter \in Chapter
    <3>1. \A j \in DOMAIN causes : causes[j] \in Cause
      BY DEF ThreadTypes
    <3> QED BY <3>1 DEF Cause
  <2> QED BY <1>1, <2>1 DEF ImpactedEvents
<1>4. ImpactedCards(c) \subseteq ImpactedCards(d)
  <2>1. \A n \in Names : \A r \in ToSet(RowsOf(n, "appearances")) : r.chapter \in Chapter
    <3>1. \A n \in Names : RowsOf(n, "appearances") \in Seq(CardRow)
      BY RowsOfTable DEF Tables
    <3>2. \A n \in Names : ToSet(RowsOf(n, "appearances")) \subseteq CardRow
      BY <3>1 DEF ToSet
    <3> QED BY <3>2 DEF CardRow
  <2> QED BY <1>1, <2>1 DEF ImpactedCards
<1> QED BY <1>2, <1>3, <1>4

(* PlotGraph asked of the cause of an edge tells its effect.               *)
LEMMA EffectsAreTold ==
  ASSUME ThreadTypes, NEW i \in DOMAIN Graph.edges
  PROVE  Graph.edges[i].to \in ToSet(Traverse(Graph.edges[i].from, Cardinality(Graph.nodes), TRUE))
<1> DEFINE g == Graph
           n == Cardinality(g.nodes)
           e == g.edges[i].from
<1>1. GraphOk(g, Len(causes))
  BY GraphIsOk
<1> HIDE DEF g
<1>2. /\ g \in Graphs /\ IsFiniteSet(g.nodes) /\ g.nodes \in SUBSET Events /\ g.edges \in Seq(Cause)
      /\ \A j \in DOMAIN g.edges : g.edges[j].from \in g.nodes /\ g.edges[j].to \in g.nodes
      /\ Acyclic(g.edges)
  BY <1>1 DEF GraphOk, Graphs
<1>3. i \in DOMAIN g.edges /\ e \in g.nodes /\ n \in Nat /\ n >= n - 1
  BY <1>2, FS_CardinalityType DEF g
<1>4. Told(g.edges, g.nodes, n, e, Traverse(e, n, TRUE))
  <2>1. Traverse(e, n, TRUE) = Walk(g.edges, n, n, e).out
    BY <1>3 DEF Traverse, g
  <2>2. Walkable(g.edges, g.nodes, n, e)
    BY <1>2, <1>3 DEF Walkable
  <2> QED BY <2>1, <2>2, WalkEnds
<1>5. ToSet(Traverse(e, n, TRUE)) = Reached(g.edges, {e}) \ {e}
  BY <1>3, <1>4 DEF Told
<1>6. g.edges[i].to \in Neighbours(g.edges, e)
  BY <1>3 DEF Neighbours
<1>7. g.edges[i].to \in Events /\ e \in Events
  BY <1>2, <1>3
<1>8. g.edges[i].to \in Reached(g.edges, {e})
  <2>1. \A C \in SUBSET Events : {e} \subseteq C /\ Closed(g.edges, C) => g.edges[i].to \in C
    BY <1>3, <1>6 DEF Closed, Neighbours
  <2> QED BY <1>7, <2>1 DEF Reached
<1>9. g.edges[i].to # e
  <2>1. e \in Reached(g.edges, Neighbours(g.edges, e)) => FALSE
    BY <1>2, <1>3, <1>7 DEF Acyclic
  <2>2. e \in Neighbours(g.edges, e) => e \in Reached(g.edges, Neighbours(g.edges, e))
    BY <1>7 DEF Reached
  <2> QED BY <1>6, <2>1, <2>2
<1> QED BY <1>5, <1>8, <1>9 DEF g

LEMMA NothingIsMissed == ASSUME ThreadTypes, CardTypes PROVE ImpactMissesNothing
<1> SUFFICES ASSUME NEW c \in Chapters
             PROVE  /\ \A n \in Names : LastAppearance(n) >= c => n \in Impact(c).cards
                    /\ \A i \in DOMAIN OpenThreads :
                         (\E j \in DOMAIN threads : threads[j].id = i /\ Decides(threads[j]) /\ threads[j].chapter >= c)
                           => i \in Impact(c).threads
                    /\ \A i \in DOMAIN Graph.edges :
                         Graph.edges[i].chapter >= c =>
                           \E e \in Impact(c).events :
                              /\ e = Graph.edges[i].from
                              /\ Graph.edges[i].to \in ToSet(Traverse(e, Cardinality(Graph.nodes), TRUE))
                    /\ TimelineInOrder /\ TrackedIn(c, LastChapter) # <<>> => Impact(c).timeline
                    /\ \A d \in 1 .. c : /\ Impact(c).cards \subseteq Impact(d).cards
                                         /\ Impact(c).threads \subseteq Impact(d).threads
                                         /\ Impact(c).events \subseteq Impact(d).events
  BY DEF ImpactMissesNothing
<1>1. \A d : /\ Impact(d).cards = ImpactedCards(d) /\ Impact(d).threads = ImpactedThreads(d)
             /\ Impact(d).events = ImpactedEvents(d) /\ Impact(d).timeline = TimelineImpacted(d)
  BY DEF Impact
<1>2. \A n \in Names : LastAppearance(n) >= c => n \in Impact(c).cards
  BY <1>1, NoCardIsMissed
<1>3. ASSUME NEW j \in DOMAIN threads, Decides(threads[j]), threads[j].chapter >= c
      PROVE  threads[j].id \in Impact(c).threads
  <2>1. threads[j] \in Thread
    BY DEF ThreadTypes
  <2>2. threads[j].cells >= 7
    BY <1>3, <2>1 DEF Thread, Decides, Tracked
  <2> QED BY <1>1, <1>3, <2>2 DEF ImpactedThreads
<1>4. ASSUME NEW i \in DOMAIN Graph.edges, Graph.edges[i].chapter >= c
      PROVE  \E e \in Impact(c).events :
                /\ e = Graph.edges[i].from
                /\ Graph.edges[i].to \in ToSet(Traverse(e, Cardinality(Graph.nodes), TRUE))
  <2>1. PICK j \in 1 .. Len(causes) : Graph.edges[i] = causes[j]
    BY GraphIsOk DEF GraphOk
  <2>2. j \in DOMAIN causes
    BY DEF ThreadTypes
  <2>3. Graph.edges[i].from \in Impact(c).events
    BY <1>1, <1>4, <2>1, <2>2 DEF ImpactedEvents
  <2> QED BY <2>3, EffectsAreTold
<1>5. TimelineInOrder /\ TrackedIn(c, LastChapter) # <<>> => Impact(c).timeline
  BY <1>1, TheTimelineTells
<1>6. \A d \in 1 .. c : /\ Impact(c).cards \subseteq Impact(d).cards
                        /\ Impact(c).threads \subseteq Impact(d).threads
                        /\ Impact(c).events \subseteq Impact(d).events
  BY <1>1, EarlierNamesNoLess
<1> QED BY <1>2, <1>3, <1>4, <1>5, <1>6

(* ImpactAnalysis misses nothing that CharacterRotate, ForeshadowTracker,  *)
(* PlotGraph or TrackingQuery still tell of a chapter or of a later one,   *)
(* whatever agents write into the files, in whatever order.                *)
THEOREM TheImpactMissesNothing == BaseSpec => []ImpactMissesNothing
<1>1. ThreadTypes /\ CardInv => ImpactMissesNothing
  BY NothingIsMissed DEF CardInv
<1> QED BY <1>1, EachFile, LogsAreTyped, CardsAreKept, PTL

(* What each tool tells of its file holds of the files together as well.   *)
THEOREM TheKnowledgeIsTold ==
  BaseSpec => [](LedgerTellsTheLast /\ PlotIsTold /\ CardsAreTold /\ PlansAreKept)
BY EachFile, TheLedgerTellsTheLast, ThePlotIsTold, TheCardsAreTold, ThePlansAreKept, PTL
=============================================================================
