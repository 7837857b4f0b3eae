----------------------- MODULE ToolChainRepair_proofs -----------------------
(* The repair of a transcript, for every transcript whatever its length and   *)
(* its calls: the request is well formed, the repair loses nothing that was   *)
(* valid, and a second repair changes nothing.                                *)
EXTENDS ToolChainRepair, Subsequences_proofs, FiniteSetTheorems

-----------------------------------------------------------------------------
(* The two passes, message by message *)

Step(fills, out, m) == IF fills THEN FillStep(out, m) ELSE KeepOrDrop(out, m)

Pass(ms, fills) == IF fills THEN Filled(ms) ELSE RemoveOrphans(ms)

(* The function that a pass is defined by exists.                             *)
PassUpTo(s, fills, f, n) ==
    f = [i \in 0 .. n |-> IF i = 0 THEN <<>> ELSE Step(fills, f[i - 1], s[i])]

LEMMA PassExists ==
    ASSUME NEW s, NEW fills, NEW n \in Nat
    PROVE  \E f : PassUpTo(s, fills, f, n)
<1> DEFINE N == {k \in Nat : \E f : PassUpTo(s, fills, f, k)}
<1>1. 0 \in N
  <2>1. PassUpTo(s, fills, [i \in 0 .. 0 |-> <<>>], 0)
    BY DEF PassUpTo
  <2> QED BY <2>1
<1>2. ASSUME NEW k \in Nat, k \in N PROVE k + 1 \in N
  <2>1. PICK f : PassUpTo(s, fills, f, k)
    BY <1>2
  <2> DEFINE g == [i \in 0 .. k + 1 |-> IF i = 0 THEN <<>> ELSE Step(fills, f[i - 1], s[i])]
  <2>2. ASSUME NEW i \in 0 .. k PROVE g[i] = f[i]
    <3>1. g[i] = IF i = 0 THEN <<>> ELSE Step(fills, f[i - 1], s[i])
      OBVIOUS
    <3>2. f[i] = IF i = 0 THEN <<>> ELSE Step(fills, f[i - 1], s[i])
      BY <2>1 DEF PassUpTo
    <3> QED BY <3>1, <3>2
  <2>3. PassUpTo(s, fills, g, k + 1)
    <3>1. ASSUME NEW i \in 0 .. k + 1, i # 0 PROVE g[i - 1] = f[i - 1]
      BY <2>2, <3>1, i - 1 \in 0 .. k
    <3>2. \A i \in 0 .. k + 1 : g[i] = IF i = 0 THEN <<>> ELSE Step(fills, g[i - 1], s[i])
      BY <3>1
    <3> QED BY <3>2 DEF PassUpTo
  <2> HIDE DEF g
  <2> QED BY <2>3
<1> HIDE DEF N
<1>3. n \in N
  BY <1>1, <1>2, SetInduction
<1> QED BY <1>3 DEF N

LEMMA PassStep ==
    ASSUME NEW s, NEW fills, NEW f, NEW n \in Nat, PassUpTo(s, fills, f, n),
           NEW k \in Nat, k + 1 <= n
    PROVE  f[k + 1] = Step(fills, f[k], s[k + 1])
<1>1. \A i \in 0 .. n : f[i] = IF i = 0 THEN <<>> ELSE Step(fills, f[i - 1], s[i])
  BY DEF PassUpTo
<1>2. PICK j \in 0 .. n : j = k + 1
  OBVIOUS
<1>3. j # 0 /\ j - 1 = k
  BY <1>2
<1>4. f[j] = Step(fills, f[j - 1], s[j])
  BY <1>1, <1>3
<1> QED BY <1>2, <1>3, <1>4

LEMMA PassIsLast ==
    ASSUME NEW T, NEW s \in Seq(T), NEW fills \in BOOLEAN
    PROVE  \E f : PassUpTo(s, fills, f, Len(s)) /\ Pass(s, fills) = f[Len(s)]
<1> DEFINE f == CHOOSE g : PassUpTo(s, fills, g, Len(s))
<1>1. PassUpTo(s, fills, f, Len(s))
  BY PassExists
<1>2. CASE fills = TRUE
  <2>1. Pass(s, fills) = f[Len(s)]
    BY <1>2 DEF Pass, Filled, PassUpTo, Step
  <2> HIDE DEF f
  <2> QED BY <1>1, <2>1
<1>3. CASE fills = FALSE
  <2>1. Pass(s, fills) = f[Len(s)]
    BY <1>3 DEF Pass, RemoveOrphans, PassUpTo, Step
  <2> HIDE DEF f
  <2> QED BY <1>1, <2>1
<1> QED BY <1>2, <1>3

LEMMA PassesAgree ==
    ASSUME NEW T, NEW s \in Seq(T), NEW t \in Seq(T), NEW fills, NEW n \in Nat, NEW m \in Nat,
           n <= m, NEW f, NEW g, PassUpTo(s, fills, f, n), PassUpTo(t, fills, g, m),
           \A i \in 1 .. n : s[i] = t[i]
    PROVE  f[n] = g[n]
<1> DEFINE N == {k \in Nat : k <= n => f[k] = g[k]}
<1>1. 0 \in N
  BY DEF PassUpTo
<1>2. ASSUME NEW k \in Nat, k \in N PROVE k + 1 \in N
  <2> SUFFICES ASSUME k + 1 <= n PROVE f[k + 1] = g[k + 1]
    OBVIOUS
  <2>1. f[k] = g[k] /\ s[k + 1] = t[k + 1]
    BY <1>2
  <2>2. f[k + 1] = Step(fills, f[k], s[k + 1])
    BY PassStep
  <2>3. g[k + 1] = Step(fills, g[k], t[k + 1])
    <3>1. k + 1 <= m
      OBVIOUS
    <3> QED BY <3>1, PassStep
  <2> QED BY <2>1, <2>2, <2>3
<1> HIDE DEF N
<1>3. n \in N
  BY <1>1, <1>2, SetInduction
<1> QED BY <1>3 DEF N

(* A pass over nothing gives nothing, and one more message is one more step.  *)
LEMMA PassOfNone ==
    ASSUME NEW fills \in BOOLEAN
    PROVE  Pass(<<>>, fills) = <<>>
<1>1. <<>> \in Seq({}) /\ Len(<<>>) = 0
  OBVIOUS
<1>2. PICK f : PassUpTo(<<>>, fills, f, 0) /\ Pass(<<>>, fills) = f[0]
  BY <1>1, PassIsLast
<1> QED BY <1>2 DEF PassUpTo

LEMMA PassOfAppend ==
    ASSUME NEW T, NEW s \in Seq(T), NEW x \in T, NEW fills \in BOOLEAN
    PROVE  Pass(Append(s, x), fills) = Step(fills, Pass(s, fills), x)
<1> DEFINE t == Append(s, x)
           n == Len(s)
<1>1. t \in Seq(T) /\ Len(t) = n + 1 /\ t[n + 1] = x /\ \A i \in 1 .. n : t[i] = s[i]
  OBVIOUS
<1>2. n \in Nat
  OBVIOUS
<1> HIDE DEF t
<1>3. PICK f : PassUpTo(s, fills, f, n) /\ Pass(s, fills) = f[n]
  BY PassIsLast
<1>4. PICK g : PassUpTo(t, fills, g, n + 1) /\ Pass(t, fills) = g[n + 1]
  BY <1>1, PassIsLast
<1> HIDE DEF n
<1>5. f[n] = g[n]
  BY <1>1, <1>2, <1>3, <1>4, PassesAgree, n <= n + 1, n + 1 \in Nat
<1>6. g[n + 1] = Step(fills, g[n], t[n + 1])
  BY <1>2, <1>4, PassStep, n + 1 <= n + 1, n + 1 \in Nat
<1> QED BY <1>1, <1>3, <1>4, <1>5, <1>6 DEF t

LEMMA RemoveOrphansOf ==
    /\ RemoveOrphans(<<>>) = <<>>
    /\ \A T : \A s \in Seq(T), x \in T :
         RemoveOrphans(Append(s, x)) = KeepOrDrop(RemoveOrphans(s), x)
<1>1. RemoveOrphans(<<>>) = <<>>
  BY PassOfNone DEF Pass
<1>2. ASSUME NEW T, NEW s \in Seq(T), NEW x \in T
      PROVE  RemoveOrphans(Append(s, x)) = KeepOrDrop(RemoveOrphans(s), x)
  <2>1. Pass(Append(s, x), FALSE) = Step(FALSE, Pass(s, FALSE), x)
    BY PassOfAppend
  <2> QED BY <2>1 DEF Pass, Step
<1> QED BY <1>1, <1>2

LEMMA FilledOf ==
    /\ Filled(<<>>) = <<>>
    /\ \A T : \A s \in Seq(T), x \in T : Filled(Append(s, x)) = FillStep(Filled(s), x)
<1>1. Filled(<<>>) = <<>>
  BY PassOfNone DEF Pass
<1>2. ASSUME NEW T, NEW s \in Seq(T), NEW x \in T
      PROVE  Filled(Append(s, x)) = FillStep(Filled(s), x)
  <2>1. Pass(Append(s, x), TRUE) = Step(TRUE, Pass(s, TRUE), x)
    BY PassOfAppend
  <2> QED BY <2>1 DEF Pass, Step
<1> QED BY <1>1, <1>2

-----------------------------------------------------------------------------
(* A finite set of numbers in order *)

Rank(S, n) == Cardinality({ k \in S : k <= n })

(* Every place of a finite set of numbers is taken by one of them.            *)
LEMMA RanksAreTaken ==
    ASSUME NEW S, S \subseteq Nat, IsFiniteSet(S)
    PROVE  /\ Cardinality(S) \in Nat
           /\ \A n \in S : Rank(S, n) \in 1 .. Cardinality(S)
           /\ \A n, k \in S : Rank(S, n) = Rank(S, k) => n = k
           /\ \A i \in 1 .. Cardinality(S) : \E n \in S : Rank(S, n) = i
<1> DEFINE B(n) == { k \in S : k <= n }
           c == Cardinality(S)
           rank == [n \in S |-> Rank(S, n)]
<1>1. c \in Nat
  BY FS_CardinalityType
<1>2. ASSUME NEW n \in S
      PROVE  IsFiniteSet(B(n)) /\ Rank(S, n) = Cardinality(B(n)) /\ Rank(S, n) \in 1 .. c
  <2>1. B(n) \subseteq S /\ n \in B(n)
    OBVIOUS
  <2>2. IsFiniteSet(B(n)) /\ Cardinality(B(n)) <= c
    BY <2>1, FS_Subset
  <2>3. Cardinality(B(n)) \in Nat /\ Cardinality(B(n)) # 0
    BY <2>1, <2>2, FS_CardinalityType, FS_EmptySet
  <2> QED BY <1>1, <2>2, <2>3 DEF Rank
<1>3. ASSUME NEW n \in S, NEW k \in S, n < k PROVE Rank(S, n) # Rank(S, k)
  <2>1. B(n) \subseteq B(k) /\ k \in B(k) /\ k \notin B(n)
    <3>1. n \in Nat /\ k \in Nat /\ \A j \in S : j \in Nat
      OBVIOUS
    <3>2. \A j \in S : j <= n => j <= k
      BY <1>3, <3>1
    <3>3. ~ (k <= n)
      BY <1>3, <3>1
    <3>4. B(n) \subseteq B(k)
      BY <3>2
    <3>5. k \in B(k)
      BY <3>1
    <3>6. k \notin B(n)
      BY <3>3
    <3> QED BY <3>4, <3>5, <3>6
  <2>2. Cardinality(B(n)) # Cardinality(B(k))
    BY <1>2, <2>1, FS_Subset
  <2> QED BY <1>2, <2>2
<1>4. \A n, k \in S : Rank(S, n) = Rank(S, k) => n = k
  <2> SUFFICES ASSUME NEW n \in S, NEW k \in S, n # k PROVE Rank(S, n) # Rank(S, k)
    OBVIOUS
  <2>1. n < k \/ k < n
    OBVIOUS
  <2> QED BY <1>3, <2>1
<1>5. \A n \in S : Rank(S, n) \in 1 .. c
  <2> HIDE DEF B, c
  <2> QED BY <1>2
<1>6. rank \in Injection(S, 1 .. c)
  <2>1. rank \in [S -> 1 .. c]
    BY <1>5
  <2>2. \A n, k \in S : rank[n] = rank[k] => n = k
    BY <1>4
  <2> HIDE DEF rank
  <2> QED BY <2>1, <2>2 DEF Injection, IsInjective
<1>7. IsFiniteSet(1 .. c) /\ Cardinality(1 .. c) = c
  BY <1>1, FS_Interval
<1>8. rank \in Surjection(S, 1 .. c)
  <2> HIDE DEF rank
  <2> QED BY <1>6, <1>7, FS_Injection
<1>9. ASSUME NEW i \in 1 .. c PROVE \E n \in S : Rank(S, n) = i
  <2>1. PICK n \in S : rank[n] = i
    <3> HIDE DEF rank
    <3> QED BY <1>8 DEF Surjection
  <2> QED BY <2>1
<1> QED BY <1>1, <1>4, <1>5, <1>9

(* Ascending names each of the numbers once, at its rank.                     *)
LEMMA AscendingOf ==
    ASSUME NEW S, S \subseteq Nat, IsFiniteSet(S)
    PROVE  /\ Ascending(S) \in Seq(S)
           /\ Len(Ascending(S)) = Cardinality(S)
           /\ DOMAIN Ascending(S) = 1 .. Cardinality(S)
           /\ \A i \in 1 .. Cardinality(S) :
                Ascending(S)[i] \in S /\ Rank(S, Ascending(S)[i]) = i
           /\ \A n \in S : \E i \in 1 .. Cardinality(S) : Ascending(S)[i] = n
<1> DEFINE A == Ascending(S)
           c == Cardinality(S)
<1>1. c \in Nat
  BY FS_CardinalityType
<1>2. A = [i \in 1 .. c |-> CHOOSE n \in S : Rank(S, n) = i]
  BY DEF Ascending, Rank
<1>3. ASSUME NEW i \in 1 .. c PROVE A[i] \in S /\ Rank(S, A[i]) = i
  <2>1. \E n \in S : Rank(S, n) = i
    BY RanksAreTaken
  <2>2. A[i] = CHOOSE n \in S : Rank(S, n) = i
    BY <1>2
  <2> HIDE DEF A
  <2> QED BY <2>1, <2>2
<1>4. DOMAIN A = 1 .. c
  BY <1>2
<1>5. A \in [1 .. c -> S]
  <2>1. A = [i \in 1 .. c |-> A[i]]
    BY <1>2
  <2> HIDE DEF A, c
  <2> QED BY <1>3, <2>1
<1>6. A \in Seq(S)
  <2> HIDE DEF A, c
  <2> QED BY <1>1, <1>5, SeqDef
<1>7. Len(A) = c
  <2> HIDE DEF A, c
  <2> QED BY <1>1, <1>4, <1>6, LenProperties
<1>8. ASSUME NEW n \in S PROVE \E i \in 1 .. c : A[i] = n
  <2>1. Rank(S, n) \in 1 .. c
    BY RanksAreTaken
  <2>2. A[Rank(S, n)] \in S /\ Rank(S, A[Rank(S, n)]) = Rank(S, n)
    BY <1>3, <2>1
  <2>3. A[Rank(S, n)] = n
    <3> HIDE DEF A, c
    <3> QED BY <2>2, RanksAreTaken
  <2> QED BY <2>1, <2>3
<1> HIDE DEF A, c
<1>9. \A i \in 1 .. c : A[i] \in S /\ Rank(S, A[i]) = i
  BY <1>3
<1>10. \A n \in S : \E i \in 1 .. c : A[i] = n
  BY <1>8
<1> QED BY <1>4, <1>6, <1>7, <1>9, <1>10 DEF A, c

(* A number above all the others comes after them.                            *)
LEMMA AscendingAdds ==
    ASSUME NEW S, S \subseteq Nat, IsFiniteSet(S), NEW top \in Nat, \A k \in S : k < top
    PROVE  /\ IsFiniteSet(S \cup {top})
           /\ Cardinality(S \cup {top}) = Cardinality(S) + 1
           /\ \A i \in 1 .. Cardinality(S) : Ascending(S \cup {top})[i] = Ascending(S)[i]
           /\ Ascending(S \cup {top})[Cardinality(S) + 1] = top
<1> DEFINE U == S \cup {top}
           c == Cardinality(S)
<1>1. top \notin S /\ U \subseteq Nat
  OBVIOUS
<1>2. IsFiniteSet(U) /\ Cardinality(U) = c + 1 /\ c \in Nat
  BY <1>1, FS_AddElement, FS_CardinalityType
<1>3. ASSUME NEW n \in S PROVE Rank(U, n) = Rank(S, n)
  <2>1. n \in Nat /\ ~ (top <= n)
    <3>1. n \in Nat /\ n < top
      OBVIOUS
    <3> QED BY <3>1
  <2>2. { k \in U : k <= n } = { k \in S : k <= n }
    BY <2>1
  <2> QED BY <2>2 DEF Rank
<1>4. ASSUME NEW i \in 1 .. c PROVE Ascending(U)[i] = Ascending(S)[i]
  <2>1. Ascending(S)[i] \in S /\ Rank(S, Ascending(S)[i]) = i
    BY AscendingOf
  <2>2. Ascending(S)[i] \in U /\ Rank(U, Ascending(S)[i]) = i
    BY <1>3, <2>1
  <2>3. i \in 1 .. Cardinality(U)
    BY <1>2
  <2>4. Ascending(U)[i] \in U /\ Rank(U, Ascending(U)[i]) = i
    <3> HIDE DEF U, c
    <3> QED BY <1>1, <1>2, <2>3, AscendingOf
  <2>5. \A n, k \in U : Rank(U, n) = Rank(U, k) => n = k
    <3> HIDE DEF U, c
    <3> QED BY <1>1, <1>2, RanksAreTaken
  <2> HIDE DEF U, c
  <2> QED BY <2>2, <2>4, <2>5
<1>5. Ascending(U)[c + 1] = top
  <2>1. { k \in U : k <= top } = U
    <3>1. \A k \in U : k <= top
      <4>1. \A k \in S : k \in Nat /\ k < top
        OBVIOUS
      <4>2. \A k \in S : k <= top
        BY <4>1
      <4> QED BY <4>2
    <3> QED BY <3>1
  <2>2. Rank(U, top) = c + 1 /\ top \in U
    BY <1>2, <2>1 DEF Rank
  <2>3. c + 1 \in 1 .. Cardinality(U)
    BY <1>2
  <2>4. Ascending(U)[c + 1] \in U /\ Rank(U, Ascending(U)[c + 1]) = c + 1
    <3> HIDE DEF U, c
    <3> QED BY <1>1, <1>2, <2>3, AscendingOf
  <2>5. \A n, k \in U : Rank(U, n) = Rank(U, k) => n = k
    <3> HIDE DEF U, c
    <3> QED BY <1>1, <1>2, RanksAreTaken
  <2> HIDE DEF U, c
  <2> QED BY <2>2, <2>4, <2>5
<1> QED BY <1>2, <1>4, <1>5

-----------------------------------------------------------------------------
(* The block at the end of a transcript *)

(* A message without calls unless it is the assistant's: all that a session   *)
(* and a repair put into a transcript.                                        *)
SoundMessage == { m \in MessageType : m.role # "assistant" => m.calls = {} }

Heads(ms, a) ==
    /\ a \in 1 .. Len(ms)
    /\ ms[a].role = "assistant"
    /\ \A j \in (a + 1) .. Len(ms) : ms[j].role = "tool"

(* The calls that a tool message appended to ms may answer.                   *)
Offered(ms) == UNION { ms[a].calls : a \in { i \in DOMAIN ms : Heads(ms, i) } }

LEMMA OfferedIn ==
    ASSUME NEW T, NEW s \in Seq(T), NEW c
    PROVE  /\ c \in Offered(s) <=> \E a \in 1 .. Len(s) : Heads(s, a) /\ c \in s[a].calls
           /\ c \in OpenCalls(s) <=>
                \E a \in 1 .. Len(s) : /\ Heads(s, a)
                                       /\ c \in s[a].calls
                                       /\ \A j \in (a + 1) .. Len(s) : s[j].call # c
<1>1. DOMAIN s = 1 .. Len(s)
  OBVIOUS
<1>2. c \in Offered(s) <=> \E a \in 1 .. Len(s) : Heads(s, a) /\ c \in s[a].calls
  BY <1>1 DEF Offered
<1>3. OpenCalls(s) = UNION { s[a].calls \ { s[j].call : j \in (a + 1) .. Len(s) } :
                               a \in { i \in 1 .. Len(s) : Heads(s, i) } }
  BY <1>1 DEF OpenCalls, Heads
<1> QED BY <1>2, <1>3

LEMMA AppendPlaces ==
    ASSUME NEW T, NEW s \in Seq(T), NEW x \in T
    PROVE  /\ Append(s, x) \in Seq(T)
           /\ Len(s) \in Nat
           /\ Len(Append(s, x)) = Len(s) + 1
           /\ Append(s, x)[Len(s) + 1] = x
           /\ \A i \in 1 .. Len(s) : Append(s, x)[i] = s[i]
OBVIOUS

LEMMA HeadsOfAppend ==
    ASSUME NEW T, NEW s \in Seq(T), NEW x \in T
    PROVE  /\ Heads(Append(s, x), Len(s) + 1) <=> x.role = "assistant"
           /\ \A a \in 1 .. Len(s) :
                Heads(Append(s, x), a) <=> (x.role = "tool" /\ Heads(s, a))
<1> DEFINE t == Append(s, x)
           n == Len(s)
<1>1. n \in Nat /\ Len(t) = n + 1 /\ t[n + 1] = x /\ \A i \in 1 .. n : t[i] = s[i]
  BY AppendPlaces
<1> HIDE DEF t, n
<1>2. Heads(t, n + 1) <=> x.role = "assistant"
  BY <1>1 DEF Heads
<1>3. ASSUME NEW a \in 1 .. n
      PROVE  Heads(t, a) <=> (x.role = "tool" /\ Heads(s, a))
  <2>1. (\A j \in (a + 1) .. (n + 1) : t[j].role = "tool")
        <=> (x.role = "tool" /\ \A j \in (a + 1) .. n : t[j].role = "tool")
    BY <1>1
  <2>2. \A j \in (a + 1) .. n : t[j] = s[j]
    BY <1>1
  <2> QED BY <1>1, <2>1, <2>2 DEF Heads, n
<1> QED BY <1>2, <1>3 DEF t, n

LEMMA OfferedOf ==
    ASSUME NEW s \in Seq(SoundMessage), NEW x \in SoundMessage
    PROVE  Offered(Append(s, x)) = IF x.role = "tool" THEN Offered(s) ELSE x.calls
<1> DEFINE t == Append(s, x)
           n == Len(s)
<1>1. /\ t \in Seq(SoundMessage) /\ n \in Nat /\ Len(t) = n + 1 /\ t[n + 1] = x
      /\ \A i \in 1 .. n : t[i] = s[i]
  BY AppendPlaces
<1>2. /\ Heads(t, n + 1) <=> x.role = "assistant"
      /\ \A a \in 1 .. n : Heads(t, a) <=> (x.role = "tool" /\ Heads(s, a))
  BY HeadsOfAppend
<1>3. x.role # "assistant" => x.calls = {}
  BY DEF SoundMessage
<1> HIDE DEF t, n
<1>4. \A c : c \in Offered(t) <=> \E a \in 1 .. n + 1 : Heads(t, a) /\ c \in t[a].calls
  BY <1>1, OfferedIn
<1>5. \A c : c \in Offered(s) <=> \E a \in 1 .. n : Heads(s, a) /\ c \in s[a].calls
  BY OfferedIn DEF n
<1>6. \A c : c \in Offered(t) <=> \/ x.role = "assistant" /\ c \in x.calls
                                  \/ x.role = "tool" /\ c \in Offered(s)
  BY <1>1, <1>2, <1>4, <1>5
<1> QED BY <1>3, <1>6 DEF t

LEMMA OpenCallsOf ==
    ASSUME NEW s \in Seq(SoundMessage), NEW x \in SoundMessage
    PROVE  OpenCalls(Append(s, x)) = IF x.role = "tool" THEN OpenCalls(s) \ {x.call} ELSE x.calls
<1> DEFINE t == Append(s, x)
           n == Len(s)
           open(q, a, k, c) == \A j \in (a + 1) .. k : q[j].call # c
<1>1. /\ t \in Seq(SoundMessage) /\ n \in Nat /\ Len(t) = n + 1 /\ t[n + 1] = x
      /\ \A i \in 1 .. n : t[i] = s[i]
  BY AppendPlaces
<1>2. /\ Heads(t, n + 1) <=> x.role = "assistant"
      /\ \A a \in 1 .. n : Heads(t, a) <=> (x.role = "tool" /\ Heads(s, a))
  BY HeadsOfAppend
<1>3. x.role # "assistant" => x.calls = {}
  BY DEF SoundMessage
<1> HIDE DEF t, n
<1>4. \A c : c \in OpenCalls(t) <=>
               \E a \in 1 .. n + 1 : Heads(t, a) /\ c \in t[a].calls /\ open(t, a, n + 1, c)
  BY <1>1, OfferedIn
<1>5. \A c : c \in OpenCalls(s) <=>
               \E a \in 1 .. n : Heads(s, a) /\ c \in s[a].calls /\ open(s, a, n, c)
  BY OfferedIn DEF n
<1>6. ASSUME NEW c, NEW a \in 1 .. n
      PROVE  open(t, a, n + 1, c) <=> (x.call # c /\ open(s, a, n, c))
  <2>1. (\A j \in (a + 1) .. (n + 1) : t[j].call # c)
        <=> (x.call # c /\ \A j \in (a + 1) .. n : t[j].call # c)
    BY <1>1
  <2>2. \A j \in (a + 1) .. n : t[j] = s[j]
    BY <1>1
  <2> QED BY <2>1, <2>2
<1>7. \A c : open(t, n + 1, n + 1, c)
  BY <1>1
<1> HIDE DEF open
<1>8. ASSUME NEW c
      PROVE  c \in OpenCalls(t) <=> \/ x.role = "assistant" /\ c \in x.calls
                                    \/ x.role = "tool" /\ c \in OpenCalls(s) /\ x.call # c
  BY <1>1, <1>2, <1>4, <1>5, <1>6, <1>7
<1> QED BY <1>3, <1>8 DEF t

LEMMA ValidAt ==
    ASSUME NEW T, NEW s \in Seq(T), NEW x \in T
    PROVE  /\ \A i \in 1 .. Len(s) : ValidToolAt(Append(s, x), i) <=> ValidToolAt(s, i)
           /\ x.role = "tool" =>
                (ValidToolAt(Append(s, x), Len(s) + 1) <=> x.call \in Offered(s))
<1> DEFINE t == Append(s, x)
           n == Len(s)
<1>1. n \in Nat /\ Len(t) = n + 1 /\ t[n + 1] = x /\ \A i \in 1 .. n : t[i] = s[i]
  BY AppendPlaces
<1> HIDE DEF t, n
<1>2. ASSUME NEW i \in 1 .. n PROVE ValidToolAt(t, i) <=> ValidToolAt(s, i)
  <2>1. \A a \in 1 .. i : t[a] = s[a]
    BY <1>1
  <2>2. \A a \in 1 .. (i - 1) : /\ t[a] = s[a] /\ t[i] = s[i]
                                /\ \A j \in (a + 1) .. i : t[j] = s[j]
    BY <2>1
  <2> QED BY <2>2 DEF ValidToolAt
<1>3. ASSUME x.role = "tool" PROVE ValidToolAt(t, n + 1) <=> x.call \in Offered(s)
  <2>1. x.call \in Offered(s) <=> \E a \in 1 .. n : Heads(s, a) /\ x.call \in s[a].calls
    BY OfferedIn DEF n
  <2>2. ASSUME NEW a \in 1 .. n
        PROVE  Heads(s, a) <=> (t[a].role = "assistant" /\ \A j \in (a + 1) .. (n + 1) : t[j].role = "tool")
    <3>1. (\A j \in (a + 1) .. (n + 1) : t[j].role = "tool")
          <=> (\A j \in (a + 1) .. n : t[j].role = "tool")
      BY <1>1, <1>3
    <3>2. \A j \in (a + 1) .. n : t[j] = s[j]
      BY <1>1
    <3> QED BY <1>1, <3>1, <3>2 DEF Heads, n
  <2>3. n + 1 - 1 = n
    BY <1>1
  <2>4. ValidToolAt(t, n + 1) <=>
          \E a \in 1 .. n : /\ t[a].role = "assistant" /\ x.call \in t[a].calls
                            /\ \A j \in (a + 1) .. (n + 1) : t[j].role = "tool"
    BY <1>1, <2>3 DEF ValidToolAt
  <2>5. \A a \in 1 .. n : t[a].calls = s[a].calls
    BY <1>1
  <2> QED BY <2>1, <2>2, <2>4, <2>5
<1> QED BY <1>2, <1>3 DEF t, n

LEMMA NothingIsOpenAtFirst == Offered(<<>>) = {} /\ OpenCalls(<<>>) = {}
<1>1. <<>> \in Seq({}) /\ Len(<<>>) = 0
  OBVIOUS
<1>2. ASSUME NEW c PROVE c \notin Offered(<<>>) /\ c \notin OpenCalls(<<>>)
  <2>1. /\ c \in Offered(<<>>) => \E a \in 1 .. Len(<<>>) : TRUE
        /\ c \in OpenCalls(<<>>) => \E a \in 1 .. Len(<<>>) : TRUE
    BY <1>1, OfferedIn
  <2>2. ~ \E a \in 1 .. Len(<<>>) : TRUE
    BY <1>1
  <2> QED BY <2>1, <2>2
<1> QED BY <1>2

AllValid(ms) == \A i \in 1 .. Len(ms) : ms[i].role = "tool" => ValidToolAt(ms, i)

LEMMA AllValidOf ==
    ASSUME NEW T, NEW s \in Seq(T), NEW x \in T
    PROVE  /\ AllValid(Append(s, x)) <=>
                (AllValid(s) /\ (x.role = "tool" => x.call \in Offered(s)))
           /\ KeepOrDrop(s, x) = IF x.role = "tool" /\ x.call \notin Offered(s)
                                 THEN s ELSE Append(s, x)
<1> DEFINE t == Append(s, x)
           n == Len(s)
<1>1. n \in Nat /\ Len(t) = n + 1 /\ t[n + 1] = x /\ \A i \in 1 .. n : t[i] = s[i]
  BY AppendPlaces
<1>2. /\ \A i \in 1 .. n : ValidToolAt(t, i) <=> ValidToolAt(s, i)
      /\ x.role = "tool" => (ValidToolAt(t, n + 1) <=> x.call \in Offered(s))
  BY ValidAt
<1>3. KeepOrDrop(s, x) = IF x.role = "tool" /\ x.call \notin Offered(s) THEN s ELSE t
  BY <1>2 DEF KeepOrDrop
<1> HIDE DEF t
<1>4. AllValid(t) <=> /\ \A i \in 1 .. n : t[i].role = "tool" => ValidToolAt(t, i)
                      /\ x.role = "tool" => ValidToolAt(t, n + 1)
  BY <1>1 DEF AllValid
<1>5. AllValid(t) <=> (AllValid(s) /\ (x.role = "tool" => x.call \in Offered(s)))
  BY <1>1, <1>2, <1>4 DEF AllValid
<1> QED BY <1>3, <1>5 DEF t

(* What the first pass keeps: every tool message of it is valid, and the      *)
(* block at its end is open to the same calls as the block of the transcript. *)
LEMMA RemoveOrphansKeeps ==
    ASSUME NEW s \in Seq(SoundMessage)
    PROVE  /\ RemoveOrphans(s) \in Seq(SoundMessage)
           /\ Offered(RemoveOrphans(s)) = Offered(s)
           /\ AllValid(RemoveOrphans(s))
<1> DEFINE S == { r \in Seq(SoundMessage) : /\ RemoveOrphans(r) \in Seq(SoundMessage)
                                            /\ Offered(RemoveOrphans(r)) = Offered(r)
                                            /\ AllValid(RemoveOrphans(r)) }
<1>1. <<>> \in S
  <2>1. <<>> \in Seq(SoundMessage) /\ AllValid(<<>>)
    BY DEF AllValid
  <2> QED BY <2>1, RemoveOrphansOf
<1>2. ASSUME NEW r \in Seq(SoundMessage), NEW x \in SoundMessage, r \in S
      PROVE  Append(r, x) \in S
  <2> DEFINE k == RemoveOrphans(r)
  <2>1. k \in Seq(SoundMessage) /\ Offered(k) = Offered(r) /\ AllValid(k)
    BY <1>2
  <2>2. RemoveOrphans(Append(r, x)) = KeepOrDrop(k, x)
    BY RemoveOrphansOf
  <2> HIDE DEF k
  <2>3. /\ AllValid(Append(k, x)) <=> (x.role = "tool" => x.call \in Offered(k))
        /\ KeepOrDrop(k, x) = IF x.role = "tool" /\ x.call \notin Offered(k)
                              THEN k ELSE Append(k, x)
    BY <2>1, AllValidOf
  <2>4. /\ Offered(Append(k, x)) = IF x.role = "tool" THEN Offered(k) ELSE x.calls
        /\ Offered(Append(r, x)) = IF x.role = "tool" THEN Offered(r) ELSE x.calls
    BY <2>1, OfferedOf
  <2>5. Append(k, x) \in Seq(SoundMessage) /\ Append(r, x) \in Seq(SoundMessage)
    BY <2>1, AppendPlaces
  <2>6. CASE x.role = "tool" /\ x.call \notin Offered(k)
    BY <2>1, <2>2, <2>3, <2>4, <2>5, <2>6
  <2>7. CASE ~ (x.role = "tool" /\ x.call \notin Offered(k))
    BY <2>1, <2>2, <2>3, <2>4, <2>5, <2>7
  <2> QED BY <2>6, <2>7
<1> HIDE DEF S
<1>3. s \in S
  BY <1>1, <1>2, SeqInduction
<1> QED BY <1>3 DEF S

(* A list without an orphan goes through the first pass as it is.             *)
LEMMA NothingToRemove ==
    ASSUME NEW s \in Seq(SoundMessage), AllValid(s)
    PROVE  RemoveOrphans(s) = s
<1> DEFINE S == { r \in Seq(SoundMessage) : AllValid(r) => RemoveOrphans(r) = r }
<1>1. <<>> \in S
  <2>1. <<>> \in Seq(SoundMessage)
    OBVIOUS
  <2> QED BY <2>1, RemoveOrphansOf
<1>2. ASSUME NEW r \in Seq(SoundMessage), NEW x \in SoundMessage, r \in S
      PROVE  Append(r, x) \in S
  <2>1. Append(r, x) \in Seq(SoundMessage)
    BY AppendPlaces
  <2>2. RemoveOrphans(Append(r, x)) = KeepOrDrop(RemoveOrphans(r), x)
    BY RemoveOrphansOf
  <2>3. AllValid(Append(r, x)) => AllValid(r) /\ KeepOrDrop(r, x) = Append(r, x)
    BY AllValidOf
  <2> QED BY <1>2, <2>1, <2>2, <2>3
<1> HIDE DEF S
<1>3. s \in S
  BY <1>1, <1>2, SeqInduction
<1> QED BY <1>3 DEF S

-----------------------------------------------------------------------------
(* The stubs *)

Stub(c) == ToolResult(c, "repaired")

LEMMA OpenCallsAreNumbers ==
    ASSUME NEW s \in Seq(SoundMessage)
    PROVE  /\ OpenCalls(s) \subseteq Offered(s)
           /\ Offered(s) \subseteq 1 .. MaxCalls
           /\ IsFiniteSet(OpenCalls(s))
           /\ OpenCalls(s) \subseteq Nat
<1>1. OpenCalls(s) \subseteq Offered(s)
  BY OfferedIn
<1>2. \A a \in 1 .. Len(s) : s[a].calls \subseteq 1 .. MaxCalls
  <2>1. \A a \in 1 .. Len(s) : s[a] \in SoundMessage
    OBVIOUS
  <2> QED BY <2>1 DEF SoundMessage, MessageType
<1>3. Offered(s) \subseteq 1 .. MaxCalls
  BY <1>2, OfferedIn
<1>4. OpenCalls(s) \subseteq 1 .. MaxCalls
  BY <1>1, <1>3
<1>5. IsFiniteSet(1 .. MaxCalls) /\ 1 .. MaxCalls \subseteq Nat
  BY RepairAssumption, FS_Interval
<1> QED BY <1>1, <1>3, <1>4, <1>5, FS_Subset

(* Closing a block appends one stub for each open call and nothing else.      *)
LEMMA CloseBlockOf ==
    ASSUME NEW s \in Seq(SoundMessage)
    PROVE  \E u \in Seq(SoundMessage) :
              /\ CloseBlock(s) = s \o u
              /\ \A i \in 1 .. Len(u) : u[i].call \in OpenCalls(s) /\ u[i] = Stub(u[i].call)
              /\ \A c \in OpenCalls(s) : \E i \in 1 .. Len(u) : u[i].call = c
              /\ OpenCalls(s) = {} => u = <<>>
<1> DEFINE open == Ascending(OpenCalls(s))
           n == Cardinality(OpenCalls(s))
           u == [i \in DOMAIN open |-> ToolResult(open[i], "repaired")]
<1>1. OpenCalls(s) \subseteq 1 .. MaxCalls /\ OpenCalls(s) \subseteq Nat /\ IsFiniteSet(OpenCalls(s))
  BY OpenCallsAreNumbers
<1>2. /\ DOMAIN open = 1 .. n
      /\ \A i \in 1 .. n : open[i] \in OpenCalls(s)
      /\ \A c \in OpenCalls(s) : \E i \in 1 .. n : open[i] = c
  BY <1>1, AscendingOf
<1>3. n \in Nat
  BY <1>1, FS_CardinalityType
<1>4. CloseBlock(s) = s \o u
  BY DEF CloseBlock
<1>5. OpenCalls(s) = {} => n = 0
  BY FS_EmptySet
<1> HIDE DEF open, n
<1>6. \A i \in 1 .. n : u[i] = Stub(open[i]) /\ u[i].call = open[i] /\ u[i] \in SoundMessage
  <2>1. \A i \in 1 .. n : open[i] \in 1 .. MaxCalls /\ open[i] \in 0 .. MaxCalls
    BY <1>1, <1>2
  <2> QED BY <1>2, <2>1 DEF Stub, ToolResult, Message, SoundMessage, MessageType
<1>7. u \in [1 .. n -> SoundMessage]
  <2>1. u = [i \in 1 .. n |-> u[i]]
    BY <1>2
  <2> HIDE DEF u
  <2> QED BY <1>6, <2>1
<1> HIDE DEF u
<1>8. u \in Seq(SoundMessage) /\ Len(u) = n
  BY <1>3, <1>7
<1>9. OpenCalls(s) = {} => u = <<>>
  BY <1>5, <1>8, EmptySeq
<1>10. \A i \in 1 .. Len(u) : u[i].call \in OpenCalls(s) /\ u[i] = Stub(u[i].call)
  BY <1>2, <1>6, <1>8
<1>11. \A c \in OpenCalls(s) : \E i \in 1 .. Len(u) : u[i].call = c
  BY <1>2, <1>6, <1>8
<1> QED BY <1>4, <1>8, <1>9, <1>10, <1>11

LEMMA ConcatPlaces ==
    ASSUME NEW T, NEW s \in Seq(T), NEW u \in Seq(T)
    PROVE  /\ s \o u \in Seq(T)
           /\ Len(s) \in Nat /\ Len(u) \in Nat
           /\ Len(s \o u) = Len(s) + Len(u)
           /\ \A i \in 1 .. Len(s) : (s \o u)[i] = s[i]
           /\ \A i \in 1 .. Len(u) : (s \o u)[Len(s) + i] = u[i]
           /\ \A i \in 1 .. Len(s \o u) : i \in 1 .. Len(s) \/ \E k \in 1 .. Len(u) : i = Len(s) + k
<1>1. /\ s \o u \in Seq(T)
      /\ Len(s \o u) = Len(s) + Len(u)
      /\ \A i \in 1 .. Len(s) + Len(u) :
            (s \o u)[i] = IF i <= Len(s) THEN s[i] ELSE u[i - Len(s)]
  <2>1. s \in Seq(T) /\ u \in Seq(T)
    OBVIOUS
  <2> QED BY <2>1, ConcatProperties, Zenon
<1>2. Len(s) \in Nat /\ Len(u) \in Nat
  OBVIOUS
<1>3. ASSUME NEW i \in 1 .. Len(u) PROVE (s \o u)[Len(s) + i] = u[i]
  <2>1. Len(s) + i \in 1 .. Len(s) + Len(u) /\ ~ (Len(s) + i <= Len(s)) /\ Len(s) + i - Len(s) = i
    BY <1>2
  <2>2. (s \o u)[Len(s) + i] = IF Len(s) + i <= Len(s) THEN s[Len(s) + i] ELSE u[Len(s) + i - Len(s)]
    BY <1>1, <2>1
  <2> QED BY <2>1, <2>2
<1>4. ASSUME NEW i \in 1 .. Len(s) PROVE (s \o u)[i] = s[i]
  <2>1. i \in 1 .. Len(s) + Len(u) /\ i <= Len(s)
    BY <1>2
  <2> QED BY <1>1, <2>1
<1>5. ASSUME NEW i \in 1 .. Len(s \o u), i \notin 1 .. Len(s)
      PROVE  \E k \in 1 .. Len(u) : i = Len(s) + k
  <2>1. i - Len(s) \in 1 .. Len(u) /\ i = Len(s) + (i - Len(s))
    BY <1>1, <1>2, <1>5
  <2> QED BY <2>1
<1> QED BY <1>1, <1>2, <1>3, <1>4, <1>5

LEMMA ConcatAppend ==
    ASSUME NEW T, NEW s \in Seq(T), NEW u \in Seq(T), NEW x \in T
    PROVE  s \o Append(u, x) = Append(s \o u, x)
OBVIOUS

(* Stubs for calls that the block offers leave the list without an orphan.    *)
LEMMA ResultsAreValid ==
    ASSUME NEW s \in Seq(SoundMessage), AllValid(s),
           NEW u \in Seq(SoundMessage),
           \A i \in 1 .. Len(u) : u[i].role = "tool" /\ u[i].call \in Offered(s)
    PROVE  s \o u \in Seq(SoundMessage) /\ AllValid(s \o u) /\ Offered(s \o u) = Offered(s)
<1> DEFINE S == { r \in Seq(SoundMessage) :
                    (\A i \in 1 .. Len(r) : r[i].role = "tool" /\ r[i].call \in Offered(s)) =>
                    /\ s \o r \in Seq(SoundMessage)
                    /\ AllValid(s \o r)
                    /\ Offered(s \o r) = Offered(s) }
<1>1. <<>> \in S
  <2>1. s \o <<>> = s /\ <<>> \in Seq(SoundMessage)
    BY ConcatEmptySeq
  <2> QED BY <2>1
<1>2. ASSUME NEW r \in Seq(SoundMessage), NEW x \in SoundMessage, r \in S
      PROVE  Append(r, x) \in S
  <2>1. /\ Append(r, x) \in Seq(SoundMessage) /\ Len(r) \in Nat
        /\ Len(Append(r, x)) = Len(r) + 1 /\ Append(r, x)[Len(r) + 1] = x
        /\ \A i \in 1 .. Len(r) : Append(r, x)[i] = r[i]
    BY AppendPlaces
  <2> SUFFICES ASSUME \A i \in 1 .. Len(Append(r, x)) :
                        /\ Append(r, x)[i].role = "tool"
                        /\ Append(r, x)[i].call \in Offered(s)
               PROVE  /\ s \o Append(r, x) \in Seq(SoundMessage)
                      /\ AllValid(s \o Append(r, x))
                      /\ Offered(s \o Append(r, x)) = Offered(s)
    BY <2>1
  <2>2. \A i \in 1 .. Len(r) : r[i].role = "tool" /\ r[i].call \in Offered(s)
    BY <2>1
  <2>3. x.role = "tool" /\ x.call \in Offered(s)
    BY <2>1
  <2>4. s \o r \in Seq(SoundMessage) /\ AllValid(s \o r) /\ Offered(s \o r) = Offered(s)
    BY <1>2, <2>2
  <2>5. s \o Append(r, x) = Append(s \o r, x)
    BY ConcatAppend
  <2>6. Append(s \o r, x) \in Seq(SoundMessage)
    BY <2>4, AppendPlaces
  <2>7. AllValid(Append(s \o r, x))
    BY <2>3, <2>4, AllValidOf
  <2>8. Offered(Append(s \o r, x)) = Offered(s)
    BY <2>3, <2>4, OfferedOf
  <2> QED BY <2>5, <2>6, <2>7, <2>8
<1> HIDE DEF S
<1>3. u \in S
  BY <1>1, <1>2, SeqInduction
<1> QED BY <1>3 DEF S

AnsweredAt(ms, i, c) ==
    \E j \in (i + 1) .. Len(ms) : /\ ms[j].call = c
                                  /\ \A k \in (i + 1) .. j : ms[k].role = "tool"

(* Every call is answered in its block; and so it is but for the last block.  *)
Settled(ms) == \A i \in 1 .. Len(ms) : \A c \in ms[i].calls : AnsweredAt(ms, i, c)

SettledButLast(ms) ==
    \A i \in 1 .. Len(ms) : \A c \in ms[i].calls :
        \/ AnsweredAt(ms, i, c)
        \/ \A j \in (i + 1) .. Len(ms) : ms[j].role = "tool"

LEMMA StaysAnswered ==
    ASSUME NEW T, NEW s \in Seq(T), NEW u \in Seq(T), NEW i \in 1 .. Len(s), NEW c,
           AnsweredAt(s, i, c)
    PROVE  AnsweredAt(s \o u, i, c)
<1> DEFINE t == s \o u
<1>1. /\ Len(s) \in Nat /\ Len(u) \in Nat /\ Len(t) = Len(s) + Len(u)
      /\ \A j \in 1 .. Len(s) : t[j] = s[j]
  BY ConcatPlaces
<1>2. PICK j \in (i + 1) .. Len(s) : /\ s[j].call = c
                                     /\ \A k \in (i + 1) .. j : s[k].role = "tool"
  BY DEF AnsweredAt
<1> HIDE DEF t
<1>3. j \in (i + 1) .. Len(t) /\ t[j].call = c
  BY <1>1, <1>2
<1>4. \A k \in (i + 1) .. j : t[k] = s[k]
  BY <1>1, <1>2
<1> QED BY <1>2, <1>3, <1>4 DEF AnsweredAt, t

(* A block whose stubs are appended has an answer to each of its calls.       *)
LEMMA ClosedIsSettled ==
    ASSUME NEW s \in Seq(SoundMessage), AllValid(s), SettledButLast(s)
    PROVE  /\ CloseBlock(s) \in Seq(SoundMessage)
           /\ AllValid(CloseBlock(s))
           /\ Settled(CloseBlock(s))
<1> DEFINE t == CloseBlock(s)
<1>1. PICK u \in Seq(SoundMessage) :
              /\ CloseBlock(s) = s \o u
              /\ \A i \in 1 .. Len(u) : u[i].call \in OpenCalls(s) /\ u[i] = Stub(u[i].call)
              /\ \A c \in OpenCalls(s) : \E i \in 1 .. Len(u) : u[i].call = c
  BY CloseBlockOf
<1>2. \A i \in 1 .. Len(u) : /\ u[i].role = "tool"
                             /\ u[i].call \in Offered(s)
                             /\ u[i].calls = {}
  <2>1. \A c : Stub(c).role = "tool" /\ Stub(c).calls = {}
    BY DEF Stub, ToolResult, Message
  <2>2. OpenCalls(s) \subseteq Offered(s)
    BY OpenCallsAreNumbers
  <2> QED BY <1>1, <2>1, <2>2
<1>3. t \in Seq(SoundMessage) /\ AllValid(t)
  <2> HIDE DEF t
  <2> QED BY <1>1, <1>2, ResultsAreValid DEF t
<1>4. /\ Len(s) \in Nat /\ Len(u) \in Nat /\ Len(t) = Len(s) + Len(u)
      /\ \A j \in 1 .. Len(s) : t[j] = s[j]
      /\ \A j \in 1 .. Len(u) : t[Len(s) + j] = u[j]
      /\ \A i \in 1 .. Len(t) : i \in 1 .. Len(s) \/ \E k \in 1 .. Len(u) : i = Len(s) + k
  BY <1>1, ConcatPlaces
<1> HIDE DEF t
<1>5. ASSUME NEW i \in 1 .. Len(s), NEW c \in s[i].calls, ~ AnsweredAt(s, i, c)
      PROVE  AnsweredAt(t, i, c)
  <2>1. \A j \in (i + 1) .. Len(s) : s[j].role = "tool"
    BY <1>5 DEF SettledButLast
  <2>2. \A j \in (i + 1) .. Len(s) : s[j].call # c
    BY <1>5, <2>1 DEF AnsweredAt
  <2>3. s[i].role = "assistant"
    <3>1. s[i] \in SoundMessage
      OBVIOUS
    <3> QED BY <3>1 DEF SoundMessage
  <2>4. c \in OpenCalls(s)
    BY <2>1, <2>2, <2>3, OfferedIn DEF Heads
  <2>5. PICK k \in 1 .. Len(u) : u[k].call = c
    BY <1>1, <2>4
  <2>6. Len(s) + k \in (i + 1) .. Len(t) /\ t[Len(s) + k].call = c
    BY <1>4, <2>5
  <2>7. ASSUME NEW j \in (i + 1) .. (Len(s) + k) PROVE t[j].role = "tool"
    <3>1. j \in 1 .. Len(t)
      BY <1>4
    <3>2. CASE j \in 1 .. Len(s)
      <4>1. j \in (i + 1) .. Len(s)
        BY <3>2
      <4> QED BY <1>4, <2>1, <3>2, <4>1
    <3>3. CASE \E q \in 1 .. Len(u) : j = Len(s) + q
      BY <1>2, <1>4, <3>3
    <3> QED BY <1>4, <3>1, <3>2, <3>3
  <2> QED BY <2>6, <2>7 DEF AnsweredAt
<1>6. ASSUME NEW i \in 1 .. Len(s), NEW c \in s[i].calls, AnsweredAt(s, i, c)
      PROVE  AnsweredAt(t, i, c)
  BY <1>1, <1>6, StaysAnswered DEF t
<1>7. ASSUME NEW i \in 1 .. Len(t), NEW c \in t[i].calls PROVE AnsweredAt(t, i, c)
  <2>1. CASE i \in 1 .. Len(s)
    BY <1>4, <1>5, <1>6, <2>1
  <2>2. CASE \E k \in 1 .. Len(u) : i = Len(s) + k
    BY <1>2, <1>4, <2>2
  <2> QED BY <1>4, <2>1, <2>2
<1>8. Settled(t)
  BY <1>7 DEF Settled
<1> QED BY <1>3, <1>8 DEF t

LEMMA SamePrefix ==
    ASSUME NEW T, NEW s \in Seq(T), NEW t \in Seq(T), Len(s) <= Len(t),
           \A i \in 1 .. Len(s) : t[i] = s[i]
    PROVE  IsPrefix(s, t)
<1>1. SubSeq(s, 1, Len(s)) = SubSeq(t, 1, Len(s))
  OBVIOUS
<1> QED BY <1>1 DEF IsPrefix

(* What one more message means for the answers: a tool message leaves open    *)
(* what it does not answer, another message asks that all is answered.        *)
LEMMA SettledOf ==
    ASSUME NEW s \in Seq(SoundMessage), NEW x \in SoundMessage
    PROVE  /\ SettledButLast(s) /\ (x.role # "tool" => Settled(s)) => SettledButLast(Append(s, x))
           /\ SettledButLast(Append(s, x)) => SettledButLast(s) /\ (x.role # "tool" => Settled(s))
<1> DEFINE t == Append(s, x)
           n == Len(s)
<1>1. n \in Nat /\ Len(t) = n + 1 /\ t[n + 1] = x /\ \A i \in 1 .. n : t[i] = s[i]
  BY AppendPlaces
<1>2. x.role = "tool" => x.calls = {}
  BY DEF SoundMessage
<1> HIDE DEF t, n
<1>3. ASSUME NEW i \in 1 .. n, NEW c, AnsweredAt(s, i, c) PROVE AnsweredAt(t, i, c)
  <2>1. PICK j \in (i + 1) .. n : /\ s[j].call = c
                                  /\ \A k \in (i + 1) .. j : s[k].role = "tool"
    BY <1>3 DEF AnsweredAt, n
  <2>2. j \in (i + 1) .. Len(t) /\ t[j].call = c
    BY <1>1, <2>1
  <2>3. \A k \in (i + 1) .. j : t[k] = s[k]
    BY <1>1, <2>1
  <2> QED BY <2>1, <2>2, <2>3 DEF AnsweredAt
<1>4. ASSUME NEW i \in 1 .. n, NEW c, AnsweredAt(t, i, c)
      PROVE  \/ AnsweredAt(s, i, c)
             \/ x.role = "tool" /\ \A j \in (i + 1) .. n : s[j].role = "tool"
  <2>1. PICK j \in (i + 1) .. (n + 1) : /\ t[j].call = c
                                        /\ \A k \in (i + 1) .. j : t[k].role = "tool"
    BY <1>1, <1>4 DEF AnsweredAt
  <2>2. CASE j = n + 1
    <3>1. \A k \in (i + 1) .. n : t[k].role = "tool" /\ t[k] = s[k]
      BY <1>1, <2>1, <2>2
    <3>2. x.role = "tool"
      BY <1>1, <2>1, <2>2
    <3> QED BY <3>1, <3>2
  <2>3. CASE j \in (i + 1) .. n
    <3>1. \A k \in (i + 1) .. j : t[k].role = "tool" /\ t[k] = s[k]
      BY <1>1, <2>1, <2>3
    <3>2. s[j].call = c
      BY <1>1, <2>1, <2>3
    <3> QED BY <2>3, <3>1, <3>2 DEF AnsweredAt, n
  <2> QED BY <1>1, <2>2, <2>3
<1>5. ASSUME NEW i \in 1 .. n
      PROVE  (\A j \in (i + 1) .. Len(t) : t[j].role = "tool")
             <=> (x.role = "tool" /\ \A j \in (i + 1) .. n : s[j].role = "tool")
  <2>1. (\A j \in (i + 1) .. (n + 1) : t[j].role = "tool")
        <=> (x.role = "tool" /\ \A j \in (i + 1) .. n : t[j].role = "tool")
    BY <1>1
  <2>2. \A j \in (i + 1) .. n : t[j] = s[j]
    BY <1>1
  <2> QED BY <1>1, <2>1, <2>2
<1>6. ASSUME SettledButLast(s), x.role # "tool" => Settled(s) PROVE SettledButLast(t)
  <2> SUFFICES ASSUME NEW i \in 1 .. (n + 1), NEW c \in t[i].calls
               PROVE  \/ AnsweredAt(t, i, c)
                      \/ \A j \in (i + 1) .. Len(t) : t[j].role = "tool"
    BY <1>1 DEF SettledButLast
  <2>1. CASE i = n + 1
    BY <1>1, <2>1
  <2>2. CASE i \in 1 .. n
    <3>1. c \in s[i].calls
      BY <1>1, <2>2
    <3>2. CASE x.role = "tool"
      BY <1>3, <1>5, <1>6, <2>2, <3>1, <3>2 DEF SettledButLast, n
    <3>3. CASE x.role # "tool"
      BY <1>3, <1>6, <2>2, <3>1, <3>3 DEF Settled, n
    <3> QED BY <3>2, <3>3
  <2> QED BY <1>1, <2>1, <2>2
<1>7. ASSUME SettledButLast(t) PROVE SettledButLast(s) /\ (x.role # "tool" => Settled(s))
  <2>1. ASSUME NEW i \in 1 .. n, NEW c \in s[i].calls
        PROVE  /\ AnsweredAt(s, i, c) \/ \A j \in (i + 1) .. n : s[j].role = "tool"
               /\ x.role # "tool" => AnsweredAt(s, i, c)
    <3>1. i \in 1 .. Len(t) /\ c \in t[i].calls
      BY <1>1
    <3>2. \/ AnsweredAt(t, i, c)
          \/ \A j \in (i + 1) .. Len(t) : t[j].role = "tool"
      BY <1>7, <3>1 DEF SettledButLast
    <3> QED BY <1>4, <1>5, <3>2
  <2> QED BY <2>1 DEF SettledButLast, Settled, n
<1> QED BY <1>6, <1>7 DEF t

RealMessage == { m \in SoundMessage : m.body # "repaired" }

LEMMA ClosingKeepsTheRest ==
    ASSUME NEW s \in Seq(SoundMessage)
    PROVE  /\ CloseBlock(s) \in Seq(SoundMessage)
           /\ Kept(CloseBlock(s), RealMessage) = Kept(s, RealMessage)
           /\ OpenCalls(s) = {} => CloseBlock(s) = s
           /\ IsPrefix(s, CloseBlock(s))
<1>1. PICK u \in Seq(SoundMessage) :
              /\ CloseBlock(s) = s \o u
              /\ \A i \in 1 .. Len(u) : u[i].call \in OpenCalls(s) /\ u[i] = Stub(u[i].call)
              /\ OpenCalls(s) = {} => u = <<>>
  BY CloseBlockOf
<1>2. \A i \in 1 .. Len(u) : u[i] \notin RealMessage
  <2>1. \A c : Stub(c).body = "repaired"
    BY DEF Stub, ToolResult, Message
  <2> QED BY <1>1, <2>1 DEF RealMessage
<1>3. Kept(s \o u, RealMessage) = Kept(s, RealMessage)
  <2>1. Kept(u, RealMessage) = <<>>
    BY <1>2, KeptNone
  <2>2. Kept(s \o u, RealMessage) = Kept(s, RealMessage) \o Kept(u, RealMessage)
    BY KeptConcat
  <2>3. Kept(s, RealMessage) \in Seq(SoundMessage)
    BY KeptType
  <2> QED BY <2>1, <2>2, <2>3, ConcatEmptySeq
<1>4. OpenCalls(s) = {} => s \o u = s
  BY <1>1, ConcatEmptySeq
<1>5. /\ s \o u \in Seq(SoundMessage)
      /\ Len(s) \in Nat /\ Len(u) \in Nat /\ Len(s \o u) = Len(s) + Len(u)
      /\ \A i \in 1 .. Len(s) : (s \o u)[i] = s[i]
  BY ConcatPlaces
<1>6. IsPrefix(s, s \o u)
  <2>1. Len(s) <= Len(s \o u)
    BY <1>5
  <2> QED BY <1>5, <2>1, SamePrefix
<1> QED BY <1>1, <1>3, <1>4, <1>5, <1>6

(* The second pass on a list without orphans: no orphan comes of it, every    *)
(* block but the last has its answers, the last block is the list's, and the  *)
(* list without the stubs is what it was.                                     *)
LEMMA FilledKeeps ==
    ASSUME NEW s \in Seq(SoundMessage), AllValid(s)
    PROVE  /\ Filled(s) \in Seq(SoundMessage)
           /\ AllValid(Filled(s))
           /\ SettledButLast(Filled(s))
           /\ Offered(Filled(s)) = Offered(s)
           /\ OpenCalls(Filled(s)) = OpenCalls(s)
           /\ Kept(Filled(s), RealMessage) = Kept(s, RealMessage)
<1> DEFINE Good(f, r) == /\ f \in Seq(SoundMessage)
                         /\ AllValid(f)
                         /\ SettledButLast(f)
                         /\ Offered(f) = Offered(r)
                         /\ OpenCalls(f) = OpenCalls(r)
                         /\ Kept(f, RealMessage) = Kept(r, RealMessage)
           S == { r \in Seq(SoundMessage) : AllValid(r) => Good(Filled(r), r) }
<1>1. <<>> \in S
  <2>1. <<>> \in Seq(SoundMessage) /\ AllValid(<<>>) /\ SettledButLast(<<>>)
    BY DEF AllValid, SettledButLast
  <2> QED BY <2>1, FilledOf
<1>2. ASSUME NEW r \in Seq(SoundMessage), NEW x \in SoundMessage, r \in S
      PROVE  Append(r, x) \in S
  <2>0. Append(r, x) \in Seq(SoundMessage)
    BY AppendPlaces
  <2> SUFFICES ASSUME AllValid(Append(r, x))
               PROVE  Good(Filled(Append(r, x)), Append(r, x))
    BY <2>0
  <2>1. AllValid(r) /\ (x.role = "tool" => x.call \in Offered(r))
    BY AllValidOf
  <2> DEFINE f == Filled(r)
             b == IF x.role = "tool" THEN f ELSE CloseBlock(f)
  <2>2. Good(f, r)
    BY <1>2, <2>1
  <2>3. Filled(Append(r, x)) = Append(b, x)
    BY FilledOf DEF FillStep
  <2> HIDE DEF f
  <2>4. /\ b \in Seq(SoundMessage)
        /\ AllValid(b)
        /\ SettledButLast(b)
        /\ x.role # "tool" => Settled(b)
        /\ Kept(b, RealMessage) = Kept(r, RealMessage)
    <3>1. CASE x.role = "tool"
      BY <2>2, <3>1
    <3>2. CASE x.role # "tool"
      <4>1. b = CloseBlock(f)
        BY <3>2
      <4>2. f \in Seq(SoundMessage) /\ AllValid(f) /\ SettledButLast(f)
        BY <2>2
      <4> HIDE DEF b, Good
      <4>3. b \in Seq(SoundMessage) /\ AllValid(b) /\ Settled(b)
        BY <4>1, <4>2, ClosedIsSettled
      <4>4. Kept(b, RealMessage) = Kept(f, RealMessage)
        BY <4>1, <4>2, ClosingKeepsTheRest
      <4>5. Kept(f, RealMessage) = Kept(r, RealMessage)
        BY <2>2 DEF Good
      <4>6. SettledButLast(b)
        BY <4>3 DEF Settled, SettledButLast
      <4> QED BY <4>3, <4>4, <4>5, <4>6
    <3> QED BY <3>1, <3>2
  <2>5. x.role = "tool" => Offered(b) = Offered(r) /\ OpenCalls(b) = OpenCalls(r)
    BY <2>2
  <2> HIDE DEF b, Good
  <2>6. Append(b, x) \in Seq(SoundMessage)
    BY <2>4, AppendPlaces
  <2>7. AllValid(Append(b, x))
    BY <2>1, <2>4, <2>5, AllValidOf
  <2>8. Offered(Append(b, x)) = Offered(Append(r, x))
    BY <2>4, <2>5, OfferedOf
  <2>9. OpenCalls(Append(b, x)) = OpenCalls(Append(r, x))
    BY <2>4, <2>5, OpenCallsOf
  <2>10. Kept(Append(b, x), RealMessage) = Kept(Append(r, x), RealMessage)
    <3>1. Kept(Append(b, x), RealMessage) =
            IF x \in RealMessage THEN Append(Kept(b, RealMessage), x) ELSE Kept(b, RealMessage)
      BY <2>4, KeptAppend
    <3>2. Kept(Append(r, x), RealMessage) =
            IF x \in RealMessage THEN Append(Kept(r, RealMessage), x) ELSE Kept(r, RealMessage)
      BY KeptAppend
    <3> QED BY <2>4, <3>1, <3>2
  <2>11. SettledButLast(Append(b, x))
    BY <2>4, SettledOf
  <2> QED BY <2>3, <2>6, <2>7, <2>8, <2>9, <2>10, <2>11 DEF Good
<1> HIDE DEF S
<1>3. s \in S
  BY <1>1, <1>2, SeqInduction
<1> QED BY <1>3 DEF S

LEMMA SettledIsClosed ==
    ASSUME NEW s \in Seq(SoundMessage), Settled(s)
    PROVE  OpenCalls(s) = {} /\ CloseBlock(s) = s
<1>1. ASSUME NEW c \in OpenCalls(s) PROVE FALSE
  <2>1. PICK a \in 1 .. Len(s) : /\ c \in s[a].calls
                                 /\ \A j \in (a + 1) .. Len(s) : s[j].call # c
    BY OfferedIn
  <2> QED BY <2>1 DEF Settled, AnsweredAt
<1> QED BY <1>1, ClosingKeepsTheRest

(* A list whose blocks have their answers goes through the second pass as it  *)
(* is.                                                                        *)
LEMMA NothingToFill ==
    ASSUME NEW s \in Seq(SoundMessage), Settled(s)
    PROVE  FillMissing(s) = s
<1> DEFINE S == { r \in Seq(SoundMessage) : SettledButLast(r) => Filled(r) = r }
<1>1. <<>> \in S
  <2>1. <<>> \in Seq(SoundMessage)
    OBVIOUS
  <2> QED BY <2>1, FilledOf
<1>2. ASSUME NEW r \in Seq(SoundMessage), NEW x \in SoundMessage, r \in S
      PROVE  Append(r, x) \in S
  <2>1. Append(r, x) \in Seq(SoundMessage)
    BY AppendPlaces
  <2> SUFFICES ASSUME SettledButLast(Append(r, x)) PROVE Filled(Append(r, x)) = Append(r, x)
    BY <2>1
  <2>2. SettledButLast(r) /\ (x.role # "tool" => Settled(r))
    BY SettledOf
  <2>3. Filled(r) = r
    BY <1>2, <2>2
  <2>4. x.role # "tool" => CloseBlock(r) = r
    BY <2>2, SettledIsClosed
  <2>5. Filled(Append(r, x)) = FillStep(Filled(r), x)
    BY FilledOf
  <2> QED BY <2>3, <2>4, <2>5 DEF FillStep
<1> HIDE DEF S
<1>3. s \in S
  BY <1>1, <1>2, SeqInduction
<1>4. SettledButLast(s)
  BY DEF Settled, SettledButLast
<1> QED BY <1>3, <1>4, SettledIsClosed DEF S, FillMissing

(* What a repair makes of a transcript.                                       *)
LEMMA RepairOf ==
    ASSUME NEW s \in Seq(SoundMessage)
    PROVE  /\ Repair(s) \in Seq(SoundMessage)
           /\ AllValid(Repair(s))
           /\ Settled(Repair(s))
           /\ Kept(Repair(s), RealMessage) = Kept(RemoveOrphans(s), RealMessage)
           /\ Repair(Repair(s)) = Repair(s)
<1> DEFINE r == RemoveOrphans(s)
           f == Filled(r)
           t == CloseBlock(f)
<1>1. Repair(s) = t
  BY DEF Repair, FillMissing
<1>2. r \in Seq(SoundMessage) /\ AllValid(r)
  BY RemoveOrphansKeeps
<1> HIDE DEF r
<1>3. /\ f \in Seq(SoundMessage) /\ AllValid(f) /\ SettledButLast(f)
      /\ Kept(f, RealMessage) = Kept(r, RealMessage)
  BY <1>2, FilledKeeps
<1> HIDE DEF f
<1>4. t \in Seq(SoundMessage) /\ AllValid(t) /\ Settled(t)
  BY <1>3, ClosedIsSettled
<1>5. Kept(t, RealMessage) = Kept(f, RealMessage)
  BY <1>3, ClosingKeepsTheRest
<1> HIDE DEF t
<1>6. Repair(t) = t
  BY <1>4, NothingToRemove, NothingToFill DEF Repair
<1> QED BY <1>1, <1>3, <1>4, <1>5, <1>6 DEF r

-----------------------------------------------------------------------------
(* The messages that are valid where they stand *)

ValidPlaces(ms) == { i \in DOMAIN ms : ms[i].role = "tool" => ValidToolAt(ms, i) }

ValidPart(ms) ==
    [i \in 1 .. Cardinality(ValidPlaces(ms)) |-> ms[Ascending(ValidPlaces(ms))[i]]]

LEMMA ValidPlacesOf ==
    ASSUME NEW T, NEW s \in Seq(T), NEW x \in T
    PROVE  /\ ValidPlaces(s) \subseteq 1 .. Len(s)
           /\ ValidPlaces(s) \subseteq Nat
           /\ IsFiniteSet(ValidPlaces(s))
           /\ ValidPlaces(Append(s, x)) = IF x.role = "tool" /\ x.call \notin Offered(s)
                                          THEN ValidPlaces(s)
                                          ELSE ValidPlaces(s) \cup {Len(s) + 1}
<1> DEFINE t == Append(s, x)
           n == Len(s)
<1>1. n \in Nat /\ t \in Seq(T) /\ Len(t) = n + 1 /\ t[n + 1] = x /\ \A i \in 1 .. n : t[i] = s[i]
  BY AppendPlaces
<1>2. /\ \A i \in 1 .. n : ValidToolAt(t, i) <=> ValidToolAt(s, i)
      /\ x.role = "tool" => (ValidToolAt(t, n + 1) <=> x.call \in Offered(s))
  BY ValidAt
<1> HIDE DEF t
<1>3. DOMAIN t = 1 .. (n + 1) /\ DOMAIN s = 1 .. n
  BY <1>1
<1>4. ValidPlaces(s) \subseteq 1 .. n
  BY <1>3 DEF ValidPlaces
<1> HIDE DEF n
<1>5. IsFiniteSet(1 .. n) /\ 1 .. n \subseteq Nat
  BY <1>1, FS_Interval
<1>6. IsFiniteSet(ValidPlaces(s))
  BY <1>4, <1>5, FS_Subset
<1>7. \A i \in 1 .. n : i \in ValidPlaces(t) <=> i \in ValidPlaces(s)
  BY <1>1, <1>2, <1>3 DEF ValidPlaces
<1>8. n + 1 \in ValidPlaces(t) <=> ~ (x.role = "tool" /\ x.call \notin Offered(s))
  BY <1>1, <1>2, <1>3 DEF ValidPlaces
<1>9. ValidPlaces(t) \subseteq 1 .. n \cup {n + 1}
  BY <1>1, <1>3 DEF ValidPlaces
<1>10. ValidPlaces(t) = IF x.role = "tool" /\ x.call \notin Offered(s)
                        THEN ValidPlaces(s) ELSE ValidPlaces(s) \cup {n + 1}
  <2>1. \A i : i \in ValidPlaces(t) => i \in 1 .. n \/ i = n + 1
    BY <1>9
  <2>2. \A i : i \in ValidPlaces(s) => i \in 1 .. n
    BY <1>4
  <2>3. \A i : i \in ValidPlaces(t) <=>
               \/ i \in ValidPlaces(s)
               \/ i = n + 1 /\ ~ (x.role = "tool" /\ x.call \notin Offered(s))
    BY <1>7, <1>8, <2>1, <2>2
  <2> QED BY <2>3
<1> QED BY <1>4, <1>5, <1>6, <1>10 DEF t, n

LEMMA ValidPlacesAre ==
    ASSUME NEW T, NEW s \in Seq(T)
    PROVE  /\ ValidPlaces(s) \subseteq 1 .. Len(s)
           /\ ValidPlaces(s) \subseteq Nat
           /\ IsFiniteSet(ValidPlaces(s))
<1>1. Len(s) \in Nat /\ DOMAIN s = 1 .. Len(s)
  OBVIOUS
<1>2. ValidPlaces(s) \subseteq 1 .. Len(s)
  BY <1>1 DEF ValidPlaces
<1>3. IsFiniteSet(1 .. Len(s)) /\ 1 .. Len(s) \subseteq Nat
  BY <1>1, FS_Interval
<1> QED BY <1>2, <1>3, FS_Subset

(* The first pass keeps the messages that are valid where they stand in the   *)
(* list it is given, and no other.                                            *)
LEMMA RemoveOrphansKeepsTheValid ==
    ASSUME NEW s \in Seq(SoundMessage)
    PROVE  ValidPart(s) = RemoveOrphans(s)
<1> DEFINE S == { r \in Seq(SoundMessage) : ValidPart(r) = RemoveOrphans(r) }
<1>1. <<>> \in S
  <2>1. <<>> \in Seq(SoundMessage) /\ DOMAIN <<>> = {}
    OBVIOUS
  <2>2. ValidPlaces(<<>>) = {} /\ Cardinality({}) = 0
    BY <2>1, FS_EmptySet DEF ValidPlaces
  <2>3. ValidPart(<<>>) = <<>>
    BY <2>2 DEF ValidPart
  <2> QED BY <2>1, <2>3, RemoveOrphansOf
<1>2. ASSUME NEW r \in Seq(SoundMessage), NEW x \in SoundMessage, r \in S
      PROVE  Append(r, x) \in S
  <2> DEFINE t == Append(r, x)
             n == Len(r)
             P == ValidPlaces(r)
             k == RemoveOrphans(r)
             c == Cardinality(P)
  <2>1. /\ t \in Seq(SoundMessage) /\ n \in Nat /\ Len(t) = n + 1 /\ t[n + 1] = x
        /\ \A i \in 1 .. n : t[i] = r[i]
    BY AppendPlaces
  <2>2. k \in Seq(SoundMessage) /\ Offered(k) = Offered(r)
    BY RemoveOrphansKeeps
  <2>3. RemoveOrphans(t) = IF x.role = "tool" /\ x.call \notin Offered(r) THEN k ELSE Append(k, x)
    <3>1. RemoveOrphans(t) = KeepOrDrop(k, x)
      BY RemoveOrphansOf
    <3>2. KeepOrDrop(k, x) = IF x.role = "tool" /\ x.call \notin Offered(k) THEN k ELSE Append(k, x)
      BY <2>2, AllValidOf
    <3> QED BY <2>2, <3>1, <3>2
  <2>4. /\ P \subseteq 1 .. n /\ P \subseteq Nat /\ IsFiniteSet(P)
        /\ ValidPlaces(t) = IF x.role = "tool" /\ x.call \notin Offered(r)
                            THEN P ELSE P \cup {n + 1}
    BY ValidPlacesOf
  <2>5. k = [i \in 1 .. c |-> r[Ascending(P)[i]]] /\ c \in Nat
    BY <1>2, <2>4, FS_CardinalityType DEF ValidPart
  <2>6. Len(k) = c /\ \A i \in 1 .. c : k[i] = r[Ascending(P)[i]]
    <3>1. DOMAIN k = 1 .. c
      BY <2>5
    <3>2. \A i \in 1 .. c : k[i] = r[Ascending(P)[i]]
      BY <2>5
    <3> HIDE DEF k, c
    <3> QED BY <2>2, <2>5, <3>1, <3>2, LenProperties
  <2>7. \A i \in 1 .. c : Ascending(P)[i] \in P
    BY <2>4, AscendingOf
  <2> HIDE DEF t, n, P, k
  <2>8. CASE x.role = "tool" /\ x.call \notin Offered(r)
    <3>1. ValidPlaces(t) = P /\ RemoveOrphans(t) = k
      BY <2>3, <2>4, <2>8
    <3>2. ValidPart(t) = [i \in 1 .. c |-> t[Ascending(P)[i]]]
      BY <3>1 DEF ValidPart
    <3>3. \A i \in 1 .. c : t[Ascending(P)[i]] = r[Ascending(P)[i]]
      BY <2>1, <2>4, <2>7
    <3>4. ValidPart(t) = [i \in 1 .. c |-> r[Ascending(P)[i]]]
      BY <3>2, <3>3
    <3>5. ValidPart(t) = k
      BY <2>5, <3>4
    <3> QED BY <2>1, <3>1, <3>5 DEF t
  <2>9. CASE ~ (x.role = "tool" /\ x.call \notin Offered(r))
    <3> DEFINE U == P \cup {n + 1}
               v == ValidPart(t)
               w == Append(k, x)
    <3>1. ValidPlaces(t) = U /\ RemoveOrphans(t) = w
      BY <2>3, <2>4, <2>9
    <3>2. \A i \in P : i < n + 1
      <4>1. \A i \in P : i \in 1 .. n
        BY <2>4
      <4> QED BY <2>1, <4>1
    <3>3. /\ Cardinality(U) = c + 1
          /\ \A i \in 1 .. c : Ascending(U)[i] = Ascending(P)[i]
          /\ Ascending(U)[c + 1] = n + 1
      <4>1. n + 1 \in Nat
        BY <2>1
      <4> QED BY <2>4, <3>2, <4>1, AscendingAdds
    <3> HIDE DEF U, c
    <3>4. v = [i \in 1 .. (c + 1) |-> t[Ascending(U)[i]]]
      BY <3>1, <3>3 DEF ValidPart
    <3>5. /\ w \in Seq(SoundMessage) /\ Len(w) = c + 1 /\ w[c + 1] = x
          /\ \A i \in 1 .. c : w[i] = k[i]
      BY <2>2, <2>6, AppendPlaces
    <3>6. ASSUME NEW i \in 1 .. (c + 1) PROVE t[Ascending(U)[i]] = w[i]
      <4>1. CASE i = c + 1
        BY <2>1, <3>3, <3>5, <4>1
      <4>2. CASE i \in 1 .. c
        <5>1. Ascending(P)[i] \in 1 .. n
          BY <2>4, <2>7, <4>2
        <5> QED BY <2>1, <2>6, <3>3, <3>5, <4>2, <5>1
      <4> QED BY <2>5, <4>1, <4>2
    <3> HIDE DEF v, w
    <3>7. w = [i \in 1 .. (c + 1) |-> w[i]]
      BY <3>5, LenProperties
    <3>8. v = [i \in 1 .. (c + 1) |-> w[i]]
      BY <3>4, <3>6
    <3>9. v = w
      BY <3>7, <3>8
    <3> QED BY <2>1, <3>1, <3>9 DEF t, v
  <2> QED BY <2>8, <2>9
<1> HIDE DEF S
<1>3. s \in S
  BY <1>1, <1>2, SeqInduction
<1> QED BY <1>3 DEF S

-----------------------------------------------------------------------------
(* The session *)

(* Only the assistant's messages have calls, so that a transcript is one the  *)
(* lemmas speak of.                                                           *)
RepairInv == TypeOK /\ transcript \in Seq(SoundMessage)

LEMMA RepairInvInit == Init => RepairInv
<1> SUFFICES ASSUME Init PROVE RepairInv
  OBVIOUS
<1>1. User("prompt") \in SoundMessage /\ User("prompt") \in MessageType
  BY RepairAssumption DEF User, Message, NoCall, SoundMessage, MessageType
<1>2. transcript \in Seq(SoundMessage) /\ transcript \in Seq(MessageType)
  BY <1>1 DEF Init
<1>3. nextCall \in 1 .. (MaxCalls + 1)
  BY RepairAssumption DEF Init
<1> QED BY <1>2, <1>3 DEF RepairInv, TypeOK

LEMMA RepairInvNext == RepairInv /\ [Next]_vars => RepairInv'
<1> SUFFICES ASSUME RepairInv, [Next]_vars PROVE RepairInv'
  OBVIOUS
<1>1. MaxCalls \in Nat
  BY RepairAssumption
<1>2. transcript \in Seq(SoundMessage) /\ nextCall \in 1 .. (MaxCalls + 1)
  BY DEF RepairInv, TypeOK
<1>3. SoundMessage \subseteq MessageType
  BY DEF SoundMessage
<1>4. ASSUME NEW t \in Seq(SoundMessage), transcript' = t, nextCall' \in 1 .. (MaxCalls + 1)
      PROVE  RepairInv'
  BY <1>3, <1>4, SeqMonotonic DEF RepairInv, TypeOK
<1>5. ASSUME NEW m \in SoundMessage, Extend(m), nextCall' \in 1 .. (MaxCalls + 1)
      PROVE  RepairInv'
  <2>1. Append(transcript, m) \in Seq(SoundMessage)
    BY <1>2, AppendPlaces
  <2> QED BY <1>4, <1>5, <2>1 DEF Extend
<1>6. CASE AddUser
  <2>1. User("prompt") \in SoundMessage
    BY <1>1 DEF User, Message, NoCall, SoundMessage, MessageType
  <2> QED BY <1>2, <1>5, <1>6, <2>1 DEF AddUser
<1>7. ASSUME NEW n \in 0 .. MaxCalls, AddAssistant(n) PROVE RepairInv'
  <2> DEFINE calls == nextCall .. (nextCall + n - 1)
  <2>1. calls \subseteq 1 .. MaxCalls /\ nextCall' \in 1 .. (MaxCalls + 1)
    BY <1>1, <1>2, <1>7 DEF AddAssistant
  <2>2. Extend(Assistant(calls))
    BY <1>7 DEF AddAssistant
  <2> HIDE DEF calls
  <2>3. Assistant(calls) \in SoundMessage
    BY <1>1, <2>1 DEF Assistant, Message, NoCall, SoundMessage, MessageType
  <2> QED BY <1>5, <2>1, <2>2, <2>3
<1>8. ASSUME NEW c \in 1 .. MaxCalls, AddResult(c) PROVE RepairInv'
  <2>1. c \in 0 .. MaxCalls
    BY <1>1
  <2>2. ToolResult(c, "ok") \in SoundMessage
    BY <2>1 DEF ToolResult, Message, SoundMessage, MessageType
  <2> QED BY <1>2, <1>5, <1>8, <2>2 DEF AddResult
<1>9. CASE Load
  <2>1. Repair(transcript) \in Seq(SoundMessage)
    BY <1>2, RepairOf
  <2> QED BY <1>2, <1>4, <1>9, <2>1 DEF Load
<1>10. CASE UNCHANGED vars
  BY <1>10 DEF vars, RepairInv, TypeOK
<1> QED BY <1>6, <1>7, <1>8, <1>9, <1>10 DEF Next

LEMMA SpecRepairInv == Spec => []RepairInv
<1> QED BY RepairInvInit, RepairInvNext, PTL DEF Spec

(* Whatever the session appends, and whenever it is loaded, the request that  *)
(* goes to the LLM has no orphan and no open call.                            *)
THEOREM EveryRequestIsWellFormed == Spec => []RequestWellFormed
<1>1. RepairInv => RequestWellFormed
  <2> SUFFICES ASSUME RepairInv PROVE RequestWellFormed
    OBVIOUS
  <2>1. /\ Sent \in Seq(SoundMessage)
        /\ AllValid(Sent)
        /\ Settled(Sent)
    BY RepairOf DEF RepairInv, Sent
  <2>2. DOMAIN Sent = 1 .. Len(Sent)
    BY <2>1
  <2> QED BY <2>1, <2>2 DEF RepairInv, RequestWellFormed, AllValid, Settled, AnsweredAt
<1> QED BY <1>1, SpecRepairInv, PTL

(* The repair keeps exactly the messages that were valid where they stood,    *)
(* adds stubs only, and leaves a repaired transcript as it is.                *)
THEOREM NothingValidIsLost == Spec => []RepairKeepsWhatIsValid
<1>1. RepairInv => RepairKeepsWhatIsValid
  <2> SUFFICES ASSUME RepairInv PROVE RepairKeepsWhatIsValid
    OBVIOUS
  <2> DEFINE real == { m \in Range(Sent) \cup Range(transcript) : m.body # "repaired" }
             kept == ValidPart(transcript)
  <2>1. transcript \in Seq(SoundMessage)
    BY DEF RepairInv
  <2>2. /\ Sent \in Seq(SoundMessage)
        /\ Kept(Sent, RealMessage) = Kept(RemoveOrphans(transcript), RealMessage)
        /\ Repair(Sent) = Sent
    BY <2>1, RepairOf DEF Sent
  <2>3. kept = RemoveOrphans(transcript) /\ kept \in Seq(SoundMessage)
    BY <2>1, RemoveOrphansKeepsTheValid, RemoveOrphansKeeps
  <2>4. ASSUME NEW i \in 1 .. Len(Sent) PROVE Sent[i] \in real <=> Sent[i] \in RealMessage
    <3>1. Sent[i] \in Range(Sent) /\ Sent[i] \in SoundMessage
      BY <2>2 DEF Range
    <3> QED BY <3>1 DEF RealMessage
  <2>5. ASSUME NEW i \in 1 .. Len(kept) PROVE kept[i] \in real <=> kept[i] \in RealMessage
    <3> DEFINE P == ValidPlaces(transcript)
    <3>1. /\ P \subseteq 1 .. Len(transcript) /\ P \subseteq Nat /\ IsFiniteSet(P)
      BY <2>1, ValidPlacesAre
    <3>2. Cardinality(P) \in Nat /\ DOMAIN kept = 1 .. Cardinality(P)
      BY <3>1, FS_CardinalityType DEF ValidPart
    <3>3. i \in 1 .. Cardinality(P)
      <4> HIDE DEF kept, P
      <4>1. DOMAIN kept = 1 .. Len(kept)
        BY <2>3
      <4> QED BY <3>2, <4>1
    <3>4. kept[i] = transcript[Ascending(P)[i]]
      BY <3>3 DEF ValidPart
    <3>5. Ascending(P)[i] \in 1 .. Len(transcript)
      BY <3>1, <3>3, AscendingOf
    <3>6. kept[i] \in Range(transcript)
      <4> HIDE DEF kept
      <4> QED BY <2>1, <3>4, <3>5 DEF Range
    <3>7. kept[i] \in SoundMessage
      <4> HIDE DEF kept
      <4> QED BY <2>3
    <3> QED BY <3>6, <3>7 DEF RealMessage
  <2> HIDE DEF real, kept
  <2>6. Kept(Sent, real) = Kept(Sent, RealMessage)
    BY <2>2, <2>4, KeptAgree
  <2>7. Kept(kept, real) = Kept(kept, RealMessage)
    BY <2>3, <2>5, KeptAgree
  <2>8. Kept(Sent, real) = Kept(kept, real)
    BY <2>2, <2>3, <2>6, <2>7
  <2> QED BY <2>2, <2>8 DEF RepairKeepsWhatIsValid, ValidPart, ValidPlaces, real, kept
<1> QED BY <1>1, SpecRepairInv, PTL

(* While the last block is complete, whatever is appended or loaded extends   *)
(* the request and rewrites nothing of it.                                    *)
THEOREM TheRequestOnlyGrows == Spec => RequestsGrow
<1>1. RepairInv /\ [Next]_vars
        => (OpenCalls(RemoveOrphans(transcript)) = {}
            => IsPrefix(Repair(transcript), Repair(transcript')))
  <2> SUFFICES ASSUME RepairInv, [Next]_vars, OpenCalls(RemoveOrphans(transcript)) = {}
               PROVE  IsPrefix(Repair(transcript), Repair(transcript'))
    OBVIOUS
  <2> DEFINE r == RemoveOrphans(transcript)
             f == Filled(r)
  <2>1. transcript \in Seq(SoundMessage)
    BY DEF RepairInv
  <2>2. r \in Seq(SoundMessage) /\ AllValid(r)
    BY <2>1, RemoveOrphansKeeps
  <2>3. OpenCalls(r) = {}
    OBVIOUS
  <2>4. Repair(transcript) = CloseBlock(f)
    BY DEF Repair, FillMissing
  <2> HIDE DEF r
  <2>5. f \in Seq(SoundMessage) /\ OpenCalls(f) = {}
    BY <2>2, <2>3, FilledKeeps
  <2> HIDE DEF f
  <2>6. CloseBlock(f) = f
    BY <2>5, ClosingKeepsTheRest
  <2>7. IsPrefix(f, f)
    BY <2>5, SamePrefix
  <2>8. ASSUME NEW m \in SoundMessage, transcript' = Append(transcript, m)
        PROVE  IsPrefix(Repair(transcript), Repair(transcript'))
    <3>1. RemoveOrphans(transcript') = KeepOrDrop(r, m)
      BY <2>1, <2>8, RemoveOrphansOf DEF r
    <3>2. CASE KeepOrDrop(r, m) = r
      BY <2>4, <2>6, <2>7, <3>1, <3>2 DEF Repair, FillMissing, f
    <3>3. CASE KeepOrDrop(r, m) = Append(r, m)
      <4> DEFINE g == Append(f, m)
      <4>1. Filled(Append(r, m)) = g
        BY <2>2, <2>6, FilledOf DEF FillStep, f
      <4>2. Repair(transcript') = CloseBlock(g)
        BY <3>1, <3>3, <4>1 DEF Repair, FillMissing
      <4>3. /\ g \in Seq(SoundMessage) /\ Len(f) \in Nat /\ Len(g) = Len(f) + 1
            /\ \A i \in 1 .. Len(f) : g[i] = f[i]
        BY <2>5, AppendPlaces
      <4> HIDE DEF g
      <4>4. PICK u \in Seq(SoundMessage) : CloseBlock(g) = g \o u
        BY <4>3, CloseBlockOf
      <4>5. /\ g \o u \in Seq(SoundMessage) /\ Len(u) \in Nat /\ Len(g \o u) = Len(g) + Len(u)
            /\ \A i \in 1 .. Len(g) : (g \o u)[i] = g[i]
        BY <4>3, ConcatPlaces
      <4>6. \A i \in 1 .. Len(f) : (g \o u)[i] = f[i]
        BY <4>3, <4>5
      <4>7. Len(f) <= Len(g \o u)
        BY <4>3, <4>5
      <4>8. IsPrefix(f, g \o u)
        BY <2>5, <4>5, <4>6, <4>7, SamePrefix
      <4> QED BY <2>4, <2>6, <4>2, <4>4, <4>8
    <3> QED BY <3>2, <3>3 DEF KeepOrDrop
  <2>9. ASSUME Repair(transcript') = Repair(transcript)
        PROVE  IsPrefix(Repair(transcript), Repair(transcript'))
    BY <2>4, <2>6, <2>7, <2>9
  <2>10. CASE AddUser
    <3>1. User("prompt") \in SoundMessage
      BY RepairAssumption DEF User, Message, NoCall, SoundMessage, MessageType
    <3> QED BY <2>8, <2>10, <3>1 DEF AddUser, Extend
  <2>11. ASSUME NEW n \in 0 .. MaxCalls, AddAssistant(n)
         PROVE  IsPrefix(Repair(transcript), Repair(transcript'))
    <3> DEFINE calls == nextCall .. (nextCall + n - 1)
    <3>1. calls \subseteq 1 .. MaxCalls
      BY <2>11, RepairAssumption DEF AddAssistant, RepairInv, TypeOK
    <3>2. transcript' = Append(transcript, Assistant(calls))
      BY <2>11 DEF AddAssistant, Extend
    <3> HIDE DEF calls
    <3>3. Assistant(calls) \in SoundMessage
      BY <3>1, RepairAssumption DEF Assistant, Message, NoCall, SoundMessage, MessageType
    <3> QED BY <2>8, <3>2, <3>3
  <2>12. ASSUME NEW c \in 1 .. MaxCalls, AddResult(c)
         PROVE  IsPrefix(Repair(transcript), Repair(transcript'))
    <3>1. c \in 0 .. MaxCalls
      BY RepairAssumption
    <3>2. ToolResult(c, "ok") \in SoundMessage
      BY <3>1 DEF ToolResult, Message, SoundMessage, MessageType
    <3> QED BY <2>8, <2>12, <3>2 DEF AddResult, Extend
  <2>13. CASE Load
    <3>1. Repair(transcript') = Repair(transcript)
      BY <2>1, <2>13, RepairOf DEF Load
    <3> QED BY <2>9, <3>1
  <2>14. CASE UNCHANGED vars
    <3>1. transcript' = transcript
      BY <2>14 DEF vars
    <3>2. Repair(transcript') = Repair(transcript)
      BY <3>1
    <3> QED BY <2>9, <3>2
  <2> QED BY <2>10, <2>11, <2>12, <2>13, <2>14 DEF Next
<1> QED BY <1>1, SpecRepairInv, PTL DEF Spec, RequestsGrow

=============================================================================
