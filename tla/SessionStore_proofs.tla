------------------------- MODULE SessionStore_proofs -------------------------
(* What holds of the database for any number of messages, compactions, failed *)
(* writes and ends of the process, and for any policy of what is retained.    *)
EXTENDS SessionStore, Subsequences_proofs, FiniteSetTheorems, SequenceTheorems, TLAPS

(* What is archived carries an epoch that has begun, and one that is about to *)
(* be archived has nothing in the archive yet; epochs count from 1.           *)
EpochInv ==
    /\ epoch \in Nat
    /\ \A a \in archive : a.epoch \in Nat /\ a.epoch <= epoch
    /\ pc = "archive" => \A a \in archive : a.epoch < epoch
    /\ pc \in {"archive", "bounds", "commit"} => epoch >= 1

(* From the archive of a compaction to its end, every row has a copy.         *)
CopyInv == pc \in {"bounds", "commit"} => \A r \in rows : \E a \in archive : a.row = r

StoreInv == EpochInv /\ CopyInv

(* A step of the turn, of the check or of a restart writes no archive and     *)
(* comes to no later step of a compaction.                                    *)
Outside ==
    \/ Prompt \/ RecordMessage \/ Approve \/ Answer
    \/ \E tokens \in BOOLEAN : Measure(tokens)
    \/ MeasureAgain
    \/ \E attach \in BOOLEAN : EndCommand(attach)
    \/ Skip \/ Rebuild \/ CompactionFails \/ Crash \/ Resume

LEMMA OutsideWritesNoArchive ==
    ASSUME Outside
    PROVE  /\ epoch' = epoch /\ archive' = archive
           /\ pc' \in {"run", "idle", "check", "epoch", "down"}
<1>1. CASE Prompt
  BY <1>1 DEF Prompt
<1>2. CASE RecordMessage
  BY <1>2 DEF RecordMessage, Record
<1>3. CASE Approve
  BY <1>3 DEF Approve
<1>4. CASE Answer \/ MeasureAgain \/ Skip \/ Rebuild
  BY <1>4 DEF Answer, MeasureAgain, Skip, Rebuild, database
<1>5. CASE \E tokens \in BOOLEAN : Measure(tokens)
  BY <1>5, Zenon DEF Measure, database
<1>6. CASE \E attach \in BOOLEAN : EndCommand(attach)
  BY <1>6 DEF EndCommand, database
<1>7. CASE CompactionFails
  BY <1>7 DEF CompactionFails, Abandon, database
<1>8. CASE Crash \/ Resume
  BY <1>8 DEF Crash, Resume, database
<1> QED BY <1>1, <1>2, <1>3, <1>4, <1>5, <1>6, <1>7, <1>8 DEF Outside

(* Its rows grow, if they change.                                             *)
LEMMA OutsideKeepsRows ==
    ASSUME Outside
    PROVE  rows \subseteq rows'
<1> USE DEF Insert, InsertFails
<1>1. CASE Prompt
  BY <1>1 DEF Prompt
<1>2. CASE RecordMessage
  BY <1>2 DEF RecordMessage, Record
<1>3. CASE Approve
  BY <1>3 DEF Approve
<1>4. CASE Answer \/ MeasureAgain \/ Skip \/ Rebuild
  BY <1>4 DEF Answer, MeasureAgain, Skip, Rebuild, database
<1>5. CASE \E tokens \in BOOLEAN : Measure(tokens)
  BY <1>5, Zenon DEF Measure, database
<1>6. CASE \E attach \in BOOLEAN : EndCommand(attach)
  BY <1>6 DEF EndCommand, database
<1>7. CASE CompactionFails
  BY <1>7 DEF CompactionFails, Abandon, database
<1>8. CASE Crash \/ Resume
  BY <1>8 DEF Crash, Resume, database
<1> QED BY <1>1, <1>2, <1>3, <1>4, <1>5, <1>6, <1>7, <1>8 DEF Outside

(* The other steps.                                                           *)
LEMMA NextIsOutsideOrCompacts ==
    Next <=> Outside \/ IncrementEpoch \/ Archive \/ RecordBounds \/ Commit \/ CommitUnread
BY DEF Next, Outside

LEMMA StoreStarts == Init => StoreInv
BY DEF Init, StoreInv, EpochInv, CopyInv

(* Every step keeps the invariant.                                            *)
LEMMA StoreSteps == StoreInv /\ [Next]_vars => StoreInv'
<1> SUFFICES ASSUME StoreInv, [Next]_vars PROVE StoreInv'
  OBVIOUS
<1> USE DEF StoreInv, EpochInv, CopyInv
<1>1. CASE Outside
  BY <1>1, OutsideWritesNoArchive
<1>2. CASE IncrementEpoch
  <2>1. epoch' = epoch + 1 /\ pc' = "archive" /\ archive' = archive
    BY <1>2 DEF IncrementEpoch
  <2> QED BY <2>1
<1>3. CASE Archive
  <2>1. /\ archive' = archive \cup { [epoch |-> epoch, row |-> r] : r \in rows }
        /\ pc = "archive" /\ pc' = "bounds" /\ UNCHANGED <<rows, epoch>>
    BY <1>3 DEF Archive
  <2>2. EpochInv'
    BY <2>1
  <2>3. ASSUME NEW r \in rows PROVE \E a \in archive' : a.row = r
    <3>1. [epoch |-> epoch, row |-> r] \in archive'
      BY <2>1
    <3> QED BY <3>1
  <2> QED BY <2>1, <2>2, <2>3
<1>4. CASE RecordBounds
  <2>1. pc = "bounds" /\ pc' = "commit" /\ UNCHANGED <<rows, archive, epoch>>
    BY <1>4 DEF RecordBounds
  <2> QED BY <2>1
<1>5. CASE Commit \/ CommitUnread
  <2>1. pc' = "run" /\ UNCHANGED <<archive, epoch>>
    BY <1>5 DEF Commit, CommitUnread, CommitSlice
  <2> QED BY <2>1
<1>6. CASE UNCHANGED vars
  BY <1>6 DEF vars, database
<1> QED BY <1>1, <1>2, <1>3, <1>4, <1>5, <1>6, NextIsOutsideOrCompacts

(* An epoch is archived once, whatever failed or was cut before: the counter  *)
(* is written before the copies (compact_and_sync).                           *)
THEOREM EachEpochIsArchivedOnce == Spec => EpochsAreFresh
<1> DEFINE Fresh1 == \A a \in archive' \ archive : \A b \in archive : a.epoch # b.epoch
<1>1. ASSUME StoreInv, [Next]_vars PROVE [Fresh1]_vars
  <2>1. CASE Outside \/ IncrementEpoch \/ RecordBounds \/ Commit \/ CommitUnread
    BY <2>1, OutsideWritesNoArchive DEF IncrementEpoch, RecordBounds, Commit, CommitUnread, CommitSlice
  <2>2. CASE Archive
    <3>1. /\ archive' = archive \cup { [epoch |-> epoch, row |-> r] : r \in rows }
          /\ \A b \in archive : b.epoch \in Nat /\ b.epoch < epoch /\ epoch \in Nat
      BY <1>1, <2>2 DEF Archive, StoreInv, EpochInv
    <3>2. \A a \in archive' \ archive : a.epoch = epoch
      BY <3>1
    <3> QED BY <3>1, <3>2
  <2>3. CASE UNCHANGED vars
    BY <2>3
  <2> QED BY <1>1, <2>1, <2>2, <2>3, NextIsOutsideOrCompacts
<1> QED BY <1>1, StoreStarts, StoreSteps, PTL DEF Spec, EpochsAreFresh

(* No message leaves the database: a row that goes has its copy in the        *)
(* archive (FRAMEWORK.md:201), at whichever step a compaction fails or the    *)
(* process ends.  The first half of NoMessageIsLost.                          *)
RowsAreKept ==
    \A r \in rows : r \in rows' \/ \E a \in archive' : a.row = r

THEOREM NoRowIsLost == Spec => [][RowsAreKept]_vars
<1>1. ASSUME StoreInv, [Next]_vars PROVE [RowsAreKept]_vars
  <2> USE DEF RowsAreKept
  <2>1. CASE Outside
    BY <2>1, OutsideKeepsRows
  <2>2. CASE IncrementEpoch \/ Archive \/ RecordBounds
    BY <2>2 DEF IncrementEpoch, Archive, RecordBounds
  <2>3. CASE Commit \/ CommitUnread
    BY <1>1, <2>3 DEF Commit, CommitUnread, CommitSlice, StoreInv, CopyInv
  <2>4. CASE UNCHANGED vars
    BY <2>4
  <2> QED BY <1>1, <2>1, <2>2, <2>3, <2>4, NextIsOutsideOrCompacts
<1> QED BY <1>1, StoreStarts, StoreSteps, PTL DEF Spec
-----------------------------------------------------------------------------
(* Facts about the operators of the model *)

(* The least of some numbers.                                                 *)
LEMMA MinIsLeast ==
    ASSUME NEW S, S \subseteq Nat, S # {}
    PROVE  Min(S) \in S /\ \A n \in S : Min(S) <= n
BY LeastNumber DEF Min

(* The greatest of finitely many numbers.                                     *)
LEMMA MaxIsGreatest ==
    ASSUME NEW S, S \subseteq Nat, S # {}, IsFiniteSet(S)
    PROVE  Max(S) \in S /\ \A n \in S : n <= Max(S)
<1> DEFINE N == {n \in Nat : \A R \in SUBSET Nat : (IsFiniteSet(R) /\ Cardinality(R) = n + 1)
                                => \E m \in R : \A k \in R : k <= m}
<1>1. 0 \in N
  <2> SUFFICES ASSUME NEW R \in SUBSET Nat, IsFiniteSet(R), Cardinality(R) = 1
               PROVE  \E m \in R : \A k \in R : k <= m
    OBVIOUS
  <2>1. PICK x : R = {x}
    BY FS_Singleton
  <2> QED BY <2>1
<1>2. ASSUME NEW n \in Nat, n \in N PROVE n + 1 \in N
  <2> SUFFICES ASSUME NEW R \in SUBSET Nat, IsFiniteSet(R), Cardinality(R) = n + 2
               PROVE  \E m \in R : \A k \in R : k <= m
    OBVIOUS
  <2>1. PICK x : x \in R
    BY FS_EmptySet
  <2>2. IsFiniteSet(R \ {x}) /\ Cardinality(R \ {x}) = n + 1 /\ R \ {x} \in SUBSET Nat
    BY <2>1, FS_RemoveElement
  <2>3. PICK m \in R \ {x} : \A k \in R \ {x} : k <= m
    BY <1>2, <2>2
  <2>4. CASE x <= m
    BY <2>3, <2>4
  <2>5. CASE ~(x <= m)
    <3>1. \A k \in R : k <= x
      BY <2>1, <2>3, <2>5
    <3> QED BY <2>1, <3>1
  <2> QED BY <2>4, <2>5
<1> HIDE DEF N
<1>3. Nat \subseteq N
  BY <1>1, <1>2, SetInduction
<1>4. Cardinality(S) \in Nat /\ Cardinality(S) # 0
  BY FS_CardinalityType, FS_EmptySet
<1>5. Cardinality(S) - 1 \in N
  BY <1>3, <1>4
<1>6. \E m \in S : \A k \in S : k <= m
  BY <1>4, <1>5 DEF N
<1> QED BY <1>6 DEF Max

(* The turns of a list begin within it, or past its end.                      *)
LEMMA TurnsBegin ==
    ASSUME NEW T, NEW ms \in Seq(T), NEW t
    PROVE  TurnsFrom(ms, t) \in 1 .. (Len(ms) + 1)
<1> DEFINE S == {Len(ms) + 1} \cup
        { i \in UserTurns(ms) : Cardinality({ j \in UserTurns(ms) : i <= j }) <= t }
<1>1. S \subseteq 1 .. (Len(ms) + 1) /\ S # {} /\ S \subseteq Nat
  BY DEF UserTurns
<1> HIDE DEF S
<1>2. Min(S) \in S
  BY <1>1, MinIsLeast
<1>3. TurnsFrom(ms, t) = Min(S)
  BY DEF TurnsFrom, S
<1> QED BY <1>1, <1>2, <1>3

(* What begins within a list and goes to its end has its elements.            *)
LEMMA TailOfList ==
    ASSUME NEW T, NEW ms \in Seq(T), NEW a \in Nat \ {0}, NEW b \in 0 .. Len(ms)
    PROVE  /\ SubSeq(ms, a, b) \in Seq(T)
           /\ Range(SubSeq(ms, a, b)) = { ms[i] : i \in a .. b }
<1>1. \A i \in a .. b : ms[i] \in T /\ ms[i] \in { ms[j] : j \in a .. b }
  OBVIOUS
<1>2. SubSeq(ms, a, b) \in Seq(T) /\ SubSeq(ms, a, b) \in Seq({ ms[j] : j \in a .. b })
  BY <1>1, SubSeqProperties
<1>3. /\ Len(SubSeq(ms, a, b)) = IF a <= b THEN b - a + 1 ELSE 0
      /\ \A i \in 1 .. (b - a + 1) : SubSeq(ms, a, b)[i] = ms[a + i - 1]
  BY <1>1, SubSeqProperties
<1> DEFINE q == SubSeq(ms, a, b)
<1>4. ASSUME NEW i \in a .. b PROVE ms[i] \in Range(q)
  <2>1. i - a + 1 \in 1 .. (b - a + 1) /\ i - a + 1 \in 1 .. Len(q)
    BY <1>3
  <2>2. q[i - a + 1] = ms[a + (i - a + 1) - 1]
    BY <1>3, <2>1
  <2>3. a + (i - a + 1) - 1 = i
    OBVIOUS
  <2>4. DOMAIN q = 1 .. Len(q)
    BY <1>2
  <2> QED BY <2>1, <2>2, <2>3, <2>4 DEF Range
<1>5. Range(q) \subseteq { ms[j] : j \in a .. b }
  BY <1>2 DEF Range
<1> QED BY <1>2, <1>4, <1>5

(* The rank of a row among rows of different keys: each rank has its row.     *)
LEMMA EveryRankIsTaken ==
    ASSUME rows \subseteq RowType, IsFiniteSet(rows), HasUniqueKeys(rows)
    PROVE  /\ Cardinality(rows) \in Nat
           /\ \A n \in 1 .. Cardinality(rows) : \E r \in rows : Before(r) = n - 1
           /\ \A r \in rows : Before(r) + 1 \in 1 .. Cardinality(rows)
           /\ \A r, q \in rows : r # q => Before(r) # Before(q)
<1> DEFINE B(r) == { q \in rows : Precedes(q, r) }
           n == Cardinality(rows)
           rank == [r \in rows |-> Before(r) + 1]
<1>1. n \in Nat
  BY FS_CardinalityType
<1>2. \A r \in rows : r.turn \in Nat /\ r.seq \in Nat
  BY DEF RowType
<1>3. ASSUME NEW r \in rows
      PROVE  IsFiniteSet(B(r)) /\ Before(r) = Cardinality(B(r)) /\ Before(r) \in 0 .. (n - 1)
  <2>1. B(r) \subseteq rows \ {r}
    BY <1>2 DEF Precedes
  <2>2. IsFiniteSet(rows \ {r}) /\ Cardinality(rows \ {r}) = n - 1
    BY FS_RemoveElement
  <2>3. IsFiniteSet(B(r)) /\ Cardinality(B(r)) <= n - 1
    BY <2>1, <2>2, FS_Subset
  <2>4. Cardinality(B(r)) \in Nat
    BY <2>3, FS_CardinalityType
  <2> QED BY <1>1, <2>3, <2>4 DEF Before
<1>3a. \A r \in rows : Before(r) \in 0 .. (n - 1) /\ Before(r) \in Nat
  <2> HIDE DEF B, n
  <2> QED BY <1>1, <1>3
<1>4. ASSUME NEW r \in rows, NEW q \in rows, Precedes(r, q) PROVE Before(r) < Before(q)
  <2>1. B(r) \subseteq B(q) /\ r \in B(q) /\ r \notin B(r)
    BY <1>2, <1>4 DEF Precedes
  <2>2. Cardinality(B(r)) <= Cardinality(B(q)) /\ Cardinality(B(r)) # Cardinality(B(q))
    BY <1>3, <2>1, FS_Subset
  <2>3. Before(r) = Cardinality(B(r)) /\ Before(q) = Cardinality(B(q))
    BY <1>3
  <2> HIDE DEF B, n
  <2> QED BY <1>3a, <2>2, <2>3
<1>5. ASSUME NEW r \in rows, NEW q \in rows, r # q PROVE Before(r) # Before(q)
  <2>1. Precedes(r, q) \/ Precedes(q, r)
    BY <1>2, <1>5 DEF Precedes, HasUniqueKeys
  <2>2. Before(r) \in Nat /\ Before(q) \in Nat
    BY <1>3a
  <2> QED BY <1>4, <2>1, <2>2
<1>6. \A r \in rows : Before(r) + 1 \in 1 .. n
  <2> HIDE DEF B, n
  <2> QED BY <1>1, <1>3a
<1>7. rank \in Injection(rows, 1 .. n)
  <2>1. rank \in [rows -> 1 .. n]
    BY <1>6
  <2>2. \A r, q \in rows : rank[r] = rank[q] => r = q
    BY <1>3a, <1>5
  <2> HIDE DEF rank
  <2> QED BY <2>1, <2>2 DEF Injection, IsInjective
<1>8. IsFiniteSet(1 .. n) /\ Cardinality(1 .. n) = n
  BY <1>1, FS_Interval
<1>9. rank \in Surjection(rows, 1 .. n)
  <2> HIDE DEF rank
  <2> QED BY <1>7, <1>8, FS_Injection
<1>10. ASSUME NEW k \in 1 .. n PROVE \E r \in rows : Before(r) = k - 1
  <2>1. PICK r \in rows : rank[r] = k
    <3> HIDE DEF rank
    <3> QED BY <1>9 DEF Surjection
  <2>2. Before(r) + 1 = k /\ Before(r) \in Nat
    BY <1>3a, <2>1
  <2> QED BY <2>2
<1> QED BY <1>1, <1>5, <1>6, <1>10

(* What is read back is what is stored.                                       *)
LEMMA AllIsReadBack ==
    ASSUME rows \subseteq RowType, IsFiniteSet(rows), HasUniqueKeys(rows)
    PROVE  /\ Stored \in Seq(MessageType) /\ Len(Stored) = Cardinality(rows)
           /\ Range(Stored) = StoredMessages
<1> DEFINE n == Cardinality(rows)
           Nth(i) == CHOOSE r \in rows : Before(r) = i - 1
<1>1. n \in Nat
  BY EveryRankIsTaken
<1>2. ASSUME NEW i \in 1 .. n PROVE Nth(i) \in rows /\ Nth(i).msg \in MessageType
  <2>1. Nth(i) \in rows
    BY EveryRankIsTaken
  <2> QED BY <2>1 DEF RowType
<1>3. ASSUME NEW r \in rows PROVE Before(r) + 1 \in 1 .. n /\ Nth(Before(r) + 1) = r
  <2>1. Before(r) + 1 \in 1 .. n
    BY EveryRankIsTaken
  <2>2. Before(r) \in Nat
    BY <2>1, EveryRankIsTaken, FS_CardinalityType, FS_Subset DEF Before
  <2>3. \A q \in rows : Before(q) = (Before(r) + 1) - 1 => q = r
    BY <2>2, EveryRankIsTaken
  <2>4. Before(r) = (Before(r) + 1) - 1
    BY <2>2
  <2> QED BY <2>1, <2>3, <2>4
<1>4. Stored = [i \in 1 .. n |-> Nth(i).msg]
  BY DEF Stored
<1> HIDE DEF Nth, n
<1>5. Stored \in Seq(MessageType) /\ Len(Stored) = n /\ DOMAIN Stored = 1 .. n
  BY <1>1, <1>2, <1>4
<1>6. \A i \in 1 .. n : Stored[i] \in StoredMessages
  BY <1>2, <1>4 DEF StoredMessages
<1>7. \A r \in rows : r.msg \in Range(Stored)
  BY <1>3, <1>4, <1>5 DEF Range
<1>8. Range(Stored) = StoredMessages
  BY <1>5, <1>6, <1>7 DEF Range, StoredMessages
<1> QED BY <1>5, <1>8 DEF n

(* A function of finitely many things has finitely many values.               *)
LEMMA FiniteImage ==
    ASSUME NEW R, IsFiniteSet(R), NEW f, DOMAIN f = R
    PROVE  IsFiniteSet(Range(f))
<1> DEFINE g == [r \in R |-> f[r]]
<1>1. \A x \in R : f[x] \in Range(f)
  BY DEF Range
<1>2. g \in [R -> Range(f)]
  BY <1>1
<1>3. \A y \in Range(f) : \E x \in R : g[x] = y
  BY DEF Range
<1> HIDE DEF g
<1>4. g \in Surjection(R, Range(f))
  BY <1>2, <1>3 DEF Surjection
<1> QED BY <1>4, FS_Surjection

(* The last sequence number of the turn that runs.                            *)
LEMMA LastSeqIsNumber ==
    ASSUME NEW rs, rs \subseteq RowType, IsFiniteSet(rs)
    PROVE  LastSeq(rs) \in Nat /\ \A q \in rs : q.turn = turn => q.seq <= LastSeq(rs)
<1> DEFINE R == { q \in rs : q.turn = turn }
           f == [r \in R |-> r.seq]
           S == { r.seq : r \in R }
<1>1. IsFiniteSet(R)
  BY FS_Subset
<1>2. S = Range(f) /\ DOMAIN f = R
  BY DEF Range
<1>3. S \subseteq Nat
  BY DEF RowType
<1>4. LastSeq(rs) = Max({0} \cup S)
  BY DEF LastSeq
<1>5. \A q \in rs : q.turn = turn => q.seq \in S
  OBVIOUS
<1> HIDE DEF R, f, S
<1>6. IsFiniteSet(S)
  BY <1>1, <1>2, FiniteImage
<1>7. IsFiniteSet(S \cup {0})
  BY <1>6, FS_AddElement
<1>8. {0} \cup S = S \cup {0} /\ {0} \cup S \subseteq Nat /\ {0} \cup S # {}
  BY <1>3
<1>9. Max({0} \cup S) \in {0} \cup S /\ \A k \in {0} \cup S : k <= Max({0} \cup S)
  BY <1>7, <1>8, MaxIsGreatest
<1> QED BY <1>4, <1>5, <1>8, <1>9

(* The turn the session was in.                                               *)
LEMMA LastTurnIsNumber ==
    ASSUME rows \subseteq RowType, IsFiniteSet(rows), rows # {}
    PROVE  /\ Max({ r.turn : r \in rows }) \in { r.turn : r \in rows }
           /\ Max({ r.turn : r \in rows }) \in Nat
           /\ \A r \in rows : r.turn <= Max({ q.turn : q \in rows })
<1> DEFINE f == [r \in rows |-> r.turn]
           S == { r.turn : r \in rows }
<1>1. S = Range(f) /\ DOMAIN f = rows
  BY DEF Range
<1>2. S \subseteq Nat /\ S # {}
  BY DEF RowType
<1>3. \A r \in rows : r.turn \in S
  OBVIOUS
<1> HIDE DEF f
<1>4. IsFiniteSet(S)
  BY <1>1, FiniteImage
<1> HIDE DEF S
<1>5. Max(S) \in S /\ \A n \in S : n <= Max(S)
  BY <1>2, <1>4, MaxIsGreatest
<1>6. Max(S) \in Nat /\ \A r \in rows : r.turn <= Max(S)
  BY <1>2, <1>3, <1>5
<1> QED BY <1>5, <1>6 DEF S

(* The numbering of a list gives each of its messages a row.                  *)
LEMMA TurnsAreNumbers ==
    ASSUME NEW ms, NEW i \in Nat
    PROVE  NumberedTurn(ms, i) \in Nat /\ NumberedTurn(ms, i) <= i
<1>1. IsFiniteSet(1 .. i) /\ Cardinality(1 .. i) = i
  BY FS_Interval
<1>2. IsFiniteSet({ j \in 1 .. i : StartsTurn(ms[j]) })
      /\ Cardinality({ j \in 1 .. i : StartsTurn(ms[j]) }) <= i
  BY <1>1, FS_Subset
<1> QED BY <1>2, FS_CardinalityType DEF NumberedTurn

(* So is the sequence number of each.                                         *)
LEMMA SeqsAreNumbers ==
    ASSUME NEW ms, NEW i \in Nat
    PROVE  NumberedSeq(ms, i) \in Nat
<1> DEFINE S == {1} \cup { j \in 1 .. i : StartsTurn(ms[j]) }
           from == Max(S)
           C == { j \in (from + 1) .. i : ms[j].kind # "refresh" }
<1>1. S \subseteq 0 .. (i + 1) /\ S \subseteq Nat /\ S # {}
  OBVIOUS
<1>2. IsFiniteSet(S)
  <2> HIDE DEF S
  <2>1. IsFiniteSet(0 .. (i + 1))
    BY FS_Interval
  <2> QED BY <1>1, <2>1, FS_Subset
<1>3. NumberedSeq(ms, i) = Cardinality(C)
  BY DEF NumberedSeq
<1> HIDE DEF S
<1>4. from \in Nat
  BY <1>1, <1>2, MaxIsGreatest
<1> HIDE DEF from
<1>5. IsFiniteSet((from + 1) .. i)
  BY <1>4, FS_Interval
<1>6. IsFiniteSet(C)
  BY <1>5, FS_Subset
<1> QED BY <1>3, <1>6, FS_CardinalityType

(* Its rows are the messages of the list, in their types.                     *)
LEMMA EachHasItsRow ==
    ASSUME NEW ms \in Seq(MessageType), Len(ms) # 0
    PROVE  /\ Numbered(ms) \subseteq RowType /\ Numbered(ms) # {} /\ IsFiniteSet(Numbered(ms))
           /\ { r.msg : r \in Numbered(ms) } = Range(ms)
<1> DEFINE row(i) == IF ms[i].kind = "refresh" THEN Row(0, 1, ms[i])
                     ELSE Row(NumberedTurn(ms, i), NumberedSeq(ms, i), ms[i])
           f == [i \in 1 .. Len(ms) |-> row(i)]
<1>1. \A i \in 1 .. Len(ms) : row(i) \in RowType /\ row(i).msg = ms[i]
  <2> SUFFICES ASSUME NEW i \in 1 .. Len(ms) PROVE row(i) \in RowType /\ row(i).msg = ms[i]
    OBVIOUS
  <2>1. NumberedTurn(ms, i) \in Nat /\ NumberedSeq(ms, i) \in Nat /\ ms[i] \in MessageType
    BY TurnsAreNumbers, SeqsAreNumbers
  <2> QED BY <2>1 DEF Row, RowType
<1>2. Numbered(ms) = { row(i) : i \in 1 .. Len(ms) }
  BY DEF Numbered
<1> HIDE DEF row
<1>3. Numbered(ms) = Range(f) /\ DOMAIN f = 1 .. Len(ms)
  BY <1>2 DEF Range
<1>4. IsFiniteSet(1 .. Len(ms))
  BY FS_Interval
<1> HIDE DEF f
<1>5. IsFiniteSet(Numbered(ms))
  BY <1>3, <1>4, FiniteImage
<1>6. Numbered(ms) \subseteq RowType /\ Numbered(ms) # {}
  <2>1. row(1) \in Numbered(ms)
    BY <1>2
  <2> QED BY <1>1, <1>2, <2>1
<1>7. { r.msg : r \in Numbered(ms) } = Range(ms)
  <2>1. \A r \in Numbered(ms) : r.msg \in Range(ms)
    BY <1>1, <1>2 DEF Range
  <2>2. \A i \in 1 .. Len(ms) : ms[i] \in { r.msg : r \in Numbered(ms) }
    BY <1>1, <1>2
  <2> QED BY <2>1, <2>2 DEF Range
<1> QED BY <1>5, <1>6, <1>7

-----------------------------------------------------------------------------
(* The story: what memory and database tell, at every step                    *)

(* The rows are finitely many, never none, and each has a key of its own.     *)
KeysInv == IsFiniteSet(rows) /\ rows # {} /\ HasUniqueKeys(rows)

(* A compaction at work has a rebuilt session, whose second message is the    *)
(* summary, made before anything was written; the breaker was closed.         *)
Compacting == pc \in {"epoch", "archive", "bounds", "commit"}

DraftInv ==
    Compacting =>
        /\ failCount < MaxFailures
        /\ Len(draft) >= 2
        /\ \E covers \in Summaries : draft[2] = Refresh(covers)

(* A session that runs begins with its system message, at least.              *)
AwakeInv == pc # "down" => Len(messages) # 0

StoryInv == RowsMatchMemory /\ KeysInv /\ DraftInv /\ AwakeInv

(* A step that writes at most one message, outside a compaction.              *)
OneMore ==
    /\ pc # "down" /\ pc' \in {"idle", "run"}
    /\ UNCHANGED <<draft, failCount, over, archive, epoch, retained>>
    /\ turn' \in Nat /\ seqNo' \in Nat /\ author' \in Nat
    /\ paused' \in BOOLEAN /\ attachable' \in BOOLEAN
    /\ nextId' \in 1 .. (MaxMessages + 1)
    /\ \E m \in MessageType, t \in Nat, s \in Nat :
         \/ /\ IsFree(t, s) /\ rows' = rows \cup {Row(t, s, m)}
            /\ messages' = Append(messages, m)
         \/ rows' = rows /\ messages' = messages
         \/ m.kind = "prompt" /\ rows' = rows /\ messages' = Append(messages, m)

(* A row with a free key joins the others.                                    *)
LEMMA RowJoins ==
    ASSUME KeysInv, rows \subseteq RowType,
           NEW m \in MessageType, NEW t \in Nat, NEW s \in Nat, IsFree(t, s)
    PROVE  LET new == rows \cup {Row(t, s, m)}
           IN  new \subseteq RowType /\ IsFiniteSet(new) /\ new # {} /\ HasUniqueKeys(new)
<1> DEFINE new == rows \cup {Row(t, s, m)}
<1>1. Row(t, s, m) \in RowType /\ Row(t, s, m).turn = t /\ Row(t, s, m).seq = s
  BY DEF Row, RowType
<1>2. IsFiniteSet(new)
  BY FS_AddElement DEF KeysInv
<1>3. HasUniqueKeys(new)
  BY <1>1 DEF KeysInv, HasUniqueKeys, IsFree
<1> QED BY <1>1, <1>2, <1>3

(* A message of the turn that runs.                                           *)
LEMMA MessagesAreTyped ==
    ASSUME TypeOK, NEW kind \in Kinds, NEW k \in 0 .. MaxMessages, NEW a \in Nat
    PROVE  /\ Message(kind, k, a, {}) \in MessageType
           /\ Message(kind, k, a, {}).kind = kind
BY DEF Message, MessageType

LEMMA AMessageIsAdded ==
    ASSUME StoryInv, Prompt \/ RecordMessage \/ Approve
    PROVE  OneMore
<1> USE StoreAssumption
<1>1. TypeOK /\ KeysInv
  BY DEF StoryInv, RowsMatchMemory
<1>2. nextId \in 1 .. (MaxMessages + 1) /\ turn \in Nat /\ seqNo \in Nat /\ author \in Nat
  BY <1>1 DEF TypeOK
<1>3. paused \in BOOLEAN /\ attachable \in BOOLEAN
  BY <1>1 DEF TypeOK
<1>4. ASSUME CanAdd PROVE nextId \in 0 .. MaxMessages /\ nextId' \in 1 .. (MaxMessages + 1)
  BY <1>2, <1>4 DEF CanAdd
<1>5. CASE Prompt
  <2>1. /\ pc = "idle" /\ pc' \in {"idle", "run"} /\ CanAdd
        /\ author' = author + 1 /\ turn' = turn + 1 /\ seqNo' = 0
        /\ messages' = Append(messages, Fresh("prompt"))
        /\ paused' = FALSE /\ attachable' \in BOOLEAN
        /\ UNCHANGED <<draft, failCount, over, archive, epoch, retained>>
        /\ \/ IsFree(turn', 0) /\ rows' = rows \cup {Row(turn', 0, Fresh("prompt"))}
           \/ rows' = rows
    BY <1>5 DEF Prompt, Insert, InsertFails
  <2>2. PICK m : m = Fresh("prompt")
    OBVIOUS
  <2>3. PICK t : t = turn'
    OBVIOUS
  <2>4. PICK a \in Nat : a = author'
    BY <1>2, <2>1
  <2>5. Message("prompt", nextId, a, {}) \in MessageType /\ Message("prompt", nextId, a, {}).kind = "prompt"
    BY <1>1, <1>4, <2>1, MessagesAreTyped DEF Kinds
  <2>6. m \in MessageType /\ m.kind = "prompt" /\ t \in Nat
    BY <1>2, <2>1, <2>2, <2>3, <2>4, <2>5 DEF Fresh
  <2>7. author' \in Nat /\ turn' \in Nat /\ seqNo' \in Nat /\ nextId' \in 1 .. (MaxMessages + 1)
    BY <1>2, <1>4, <2>1
  <2>8. \/ IsFree(t, 0) /\ rows' = rows \cup {Row(t, 0, m)} /\ messages' = Append(messages, m)
        \/ m.kind = "prompt" /\ rows' = rows /\ messages' = Append(messages, m)
    BY <2>1, <2>2, <2>3, <2>6
  <2> QED BY <2>1, <2>6, <2>7, <2>8 DEF OneMore
<1>6. CASE RecordMessage
  <2>1. PICK kind \in {"reply", "nudge"} : Record(kind)
    BY <1>6 DEF RecordMessage
  <2>2. /\ pc = "run" /\ pc' \in {"idle", "run"} /\ CanAdd
        /\ author' = author /\ turn' = turn /\ seqNo' = seqNo + 1
        /\ paused' \in BOOLEAN /\ attachable' \in BOOLEAN
        /\ UNCHANGED <<draft, failCount, over, archive, epoch, retained>>
        /\ \/ /\ IsFree(turn, seqNo') /\ rows' = rows \cup {Row(turn, seqNo', Fresh(kind))}
              /\ messages' = Append(messages, Fresh(kind))
           \/ rows' = rows /\ messages' = messages
    BY <1>3, <2>1 DEF Record, Insert, InsertFails
  <2>3. PICK m : m = Fresh(kind)
    OBVIOUS
  <2>4. PICK s : s = seqNo'
    OBVIOUS
  <2>5. Message(kind, nextId, author, {}) \in MessageType
    BY <1>1, <1>2, <1>4, <2>2, MessagesAreTyped DEF Kinds
  <2>6. m \in MessageType /\ s \in Nat
    BY <1>2, <2>2, <2>3, <2>4, <2>5 DEF Fresh
  <2>7. author' \in Nat /\ turn' \in Nat /\ seqNo' \in Nat /\ nextId' \in 1 .. (MaxMessages + 1)
    BY <1>2, <1>4, <2>2
  <2>8. \/ IsFree(turn, s) /\ rows' = rows \cup {Row(turn, s, m)} /\ messages' = Append(messages, m)
        \/ rows' = rows /\ messages' = messages
    BY <2>2, <2>3, <2>4
  <2> QED BY <1>2, <2>2, <2>6, <2>7, <2>8 DEF OneMore
<1>7. CASE Approve
  <2>1. /\ pc = "idle" /\ pc' \in {"idle", "run"} /\ CanAdd
        /\ author' = author /\ turn' = turn
        /\ seqNo' \in {seqNo + 1, LastSeq(rows')}
        /\ paused' \in BOOLEAN /\ attachable' = attachable
        /\ UNCHANGED <<draft, failCount, over, archive, epoch, retained>>
        /\ \/ /\ IsFree(turn, seqNo + 1) /\ rows' = rows \cup {Row(turn, seqNo + 1, Fresh("reply"))}
              /\ messages' = Append(messages, Fresh("reply"))
           \/ rows' = rows /\ messages' = messages /\ seqNo' = seqNo + 1
    BY <1>3, <1>7 DEF Approve, Insert, InsertFails
  <2>2. PICK m : m = Fresh("reply")
    OBVIOUS
  <2>3. Message("reply", nextId, author, {}) \in MessageType
    BY <1>1, <1>2, <1>4, <2>1, MessagesAreTyped DEF Kinds
  <2>4. m \in MessageType /\ seqNo + 1 \in Nat
    BY <1>2, <2>1, <2>2, <2>3 DEF Fresh
  <2>5. PICK new : new = rows'
    OBVIOUS
  <2>6. new \subseteq RowType /\ IsFiniteSet(new)
    <3>1. rows \subseteq RowType /\ IsFiniteSet(rows)
      BY <1>1 DEF TypeOK, KeysInv
    <3>2. CASE new = rows
      BY <3>1, <3>2
    <3>3. CASE IsFree(turn, seqNo + 1) /\ new = rows \cup {Row(turn, seqNo + 1, m)}
      BY <1>1, <1>2, <2>4, <3>1, <3>3, RowJoins
    <3> QED BY <2>1, <2>2, <2>5, <3>2, <3>3
  <2>7. LastSeq(new) \in Nat
    BY <2>6, LastSeqIsNumber
  <2>8. seqNo' \in Nat
    BY <1>2, <2>1, <2>5, <2>7
  <2>9. author' \in Nat /\ turn' \in Nat /\ nextId' \in 1 .. (MaxMessages + 1) /\ attachable' \in BOOLEAN
    BY <1>2, <1>3, <1>4, <2>1
  <2>10. \/ IsFree(turn, seqNo + 1) /\ rows' = rows \cup {Row(turn, seqNo + 1, m)} /\ messages' = Append(messages, m)
         \/ rows' = rows /\ messages' = messages
    BY <2>1, <2>2
  <2> QED BY <1>2, <2>1, <2>4, <2>8, <2>9, <2>10 DEF OneMore
<1> QED BY <1>5, <1>6, <1>7

(* What is appended to the transcript is in it, with all that was.            *)
LEMMA AppendRange ==
    ASSUME NEW T, NEW ms \in Seq(T), NEW m \in T
    PROVE  /\ Append(ms, m) \in Seq(T) /\ Len(Append(ms, m)) = Len(ms) + 1
           /\ Range(Append(ms, m)) = Range(ms) \cup {m}
<1>1. /\ Append(ms, m) \in Seq(T) /\ Len(Append(ms, m)) = Len(ms) + 1
      /\ \A i \in 1 .. Len(ms) : Append(ms, m)[i] = ms[i]
      /\ Append(ms, m)[Len(ms) + 1] = m
  OBVIOUS
<1> DEFINE q == Append(ms, m)
<1>2. Range(q) \subseteq Range(ms) \cup {m}
  <2> SUFFICES ASSUME NEW i \in 1 .. (Len(ms) + 1) PROVE q[i] \in Range(ms) \cup {m}
    BY <1>1 DEF Range
  <2>1. CASE i \in 1 .. Len(ms)
    BY <1>1, <2>1 DEF Range
  <2>2. CASE i = Len(ms) + 1
    BY <1>1, <2>2
  <2> QED BY <2>1, <2>2
<1>3. \A i \in 1 .. Len(ms) : ms[i] \in Range(q)
  <2> SUFFICES ASSUME NEW i \in 1 .. Len(ms) PROVE ms[i] \in Range(q)
    OBVIOUS
  <2>1. i \in 1 .. Len(q) /\ q[i] = ms[i] /\ DOMAIN q = 1 .. Len(q)
    BY <1>1
  <2> QED BY <2>1 DEF Range
<1>4. m \in Range(q)
  <2>1. Len(ms) + 1 \in 1 .. Len(q) /\ q[Len(ms) + 1] = m /\ DOMAIN q = 1 .. Len(q)
    BY <1>1
  <2> QED BY <2>1 DEF Range
<1>5. Range(ms) \subseteq Range(q)
  BY <1>3 DEF Range
<1> QED BY <1>1, <1>2, <1>4, <1>5

(* The state outside the transcript and the rows has its types.               *)
RestOK ==
    /\ draft \in Seq(MessageType)
    /\ turn \in Nat /\ seqNo \in Nat /\ failCount \in 0 .. MaxFailures
    /\ paused \in BOOLEAN /\ attachable \in BOOLEAN /\ over \in BOOLEAN
    /\ pc \in {"down", "idle", "run", "check", "epoch", "archive", "bounds", "commit"}
    /\ nextId \in 1 .. (MaxMessages + 1) /\ author \in Nat

ArchiveOK ==
    /\ \A a \in archive : a.epoch \in 1 .. epoch /\ a.row \in RowType
    /\ \A k \in retained : k.epoch \in 1 .. epoch /\ k.min \in Nat /\ k.max \in Nat

LEMMA TypeParts ==
    TypeOK <=> messages \in Seq(MessageType) /\ rows \subseteq RowType /\ RestOK /\ ArchiveOK
BY DEF TypeOK, RestOK, ArchiveOK

(* What memory has and the database has not.                                  *)
Agrees ==
    pc # "down" =>
        /\ StoredMessages \subseteq Range(messages)
        /\ \A m \in Range(messages) : m.kind \notin {"memory", "prompt"} => m \in StoredMessages

LEMMA StoryParts ==
    StoryInv <=> /\ messages \in Seq(MessageType) /\ rows \subseteq RowType
                 /\ RestOK /\ ArchiveOK /\ Agrees /\ KeysInv /\ DraftInv /\ AwakeInv
BY TypeParts DEF StoryInv, RowsMatchMemory, Agrees

LEMMA StoryNext ==
    /\ messages' \in Seq(MessageType) /\ rows' \subseteq RowType
    /\ RestOK' /\ ArchiveOK' /\ Agrees' /\ KeysInv' /\ DraftInv' /\ AwakeInv'
    => StoryInv'
BY DEF StoryInv, RowsMatchMemory, Agrees, TypeOK, RestOK, ArchiveOK

(* A message that is written, in memory and database, or refused.             *)
LEMMA OneMoreKeepsStory ==
    ASSUME StoryInv, OneMore
    PROVE  StoryInv'
<1>1. /\ messages \in Seq(MessageType) /\ rows \subseteq RowType
      /\ RestOK /\ ArchiveOK /\ Agrees /\ KeysInv /\ DraftInv /\ AwakeInv
  BY StoryParts
<1>2. RestOK' /\ ArchiveOK'
  BY <1>1 DEF OneMore, RestOK, ArchiveOK
<1>3. DraftInv'
  BY DEF OneMore, DraftInv, Compacting
<1>4. PICK m \in MessageType, t \in Nat, s \in Nat :
         \/ /\ IsFree(t, s) /\ rows' = rows \cup {Row(t, s, m)}
            /\ messages' = Append(messages, m)
         \/ rows' = rows /\ messages' = messages
         \/ m.kind = "prompt" /\ rows' = rows /\ messages' = Append(messages, m)
  BY DEF OneMore
<1>5. pc # "down" /\ Len(messages) \in Nat /\ Len(messages) # 0
  BY <1>1 DEF OneMore, AwakeInv
<1>6. /\ StoredMessages \subseteq Range(messages)
      /\ \A x \in Range(messages) : x.kind \notin {"memory", "prompt"} => x \in StoredMessages
  BY <1>1, <1>5 DEF Agrees
<1>7. /\ Append(messages, m) \in Seq(MessageType) /\ Len(Append(messages, m)) = Len(messages) + 1
      /\ Range(Append(messages, m)) = Range(messages) \cup {m}
  BY <1>1, AppendRange
<1>8. CASE IsFree(t, s) /\ rows' = rows \cup {Row(t, s, m)} /\ messages' = Append(messages, m)
  <2>1. rows' \subseteq RowType /\ KeysInv'
    BY <1>1, <1>8, RowJoins DEF KeysInv
  <2>2. StoredMessages' = StoredMessages \cup {m}
    <3>1. StoredMessages' = { r.msg : r \in rows \cup {Row(t, s, m)} } /\ Row(t, s, m).msg = m
      BY <1>8 DEF StoredMessages, Row
    <3> QED BY <3>1 DEF StoredMessages
  <2>3. Range(messages') = Range(messages) \cup {m} /\ Len(messages') # 0
    BY <1>5, <1>7, <1>8
  <2>4. Agrees'
    BY <1>6, <2>2, <2>3 DEF Agrees
  <2> QED BY <1>2, <1>3, <1>7, <1>8, <2>1, <2>3, <2>4, StoryNext DEF AwakeInv
<1>9. CASE rows' = rows /\ messages' = messages
  <2>1. KeysInv' /\ Agrees' /\ AwakeInv'
    BY <1>1, <1>5, <1>6, <1>9 DEF KeysInv, HasUniqueKeys, Agrees, AwakeInv, StoredMessages
  <2> QED BY <1>1, <1>2, <1>3, <1>9, <2>1, StoryNext
<1>10. CASE m.kind = "prompt" /\ rows' = rows /\ messages' = Append(messages, m)
  <2>1. KeysInv' /\ StoredMessages' = StoredMessages
    BY <1>1, <1>10 DEF KeysInv, HasUniqueKeys, StoredMessages
  <2>2. Range(messages') = Range(messages) \cup {m} /\ Len(messages') # 0
    BY <1>5, <1>7, <1>10
  <2>3. Agrees'
    BY <1>6, <1>10, <2>1, <2>2 DEF Agrees
  <2> QED BY <1>1, <1>2, <1>3, <1>7, <1>10, <2>1, <2>2, <2>3, StoryNext DEF AwakeInv
<1> QED BY <1>4, <1>8, <1>9, <1>10

(* What changes neither rows nor transcript, nor a compaction at work.        *)
LEMMA SameStory ==
    ASSUME StoryInv, RestOK', ArchiveOK', rows' = rows, messages' = messages,
           pc # "down", DraftInv'
    PROVE  StoryInv'
<1>1. /\ messages \in Seq(MessageType) /\ rows \subseteq RowType
      /\ Agrees /\ KeysInv /\ AwakeInv
  BY StoryParts
<1>2. Agrees' /\ KeysInv' /\ AwakeInv'
  BY <1>1 DEF Agrees, KeysInv, HasUniqueKeys, AwakeInv, StoredMessages
<1> QED BY <1>1, <1>2, StoryNext

(* Responses, answers and the ends of commands.                               *)
LEMMA TurnKeepsStory ==
    ASSUME StoryInv,
           \/ Answer \/ MeasureAgain \/ Skip
           \/ \E tokens \in BOOLEAN : Measure(tokens)
           \/ \E attach \in BOOLEAN : EndCommand(attach)
    PROVE  StoryInv'
<1> USE StoreAssumption
<1>1. /\ messages \in Seq(MessageType) /\ rows \subseteq RowType
      /\ RestOK /\ ArchiveOK /\ Agrees /\ KeysInv /\ DraftInv /\ AwakeInv
  BY StoryParts
<1>2. CASE Answer
  <2>1. LastSeq(rows) \in Nat
    BY <1>1, LastSeqIsNumber DEF KeysInv
  <2>2. RestOK' /\ ArchiveOK' /\ rows' = rows /\ messages' = messages /\ pc # "down" /\ DraftInv'
    BY <1>1, <1>2, <2>1 DEF Answer, RestOK, ArchiveOK, DraftInv, Compacting, database, env
  <2> QED BY <2>2, SameStory
<1>3. CASE MeasureAgain \/ Skip
  <2>1. RestOK' /\ ArchiveOK' /\ rows' = rows /\ messages' = messages /\ pc # "down" /\ DraftInv'
    BY <1>1, <1>3 DEF MeasureAgain, Skip, RestOK, ArchiveOK, DraftInv, Compacting, database, env, engine
  <2> QED BY <2>1, SameStory
<1>4. CASE \E tokens \in BOOLEAN : Measure(tokens)
  <2>1. PICK tokens \in BOOLEAN : Measure(tokens)
    BY <1>4
  <2>2. pc' \in {"check", "run"} /\ over' \in BOOLEAN
    BY <2>1 DEF Measure
  <2>3. RestOK' /\ ArchiveOK' /\ rows' = rows /\ messages' = messages /\ pc # "down" /\ DraftInv'
    BY <1>1, <2>1, <2>2 DEF Measure, RestOK, ArchiveOK, DraftInv, Compacting, database, env
  <2> QED BY <2>3, SameStory
<1>5. CASE \E attach \in BOOLEAN : EndCommand(attach)
  <2>1. PICK attach \in BOOLEAN : EndCommand(attach)
    BY <1>5
  <2>2. /\ pc = "run" /\ pc' = "idle" /\ rows' = rows
        /\ paused' \in BOOLEAN /\ attachable' = FALSE
        /\ UNCHANGED <<turn, seqNo, over, failCount, draft, archive, epoch, retained, author>>
    BY <2>1 DEF EndCommand, database
  <2>3. nextId' \in 1 .. (MaxMessages + 1)
    BY <1>1, <2>1 DEF EndCommand, CanAdd, RestOK
  <2>4. RestOK' /\ ArchiveOK'
    BY <1>1, <2>2, <2>3 DEF RestOK, ArchiveOK
  <2>5. DraftInv'
    BY <2>2 DEF DraftInv, Compacting
  <2>6. CASE messages' = messages
    BY <2>2, <2>4, <2>5, <2>6, SameStory
  <2>7. CASE messages' # messages
    <3>1. CanAdd /\ messages' = Append(messages, Message("memory", nextId, author, {}))
      BY <2>1, <2>7 DEF EndCommand
    <3>2. nextId \in 0 .. MaxMessages /\ author \in Nat
      BY <1>1, <3>1 DEF CanAdd, RestOK
    <3>3. PICK m : m = Message("memory", nextId, author, {})
      OBVIOUS
    <3>4. m \in MessageType /\ m.kind = "memory"
      BY <3>2, <3>3 DEF Message, MessageType, Kinds
    <3>5. /\ messages' \in Seq(MessageType) /\ Len(messages') = Len(messages) + 1
          /\ Range(messages') = Range(messages) \cup {m}
      BY <1>1, <3>1, <3>3, <3>4, AppendRange
    <3>6. KeysInv' /\ StoredMessages' = StoredMessages /\ rows' \subseteq RowType
      BY <1>1, <2>2 DEF KeysInv, HasUniqueKeys, StoredMessages
    <3>7. Agrees'
      BY <1>1, <2>2, <3>4, <3>5, <3>6 DEF Agrees
    <3>8. AwakeInv'
      BY <1>1, <3>5 DEF AwakeInv
    <3> QED BY <2>4, <2>5, <3>5, <3>6, <3>7, <3>8, StoryNext
  <2> QED BY <2>6, <2>7
<1> QED BY <1>2, <1>3, <1>4, <1>5

-----------------------------------------------------------------------------
(* The story during a compaction, and after the end of the process            *)

(* What is kept begins within the transcript, behind its system message.      *)
LEMMA RetainBegins ==
    ASSUME messages \in Seq(MessageType), Len(messages) # 0
    PROVE  /\ BodyStart \in {2, 3} /\ RetainFrom \in 1 .. (Len(messages) + 1)
           /\ RetainFrom - 1 \in 0 .. Len(messages)
<1>1. Len(messages) \in Nat
  OBVIOUS
<1>2. BodyStart \in {2, 3} /\ BodyStart <= Len(messages) + 1
  BY <1>1 DEF BodyStart
<1>3. TurnsFrom(messages, KeepTurns) \in 1 .. (Len(messages) + 1)
  BY TurnsBegin
<1>4. RetainFrom \in 1 .. (Len(messages) + 1)
  BY <1>1, <1>2, <1>3 DEF RetainFrom
<1> QED BY <1>1, <1>2, <1>4

LEMMA SummariesAreTyped ==
    ASSUME messages \in Seq(MessageType), Len(messages) # 0, NEW covers \in Summaries
    PROVE  /\ covers \subseteq 0 .. MaxMessages
           /\ { messages[i].id : i \in BodyStart .. (RetainFrom - 1) } \subseteq covers
<1> DEFINE read == SubSeq(messages, 1, RetainFrom - 1)
           part == SubSeq(messages, BodyStart, RetainFrom - 1)
           all == UNION { Told(m) : m \in Range(read) }
<1>1. /\ BodyStart \in Nat \ {0} /\ 1 \in Nat \ {0} /\ RetainFrom - 1 \in 0 .. Len(messages)
      /\ BodyStart > 1
  BY RetainBegins
<1>2. Range(part) = { messages[i] : i \in BodyStart .. (RetainFrom - 1) }
  BY <1>1, TailOfList
<1>3. Range(read) = { messages[i] : i \in 1 .. (RetainFrom - 1) }
  BY <1>1, TailOfList
<1>4. covers = IdsOf(part) \/ covers = all
  BY DEF Summaries
<1>5. \A i \in 1 .. (RetainFrom - 1) : messages[i] \in MessageType
  BY <1>1
<1> HIDE DEF read, part
<1>6. \A i \in BodyStart .. (RetainFrom - 1) : i \in 1 .. (RetainFrom - 1)
  BY <1>1
<1>7. CASE covers = IdsOf(part)
  <2>1. covers = { m.id : m \in Range(part) }
    BY <1>7 DEF IdsOf, Ids
  <2>2. \A m \in Range(part) : m.id \in 0 .. MaxMessages
    BY <1>2, <1>5, <1>6 DEF MessageType
  <2>3. \A i \in BodyStart .. (RetainFrom - 1) : messages[i].id \in covers
    BY <1>2, <2>1
  <2> QED BY <2>1, <2>2, <2>3
<1>8. CASE covers = all
  <2>1. \A m \in Range(read) : m \in MessageType
    BY <1>3, <1>5
  <2>2. \A m \in Range(read) : Told(m) \subseteq 0 .. MaxMessages /\ m.id \in Told(m)
    BY <2>1 DEF Told, MessageType
  <2>3. \A i \in BodyStart .. (RetainFrom - 1) : messages[i].id \in covers
    BY <1>3, <1>6, <1>8, <2>2
  <2> QED BY <1>8, <2>2, <2>3
<1> QED BY <1>4, <1>7, <1>8

(* What a compaction may keep is part of the transcript.                      *)
LEMMA RetainsAreTyped ==
    ASSUME messages \in Seq(MessageType), Len(messages) # 0, NEW kept \in Retains
    PROVE  kept \in Seq(MessageType)
<1> DEFINE all == SubSeq(messages, RetainFrom, Len(messages))
<1>1. RetainFrom \in Nat \ {0} /\ Len(messages) \in 0 .. Len(messages)
  BY RetainBegins
<1>2. all \in Seq(MessageType)
  BY <1>1, TailOfList
<1>3. kept = all \/ \E t \in 0 .. (KeepTurns - 1) : kept = LastTurns(all, t)
  BY DEF Retains
<1> HIDE DEF all
<1>4. ASSUME NEW t PROVE LastTurns(all, t) \in Seq(MessageType)
  <2>1. TurnsFrom(all, t) \in 1 .. (Len(all) + 1) /\ Len(all) \in 0 .. Len(all)
    BY <1>2, TurnsBegin
  <2>2. TurnsFrom(all, t) \in Nat \ {0}
    BY <1>2, <2>1
  <2> QED BY <1>2, <2>1, <2>2, TailOfList DEF LastTurns
<1> QED BY <1>2, <1>3, <1>4

LEMMA RebuildKeepsStory ==
    ASSUME StoryInv, Rebuild
    PROVE  StoryInv'
<1>1. /\ messages \in Seq(MessageType) /\ rows \subseteq RowType
      /\ RestOK /\ ArchiveOK /\ Agrees /\ KeysInv /\ DraftInv /\ AwakeInv
  BY StoryParts
<1>2. pc = "check" /\ pc' = "epoch" /\ UNCHANGED <<engine, database, env>> /\ failCount < MaxFailures
  BY DEF Rebuild
<1>3. Len(messages) # 0
  BY <1>1, <1>2 DEF AwakeInv
<1>4. PICK covers \in Summaries, kept \in Retains : draft' = <<System, Refresh(covers)>> \o kept
  BY DEF Rebuild
<1>5. covers \subseteq 0 .. MaxMessages /\ kept \in Seq(MessageType)
  BY <1>1, <1>3, SummariesAreTyped, RetainsAreTyped
<1>6. System \in MessageType /\ Refresh(covers) \in MessageType
  BY <1>5, StoreAssumption DEF System, Refresh, Message, MessageType, Kinds
<1> DEFINE two == <<System, Refresh(covers)>>
<1>7. two \in Seq(MessageType) /\ Len(two) = 2 /\ two[2] = Refresh(covers)
  BY <1>6
<1> HIDE DEF two
<1>8. draft' \in Seq(MessageType) /\ Len(draft') >= 2 /\ draft'[2] = Refresh(covers)
  <2>1. draft' = two \o kept
    BY <1>4 DEF two
  <2>2. /\ two \o kept \in Seq(MessageType) /\ Len(two \o kept) = Len(two) + Len(kept)
        /\ \A i \in 1 .. Len(two) + Len(kept) :
             (two \o kept)[i] = IF i <= Len(two) THEN two[i] ELSE kept[i - Len(two)]
    <3>1. two \in Seq(MessageType) /\ kept \in Seq(MessageType)
      BY <1>5, <1>7
    <3> QED BY <3>1, ConcatProperties, Zenon
  <2>3. Len(kept) \in Nat
    BY <1>5
  <2>4. (two \o kept)[2] = two[2]
    BY <1>7, <2>2, <2>3
  <2> QED BY <1>7, <2>1, <2>2, <2>3, <2>4
<1>9. messages' = messages /\ failCount' = failCount
  BY <1>2 DEF engine
<1>10. Summaries' = Summaries
  BY <1>9 DEF Summaries, RetainFrom, BodyStart
<1>11. DraftInv'
  BY <1>2, <1>4, <1>8, <1>9, <1>10 DEF DraftInv
<1>12. RestOK' /\ ArchiveOK' /\ rows' = rows
  BY <1>1, <1>2, <1>8 DEF RestOK, ArchiveOK, engine, database, env
<1> QED BY <1>2, <1>9, <1>11, <1>12, SameStory

LEMMA AbandonKeepsStory ==
    ASSUME StoryInv, CompactionFails
    PROVE  StoryInv'
<1>1. RestOK /\ ArchiveOK /\ DraftInv
  BY StoryParts
<1>2. /\ Compacting /\ pc' = "run" /\ draft' = <<>> /\ failCount' = failCount + 1
      /\ UNCHANGED <<messages, turn, seqNo, paused, attachable, over, database, nextId, author>>
  BY DEF CompactionFails, Abandon, Compacting
<1>3. failCount' \in 0 .. MaxFailures
  BY <1>1, <1>2, StoreAssumption DEF RestOK, DraftInv
<1>4. RestOK' /\ ArchiveOK'
  BY <1>1, <1>2, <1>3 DEF RestOK, ArchiveOK, database
<1>5. DraftInv' /\ pc # "down" /\ rows' = rows /\ messages' = messages
  BY <1>2 DEF DraftInv, Compacting, database
<1> QED BY <1>4, <1>5, SameStory

(* The turns kept by a compaction are numbers.                                *)
LEMMA BoundsAreNumbers ==
    ASSUME messages \in Seq(MessageType), KeptTurns # {}
    PROVE  Min(KeptTurns) \in Nat /\ Max(KeptTurns) \in Nat
<1> DEFINE a == TurnsFrom(messages, Cardinality(UserTurns(SubSeq(draft, 3, Len(draft)))))
           f == [i \in a .. Len(messages) |-> NumberedTurn(messages, i)]
<1>1. KeptTurns = { NumberedTurn(messages, i) : i \in a .. Len(messages) }
  BY DEF KeptTurns
<1>2. a \in Nat
  BY TurnsBegin
<1> HIDE DEF a
<1>3. \A i \in a .. Len(messages) : NumberedTurn(messages, i) \in Nat
  BY <1>2, TurnsAreNumbers
<1>4. KeptTurns \subseteq Nat
  BY <1>1, <1>3
<1>5. KeptTurns = Range(f) /\ DOMAIN f = a .. Len(messages)
  BY <1>1 DEF Range
<1> HIDE DEF f
<1>6. IsFiniteSet(a .. Len(messages))
  BY <1>2, FS_Interval
<1>7. IsFiniteSet(KeptTurns)
  BY <1>5, <1>6, FiniteImage
<1> QED BY <1>4, <1>7, MinIsLeast, MaxIsGreatest

LEMMA RecordsKeepStory ==
    ASSUME StoryInv, EpochInv, IncrementEpoch \/ Archive \/ RecordBounds
    PROVE  StoryInv'
<1>1. /\ messages \in Seq(MessageType) /\ rows \subseteq RowType
      /\ RestOK /\ ArchiveOK /\ DraftInv
  BY StoryParts
<1>2. /\ Compacting /\ pc' \in {"archive", "bounds", "commit"}
      /\ UNCHANGED <<engine, draft, rows, env>>
  BY DEF IncrementEpoch, Archive, RecordBounds, Compacting
<1>3. RestOK' /\ messages' = messages /\ failCount' = failCount
  BY <1>1, <1>2 DEF RestOK, engine, env
<1>4. Summaries' = Summaries
  BY <1>3 DEF Summaries, RetainFrom, BodyStart
<1>5. DraftInv'
  BY <1>1, <1>2, <1>3, <1>4 DEF DraftInv, Compacting
<1>6. ArchiveOK'
  <2>1. CASE IncrementEpoch
    <3>1. epoch' = epoch + 1 /\ archive' = archive /\ retained' = retained /\ epoch \in Nat
      BY <2>1 DEF IncrementEpoch, EpochInv
    <3> QED BY <1>1, <3>1 DEF ArchiveOK
  <2>2. CASE Archive
    <3>1. /\ archive' = archive \cup { [epoch |-> epoch, row |-> r] : r \in rows }
          /\ epoch' = epoch /\ retained' = retained /\ epoch \in Nat
      BY <2>2 DEF Archive, EpochInv
    <3>2. epoch \in 1 .. epoch
      BY <2>2, <3>1 DEF Archive, EpochInv
    <3> QED BY <1>1, <3>1, <3>2 DEF ArchiveOK
  <2>3. CASE RecordBounds
    <3>1. KeptTurns # {} => Min(KeptTurns) \in Nat /\ Max(KeptTurns) \in Nat
      BY <1>1, BoundsAreNumbers
    <3>2. epoch \in 1 .. epoch /\ epoch \in Nat
      BY <2>3 DEF RecordBounds, EpochInv
    <3>3. \A k \in retained' : k.epoch \in 1 .. epoch /\ k.min \in Nat /\ k.max \in Nat
      BY <1>1, <2>3, <3>1, <3>2 DEF ArchiveOK, RecordBounds
    <3>4. archive' = archive /\ epoch' = epoch
      BY <2>3 DEF RecordBounds
    <3> QED BY <1>1, <3>3, <3>4 DEF ArchiveOK
  <2> QED BY <2>1, <2>2, <2>3
<1>7. pc # "down" /\ rows' = rows
  BY <1>2 DEF Compacting
<1> QED BY <1>3, <1>5, <1>6, <1>7, SameStory

(* The session is replaced, in the database and in memory.                    *)
LEMMA CommitKeepsStory ==
    ASSUME StoryInv, Commit \/ CommitUnread
    PROVE  StoryInv'
<1>1. RestOK /\ ArchiveOK /\ DraftInv
  BY StoryParts
<1>2. /\ pc = "commit" /\ pc' = "run" /\ HasUniqueKeys(Numbered(draft))
      /\ rows' = Numbered(draft) /\ messages' = draft /\ draft' = <<>>
      /\ UNCHANGED <<turn, seqNo, paused, attachable, archive, epoch, retained, nextId, author>>
      /\ over' \in {FALSE, over} /\ failCount' \in {0, failCount + 1}
  BY DEF Commit, CommitUnread, CommitSlice
<1>3. failCount < MaxFailures /\ Len(draft) >= 2 /\ draft \in Seq(MessageType)
  BY <1>1, <1>2 DEF DraftInv, Compacting, RestOK
<1>4. failCount' \in 0 .. MaxFailures
  BY <1>1, <1>2, <1>3, StoreAssumption DEF RestOK
<1>5. RestOK' /\ ArchiveOK'
  <2>1. draft' \in Seq(MessageType)
    BY <1>2
  <2>2. over' \in BOOLEAN
    BY <1>1, <1>2 DEF RestOK
  <2> QED BY <1>1, <1>2, <1>4, <2>1, <2>2 DEF RestOK, ArchiveOK
<1>6. /\ Numbered(draft) \subseteq RowType /\ Numbered(draft) # {} /\ IsFiniteSet(Numbered(draft))
      /\ { r.msg : r \in Numbered(draft) } = Range(draft)
  BY <1>3, EachHasItsRow
<1>7. KeysInv' /\ rows' \subseteq RowType
  BY <1>2, <1>6 DEF KeysInv
<1>8. StoredMessages' = Range(messages')
  BY <1>2, <1>6 DEF StoredMessages
<1>9. Agrees' /\ AwakeInv' /\ DraftInv'
  BY <1>2, <1>3, <1>8 DEF Agrees, AwakeInv, DraftInv, Compacting
<1>10. messages' \in Seq(MessageType)
  BY <1>2, <1>3
<1> QED BY <1>5, <1>7, <1>9, <1>10, StoryNext

(* The process ends, and comes back with what is stored.                      *)
LEMMA CrashKeepsStory ==
    ASSUME StoryInv, Crash
    PROVE  StoryInv'
<1>1. RestOK /\ ArchiveOK /\ KeysInv /\ rows \subseteq RowType
  BY StoryParts
<1>2. /\ pc' = "down" /\ messages' = <<>> /\ draft' = <<>> /\ turn' = 0 /\ seqNo' = 0
      /\ paused' = FALSE /\ attachable' = FALSE /\ over' = FALSE /\ failCount' = 0
      /\ UNCHANGED <<rows, archive, epoch, retained, nextId, author>>
  BY DEF Crash, database
<1>3. RestOK' /\ ArchiveOK'
  <2>1. draft' \in Seq(MessageType) /\ failCount' \in 0 .. MaxFailures
    BY <1>2, StoreAssumption
  <2> QED BY <1>1, <1>2, <2>1 DEF RestOK, ArchiveOK
<1>4. KeysInv' /\ Agrees' /\ AwakeInv' /\ DraftInv'
  BY <1>1, <1>2 DEF KeysInv, HasUniqueKeys, Agrees, AwakeInv, DraftInv, Compacting
<1>5. messages' \in Seq(MessageType) /\ rows' \subseteq RowType
  BY <1>1, <1>2
<1> QED BY <1>3, <1>4, <1>5, StoryNext

LEMMA ResumeKeepsStory ==
    ASSUME StoryInv, Resume
    PROVE  StoryInv'
<1>1. RestOK /\ ArchiveOK /\ KeysInv /\ rows \subseteq RowType
  BY StoryParts
<1>2. /\ pc' = "idle" /\ messages' = Stored /\ turn' = Max({ r.turn : r \in rows })
      /\ UNCHANGED <<seqNo, paused, attachable, over, failCount, draft, rows, archive,
                     epoch, retained, nextId, author>>
  BY DEF Resume, database, env
<1>3. Max({ r.turn : r \in rows }) \in Nat
  BY <1>1, LastTurnIsNumber DEF KeysInv
<1>4. /\ Stored \in Seq(MessageType) /\ Len(Stored) = Cardinality(rows)
      /\ Range(Stored) = StoredMessages
  BY <1>1, AllIsReadBack DEF KeysInv
<1>5. Cardinality(rows) # 0
  BY <1>1, FS_EmptySet DEF KeysInv
<1>6. RestOK' /\ ArchiveOK'
  BY <1>1, <1>2, <1>3 DEF RestOK, ArchiveOK
<1>7. StoredMessages' = StoredMessages /\ Range(messages') = StoredMessages
  BY <1>2, <1>4 DEF StoredMessages
<1>8. KeysInv' /\ Agrees' /\ AwakeInv' /\ DraftInv'
  BY <1>1, <1>2, <1>4, <1>5, <1>7
     DEF KeysInv, HasUniqueKeys, Agrees, AwakeInv, DraftInv, Compacting
<1>9. messages' \in Seq(MessageType) /\ rows' \subseteq RowType
  BY <1>1, <1>2, <1>4
<1> QED BY <1>6, <1>8, <1>9, StoryNext

LEMMA StoryStarts == Init => StoryInv
<1> SUFFICES ASSUME Init PROVE StoryInv
  OBVIOUS
<1>1. System \in MessageType /\ System.kind = "system"
  BY StoreAssumption DEF System, Message, MessageType, Kinds
<1>2. /\ messages = <<System>> /\ rows = {Row(0, 0, System)}
      /\ pc = "idle" /\ draft = <<>> /\ archive = {} /\ retained = {}
  BY DEF Init
<1>3. messages \in Seq(MessageType) /\ Len(messages) # 0 /\ Range(messages) = {System}
  BY <1>1, <1>2 DEF Range
<1>4. rows \subseteq RowType /\ StoredMessages = {System}
  BY <1>1, <1>2 DEF Row, RowType, StoredMessages
<1>5. RestOK /\ ArchiveOK
  <2>1. draft \in Seq(MessageType) /\ 0 \in 0 .. MaxFailures /\ 1 \in 1 .. (MaxMessages + 1)
    BY <1>2, StoreAssumption
  <2> QED BY <1>2, <2>1 DEF Init, RestOK, ArchiveOK
<1>6. KeysInv
  BY <1>2, FS_Singleton DEF KeysInv, HasUniqueKeys
<1>7. Agrees /\ DraftInv /\ AwakeInv
  BY <1>2, <1>3, <1>4 DEF Agrees, DraftInv, Compacting, AwakeInv
<1> QED BY <1>3, <1>4, <1>5, <1>6, <1>7, StoryParts

(* Every step keeps the story.                                                *)
LEMMA StorySteps == StoryInv /\ StoreInv /\ [Next]_vars => StoryInv'
<1> SUFFICES ASSUME StoryInv, StoreInv, [Next]_vars PROVE StoryInv'
  OBVIOUS
<1>1. CASE Prompt \/ RecordMessage \/ Approve
  BY <1>1, AMessageIsAdded, OneMoreKeepsStory
<1>2. CASE \/ Answer \/ MeasureAgain \/ Skip
           \/ \E tokens \in BOOLEAN : Measure(tokens)
           \/ \E attach \in BOOLEAN : EndCommand(attach)
  BY <1>2, TurnKeepsStory
<1>3. CASE Rebuild
  BY <1>3, RebuildKeepsStory
<1>4. CASE CompactionFails
  BY <1>4, AbandonKeepsStory
<1>5. CASE IncrementEpoch \/ Archive \/ RecordBounds
  BY <1>5, RecordsKeepStory DEF StoreInv
<1>6. CASE Commit \/ CommitUnread
  BY <1>6, CommitKeepsStory
<1>7. CASE Crash
  BY <1>7, CrashKeepsStory
<1>8. CASE Resume
  BY <1>8, ResumeKeepsStory
<1>9. CASE UNCHANGED vars
  BY <1>9 DEF vars, engine, database, env, StoryInv, RowsMatchMemory, TypeOK, StoredMessages,
              KeysInv, HasUniqueKeys, DraftInv, Compacting, Summaries, RetainFrom, BodyStart, AwakeInv
<1> QED BY <1>1, <1>2, <1>3, <1>4, <1>5, <1>6, <1>7, <1>8, <1>9 DEF Next

(* Memory and database tell the same story while the session grows, while a   *)
(* compaction fails or is cut at any of its steps, and after a restart        *)
(* (persist_message_alloc, compact_and_sync, resume_with_abort).  With it the *)
(* types of the state.                                                        *)
THEOREM MemoryAndRowsAgree == Spec => []RowsMatchMemory
<1>1. StoryInv => RowsMatchMemory
  BY DEF StoryInv
<1> QED BY <1>1, StoryStarts, StorySteps, StoreStarts, StoreSteps, PTL DEF Spec

(* No message is lost: one that leaves the table is in the archive            *)
(* (FRAMEWORK.md:201), and what a compaction was to summarise is told by its  *)
(* summary, the LLM's or the fallback.                                        *)
THEOREM EveryMessageIsKept == Spec => NoMessageIsLost
<1> DEFINE InDatabase ==
             \A m \in StoredMessages :
               m.kind # "refresh" =>
                 \/ m \in { r.msg : r \in rows' }
                 \/ \E a \in archive' : a.row.msg = m
           IsToldOf ==
             (pc = "commit" /\ pc' = "run" /\ messages' # messages) =>
               { messages[i].id : i \in BodyStart .. (RetainFrom - 1) }
                   \subseteq UNION { Told(m) : m \in Range(messages') }
<1>1. ASSUME RowsAreKept PROVE InDatabase
  BY <1>1 DEF RowsAreKept, StoredMessages
<1>2. ASSUME StoryInv, [Next]_vars PROVE IsToldOf
  <2> SUFFICES ASSUME pc = "commit", pc' = "run", messages' # messages
               PROVE  { messages[i].id : i \in BodyStart .. (RetainFrom - 1) }
                          \subseteq UNION { Told(m) : m \in Range(messages') }
    OBVIOUS
  <2>1. messages' = draft
    <3>1. CASE Commit \/ CommitUnread
      BY <3>1 DEF Commit, CommitUnread, CommitSlice
    <3>2. CASE CompactionFails
      BY <3>2 DEF CompactionFails, Abandon
    <3>3. CASE UNCHANGED vars
      BY <3>3 DEF vars, engine
    <3>4. ~(Prompt \/ RecordMessage \/ Approve \/ Answer \/ MeasureAgain \/ Skip \/ Rebuild
            \/ IncrementEpoch \/ Archive \/ RecordBounds \/ Resume)
      BY DEF Prompt, RecordMessage, Record, Approve, Answer, MeasureAgain, Skip, Rebuild,
             IncrementEpoch, Archive, RecordBounds, Resume
    <3>5. ~Crash /\ ~(\E tokens \in BOOLEAN : Measure(tokens))
          /\ ~(\E attach \in BOOLEAN : EndCommand(attach))
      BY DEF Crash, Measure, EndCommand
    <3> QED BY <1>2, <3>1, <3>2, <3>3, <3>4, <3>5 DEF Next
  <2>2. messages \in Seq(MessageType) /\ Len(messages) # 0 /\ draft \in Seq(MessageType)
    BY <1>2, StoryParts DEF AwakeInv, RestOK
  <2>3. PICK covers \in Summaries : Len(draft) >= 2 /\ draft[2] = Refresh(covers)
    BY <1>2, StoryParts DEF DraftInv, Compacting
  <2>4. { messages[i].id : i \in BodyStart .. (RetainFrom - 1) } \subseteq covers
    BY <2>2, SummariesAreTyped
  <2>5. draft[2] \in Range(messages')
    BY <2>1, <2>2, <2>3 DEF Range
  <2>6. covers \subseteq Told(draft[2])
    BY <2>3 DEF Told, Refresh, Message
  <2> QED BY <2>4, <2>5, <2>6
<1>3. ASSUME StoryInv, [Next]_vars, [RowsAreKept]_vars PROVE [InDatabase /\ IsToldOf]_vars
  <2> HIDE DEF InDatabase, IsToldOf
  <2> QED BY <1>1, <1>2, <1>3
<1> QED BY <1>3, StoryStarts, StorySteps, StoreStarts, StoreSteps, NoRowIsLost, PTL
       DEF Spec, NoMessageIsLost

-----------------------------------------------------------------------------
(* The order of the rows                                                      *)

Msgs(rs) == { r.msg : r \in rs }

(* Neither a hidden prompt nor a memory attachment has or had a row.          *)
Clean == \A m \in Msgs(rows) \cup { a.row.msg : a \in archive } : m.kind \notin {"nudge", "memory"}

(* The key (u, v) is at most (t, s).                                          *)
Upto(u, v, t, s) == u < t \/ (u = t /\ v <= s)

(* What the author's prompts and the replies alone would be numbered.         *)
Prompts(ms, i) == Cardinality({ j \in 1 .. i : ms[j].kind = "prompt" })
Replies(ms, i) ==
    Cardinality({ j \in 1 .. i : ms[j].kind = "reply" /\ \A k \in j .. i : ms[k].kind # "prompt" })

LEMMA CountsAreNumbers ==
    ASSUME NEW ms, NEW i \in Nat
    PROVE  Prompts(ms, i) \in Nat /\ Replies(ms, i) \in Nat
<1>1. IsFiniteSet(1 .. i)
  BY FS_Interval
<1>2. /\ IsFiniteSet({ j \in 1 .. i : ms[j].kind = "prompt" })
      /\ IsFiniteSet({ j \in 1 .. i : ms[j].kind = "reply" /\ \A k \in j .. i : ms[k].kind # "prompt" })
  BY <1>1, FS_Subset
<1> QED BY <1>2, FS_CardinalityType DEF Prompts, Replies

(* How the numbers go on with the next message.                               *)
LEMMA CountsGoOn ==
    ASSUME NEW ms, NEW i \in Nat
    PROVE  /\ Prompts(ms, i + 1) = IF ms[i + 1].kind = "prompt" THEN Prompts(ms, i) + 1 ELSE Prompts(ms, i)
           /\ Replies(ms, i + 1) = IF ms[i + 1].kind = "prompt" THEN 0
                                   ELSE IF ms[i + 1].kind = "reply" THEN Replies(ms, i) + 1
                                   ELSE Replies(ms, i)
<1> DEFINE P(n) == { j \in 1 .. n : ms[j].kind = "prompt" }
           R(n) == { j \in 1 .. n : ms[j].kind = "reply" /\ \A k \in j .. n : ms[k].kind # "prompt" }
<1>1. IsFiniteSet(1 .. i)
  BY FS_Interval
<1>2. IsFiniteSet(P(i)) /\ IsFiniteSet(R(i)) /\ i + 1 \notin P(i) /\ i + 1 \notin R(i)
  BY <1>1, FS_Subset
<1>3. \A j \in 1 .. (i + 1) : j \in 1 .. i \/ j = i + 1
  OBVIOUS
<1>4. 1 .. i \subseteq 1 .. (i + 1) /\ i + 1 \in 1 .. (i + 1)
  OBVIOUS
<1>5. P(i + 1) = IF ms[i + 1].kind = "prompt" THEN P(i) \cup {i + 1} ELSE P(i)
  BY <1>3, <1>4
<1>6. CASE ms[i + 1].kind = "prompt"
  <2>1. R(i + 1) = {}
    <3> SUFFICES ASSUME NEW j \in 1 .. (i + 1) PROVE \E k \in j .. (i + 1) : ms[k].kind = "prompt"
      OBVIOUS
    <3>1. i + 1 \in j .. (i + 1)
      OBVIOUS
    <3> QED BY <1>6, <3>1
  <2>2. Cardinality(R(i + 1)) = 0
    BY <2>1, FS_EmptySet
  <2>3. Cardinality(P(i + 1)) = Cardinality(P(i)) + 1
    BY <1>2, <1>5, <1>6, FS_AddElement
  <2> QED BY <1>6, <2>2, <2>3 DEF Prompts, Replies
<1>7. CASE ms[i + 1].kind # "prompt"
  <2>1. \A j \in 1 .. i : j \in R(i + 1) <=> j \in R(i)
    <3> SUFFICES ASSUME NEW j \in 1 .. i
                 PROVE  (\A k \in j .. (i + 1) : ms[k].kind # "prompt")
                        <=> (\A k \in j .. i : ms[k].kind # "prompt")
      BY <1>4
    <3>1. \A k \in j .. (i + 1) : k \in j .. i \/ k = i + 1
      OBVIOUS
    <3>2. j .. i \subseteq j .. (i + 1)
      OBVIOUS
    <3> QED BY <1>7, <3>1, <3>2
  <2>2. i + 1 \in R(i + 1) <=> ms[i + 1].kind = "reply"
    <3>1. \A k \in (i + 1) .. (i + 1) : k = i + 1
      OBVIOUS
    <3> QED BY <1>4, <1>7, <3>1
  <2>3. R(i + 1) \subseteq 1 .. (i + 1) /\ R(i) \subseteq 1 .. i
    OBVIOUS
  <2>4. Cardinality(P(i + 1)) = Cardinality(P(i))
    BY <1>5, <1>7
  <2> HIDE DEF R
  <2>5. R(i + 1) = IF ms[i + 1].kind = "reply" THEN R(i) \cup {i + 1} ELSE R(i)
    BY <1>3, <2>1, <2>2, <2>3
  <2>6. Cardinality(R(i + 1)) = IF ms[i + 1].kind = "reply" THEN Cardinality(R(i)) + 1 ELSE Cardinality(R(i))
    BY <1>2, <2>5, FS_AddElement
  <2> QED BY <1>7, <2>4, <2>6 DEF Prompts, Replies, R
<1> QED BY <1>6, <1>7

(* Equal beginnings have equal numbers.                                       *)
LEMMA CountsAgree ==
    ASSUME NEW ms, NEW ns, NEW i \in Nat, \A j \in 1 .. i : ms[j] = ns[j]
    PROVE  Prompts(ms, i) = Prompts(ns, i) /\ Replies(ms, i) = Replies(ns, i)
<1>1. { j \in 1 .. i : ms[j].kind = "prompt" } = { j \in 1 .. i : ns[j].kind = "prompt" }
  OBVIOUS
<1>2. \A j \in 1 .. i : \A k \in j .. i : k \in 1 .. i
  OBVIOUS
<1>3. { j \in 1 .. i : ms[j].kind = "reply" /\ \A k \in j .. i : ms[k].kind # "prompt" }
      = { j \in 1 .. i : ns[j].kind = "reply" /\ \A k \in j .. i : ns[k].kind # "prompt" }
  BY <1>2
<1> QED BY <1>1, <1>3 DEF Prompts, Replies

(* Memory attachments have no number of their own.                            *)
LEMMA CountsStay ==
    ASSUME NEW ms, NEW n \in Nat, NEW i \in 0 .. n, \A k \in (i + 1) .. n : ms[k].kind = "memory"
    PROVE  Prompts(ms, n) = Prompts(ms, i) /\ Replies(ms, n) = Replies(ms, i)
<1>1. \A j \in 1 .. n : j \in 1 .. i \/ j \in (i + 1) .. n
  OBVIOUS
<1>2. 1 .. i \subseteq 1 .. n
  OBVIOUS
<1>3. { j \in 1 .. n : ms[j].kind = "prompt" } = { j \in 1 .. i : ms[j].kind = "prompt" }
  BY <1>1, <1>2
<1>4. ASSUME NEW j \in 1 .. i
      PROVE  (\A k \in j .. n : ms[k].kind # "prompt") <=> (\A k \in j .. i : ms[k].kind # "prompt")
  <2>1. j .. i \subseteq j .. n /\ \A k \in j .. n : k \in j .. i \/ k \in (i + 1) .. n
    OBVIOUS
  <2> QED BY <2>1
<1>5. { j \in 1 .. n : ms[j].kind = "reply" /\ \A k \in j .. n : ms[k].kind # "prompt" }
      = { j \in 1 .. i : ms[j].kind = "reply" /\ \A k \in j .. i : ms[k].kind # "prompt" }
  BY <1>1, <1>2, <1>4
<1> QED BY <1>3, <1>5 DEF Prompts, Replies

(* The keys of rows whose messages neither a hidden prompt nor a memory       *)
(* attachment sent: the system message and the summary have those of turn 0,  *)
(* a prompt begins its turn.                                                  *)
KeyOK(r) ==
    \/ r = Row(0, 0, System)
    \/ r.msg.kind = "refresh" /\ r.turn = 0 /\ r.seq = 1
    \/ r.msg.kind = "prompt" /\ r.turn >= 1 /\ r.seq = 0
    \/ r.msg.kind = "reply" /\ r.turn >= 1 /\ r.seq >= 1

Spoken == {"prompt", "reply"}

(* No row of a prompt lies between two rows.                                  *)
NoPromptBetween(rs, r, q) ==
    \A x \in rs : (x.msg.kind = "prompt" /\ Precedes(r, x)) => ~Precedes(x, q)

(* The rows by themselves: each message has one, and replies follow what has  *)
(* the same author, as long as no prompt comes in between.                    *)
RowsOK(rs) ==
    /\ Row(0, 0, System) \in rs /\ \A r \in rs : KeyOK(r)
    /\ \A r, q \in rs : r.msg = q.msg => r = q
    /\ \A r, q \in rs :
          (/\ Precedes(r, q) /\ q.msg.kind = "reply" /\ r.msg.kind \in Spoken
           /\ NoPromptBetween(rs, r, q)) => r.msg.owner = q.msg.owner

(* Which messages a transcript has, and where.                                *)
PlacesOK(ms, rs) ==
    /\ \A r \in rs : \E i \in 1 .. Len(ms) : ms[i] = r.msg
    /\ \A i \in 1 .. Len(ms) : ms[i].kind \notin {"prompt", "memory"} => ms[i] \in Msgs(rs)
    /\ Len(ms) # 0 /\ ms[1] = System
    /\ \A i \in 1 .. Len(ms) : (ms[i].kind = "system" => i = 1) /\ (ms[i].kind = "refresh" => i = 2)
    /\ \A i, j \in 1 .. Len(ms) : ms[i] = ms[j] => i = j

(* The rows have the order of the transcript.                                 *)
InOrder(ms, rs) ==
    \A i, j \in 1 .. Len(ms) : \A r, q \in rs :
        (i < j /\ r.msg = ms[i] /\ q.msg = ms[j]) => Precedes(r, q)

(* A prompt that has no row has led to nothing.                               *)
NoneAnswered(ms, rs) ==
    \A i, j \in 1 .. Len(ms) :
        (i < j /\ ms[i].kind = "prompt" /\ ms[i] \notin Msgs(rs) /\ ms[j].kind = "reply")
            => \E k \in (i + 1) .. j : ms[k].kind = "prompt"

(* No key is less than what its message would be numbered.                    *)
KeysCover(ms, rs) ==
    \A i \in 1 .. Len(ms) : \A r \in rs :
        r.msg = ms[i] => Upto(Prompts(ms, i), Replies(ms, i), r.turn, r.seq)

ListOK(ms, rs) == PlacesOK(ms, rs) /\ InOrder(ms, rs) /\ NoneAnswered(ms, rs) /\ KeysCover(ms, rs)

(* Rows with keys of their own are in one line.                               *)
LEMMA KeysAreInLine ==
    ASSUME NEW rs, rs \subseteq RowType
    PROVE  /\ \A r \in rs : ~Precedes(r, r)
           /\ \A r, q, x \in rs : Precedes(r, q) /\ Precedes(q, x) => Precedes(r, x)
           /\ \A r, q \in rs : Precedes(r, q) => ~Precedes(q, r)
           /\ HasUniqueKeys(rs) => \A r, q \in rs : r = q \/ Precedes(r, q) \/ Precedes(q, r)
<1>1. \A r \in rs : r.turn \in Nat /\ r.seq \in Nat
  BY DEF RowType
<1> QED BY <1>1 DEF Precedes, HasUniqueKeys

(* What a restart reads back is the transcript, without what has no row.      *)
LEMMA ReadBackInOrder ==
    ASSUME messages \in Seq(MessageType), rows \subseteq RowType, KeysInv,
           RowsOK(rows), PlacesOK(messages, rows), InOrder(messages, rows)
    PROVE  Stored = Kept(messages, StoredMessages)
<1> DEFINE K == StoredMessages
           k == Kept(messages, K)
           n == Len(k)
<1>1. PICK e : Places(messages, K, e)
  BY KeptPlaces
<1>2. k \in Seq(MessageType \cap K) /\ n \in Nat /\ k = [p \in 1 .. n |-> k[p]]
  <2>1. k \in Seq(MessageType \cap K)
    BY KeptType
  <2> HIDE DEF k
  <2> QED BY <2>1
<1>3. \A p \in 1 .. n : k[p] \in K /\ e[p] \in 1 .. Len(messages) /\ k[p] = messages[e[p]]
  <2> HIDE DEF k
  <2>1. \A p \in 1 .. n : k[p] \in K
    BY <1>2
  <2> QED BY <1>1, <2>1 DEF Places, k
<1>4. \A p, o \in 1 .. n : p < o => e[p] < e[o]
  BY <1>1 DEF Places
<1>5. \A j \in 1 .. Len(messages) : messages[j] \in K => \E p \in 1 .. n : e[p] = j
  BY <1>1 DEF Places
<1> HIDE DEF k, n
<1> DEFINE R(p) == CHOOSE r \in rows : r.msg = k[p]
<1>6. \A p \in 1 .. n : R(p) \in rows /\ R(p).msg = k[p] /\ R(p).msg = messages[e[p]]
  BY <1>3 DEF StoredMessages
<1> HIDE DEF R
<1>7. \A p, o \in 1 .. n : p < o => Precedes(R(p), R(o))
  BY <1>3, <1>4, <1>6 DEF InOrder
<1>8. ASSUME NEW r \in rows PROVE \E p \in 1 .. n : R(p) = r
  <2>1. PICK j \in 1 .. Len(messages) : messages[j] = r.msg
    BY DEF PlacesOK
  <2>2. PICK p \in 1 .. n : e[p] = j
    BY <1>5, <2>1 DEF StoredMessages
  <2> QED BY <1>6, <2>1, <2>2 DEF RowsOK
<1> DEFINE B(p) == { q \in rows : Precedes(q, R(p)) }
<1>9. \A p, o \in 1 .. n : R(o) \in B(p) <=> o < p
  <2> SUFFICES ASSUME NEW p \in 1 .. n, NEW o \in 1 .. n
               PROVE  Precedes(R(o), R(p)) <=> o < p
    BY <1>6
  <2>1. o < p \/ o = p \/ p < o
    BY <1>2
  <2> QED BY <1>6, <1>7, <2>1, KeysAreInLine
<1>10. \A p \in 1 .. n : \A r \in B(p) : \E o \in 1 .. n : o < p /\ r = R(o)
  BY <1>8, <1>9
<1> DEFINE S == { p \in Nat : p + 1 \in 1 .. n => IsFiniteSet(B(p + 1)) /\ Cardinality(B(p + 1)) = p }
<1>11. 0 \in S
  <2>1. 1 \in 1 .. n => B(1) = {}
    <3> HIDE DEF B
    <3> QED BY <1>2, <1>10
  <2>2. 1 \in 1 .. n => IsFiniteSet(B(1)) /\ Cardinality(B(1)) = 0
    <3> HIDE DEF B
    <3> QED BY <2>1, FS_EmptySet
  <2> HIDE DEF B
  <2> QED BY <2>2
<1>12. ASSUME NEW p \in Nat, p \in S PROVE p + 1 \in S
  <2> SUFFICES ASSUME p + 2 \in 1 .. n
               PROVE  IsFiniteSet(B(p + 2)) /\ Cardinality(B(p + 2)) = p + 1
    <3> HIDE DEF B
    <3>1. (p + 1) + 1 = p + 2
      OBVIOUS
    <3> QED BY <3>1
  <2> HIDE DEF B
  <2>1. p + 1 \in 1 .. n /\ p + 1 < p + 2
    BY <1>2
  <2>2. IsFiniteSet(B(p + 1)) /\ Cardinality(B(p + 1)) = p
    BY <1>12, <2>1
  <2>3. R(p + 1) \notin B(p + 1) /\ R(p + 1) \in B(p + 2)
    BY <1>9, <2>1
  <2>4. \A r \in B(p + 2) : r \in B(p + 1) \/ r = R(p + 1)
    <3> SUFFICES ASSUME NEW r \in B(p + 2) PROVE r \in B(p + 1) \/ r = R(p + 1)
      OBVIOUS
    <3>1. PICK o \in 1 .. n : o < p + 2 /\ r = R(o)
      BY <1>10
    <3>2. o < p + 1 \/ o = p + 1
      BY <1>2, <3>1
    <3> QED BY <1>9, <2>1, <3>1, <3>2
  <2>5. \A r \in B(p + 1) : r \in B(p + 2)
    <3> SUFFICES ASSUME NEW r \in B(p + 1) PROVE r \in B(p + 2)
      OBVIOUS
    <3>1. PICK o \in 1 .. n : o < p + 1 /\ r = R(o)
      BY <1>10, <2>1
    <3>2. o < p + 2
      BY <1>2, <3>1
    <3> QED BY <1>9, <3>1, <3>2
  <2>6. B(p + 2) = B(p + 1) \cup {R(p + 1)}
    BY <2>3, <2>4, <2>5
  <2> QED BY <2>2, <2>3, <2>6, FS_AddElement
<1> HIDE DEF S
<1>13. Nat \subseteq S
  BY <1>11, <1>12, SetInduction
<1>14. ASSUME NEW p \in 1 .. n PROVE Before(R(p)) = p - 1 /\ IsFiniteSet(B(p))
  <2>1. p - 1 \in Nat /\ (p - 1) + 1 = p
    BY <1>2
  <2>2. IsFiniteSet(B(p)) /\ Cardinality(B(p)) = p - 1
    <3> HIDE DEF B
    <3> QED BY <1>13, <2>1 DEF S
  <2> QED BY <2>2 DEF Before
<1>15. Cardinality(rows) = n
  <2>1. n # 0
    <3>1. PICK r : r \in rows
      BY DEF KeysInv
    <3> QED BY <1>2, <1>8, <3>1
  <2>2. n \in 1 .. n /\ Before(R(n)) = n - 1 /\ IsFiniteSet(B(n)) /\ Cardinality(B(n)) = n - 1
    <3>1. n \in 1 .. n
      BY <1>2, <2>1
    <3> QED BY <1>14, <3>1 DEF Before
  <2> HIDE DEF B
  <2>3. rows = B(n) \cup {R(n)}
    <3>1. B(n) \subseteq rows
      BY DEF B
    <3>2. R(n) \in rows
      BY <1>6, <2>2
    <3>3. ASSUME NEW r \in rows PROVE r \in B(n) \/ r = R(n)
      <4>1. PICK o \in 1 .. n : r = R(o)
        BY <1>8
      <4>2. o < n \/ o = n
        BY <1>2
      <4> QED BY <1>9, <2>2, <4>1, <4>2
    <3> QED BY <3>1, <3>2, <3>3
  <2>4. R(n) \notin B(n)
    BY <1>2, <1>9, <2>2
  <2>5. Cardinality(rows) = (n - 1) + 1
    BY <2>2, <2>3, <2>4, FS_AddElement
  <2> QED BY <1>2, <2>5
<1>16. ASSUME NEW p \in 1 .. n PROVE (CHOOSE r \in rows : Before(r) = p - 1).msg = k[p]
  <2>1. ASSUME NEW r \in rows, Before(r) = p - 1 PROVE r = R(p)
    <3>1. PICK o \in 1 .. n : r = R(o)
      BY <1>8
    <3>2. Before(R(o)) = o - 1
      BY <1>14
    <3>3. o = p
      BY <1>2, <2>1, <3>1, <3>2
    <3> QED BY <3>1, <3>3
  <2>2. R(p) \in rows /\ Before(R(p)) = p - 1
    BY <1>6, <1>14
  <2>3. (CHOOSE r \in rows : Before(r) = p - 1) = R(p)
    BY <2>1, <2>2
  <2> QED BY <1>6, <2>3
<1>17. Stored = [p \in 1 .. n |-> k[p]]
  BY <1>15, <1>16 DEF Stored
<1> QED BY <1>2, <1>17 DEF k

-----------------------------------------------------------------------------
(* A turn at work: its keys are past all others, what its author's prompt led *)
(* to is what follows the last prompt, and the last message but attachments   *)
(* has a row.                                                                 *)
ActiveOK(ms, rs, t, s, a) ==
    /\ t >= 1
    /\ \A r \in rs : Upto(r.turn, r.seq, t, s)
    /\ \A r \in rs :
          (/\ r.msg.kind \in Spoken
           /\ \A x \in rs : x.msg.kind = "prompt" => ~Precedes(r, x)) => r.msg.owner = a
    /\ \E i \in 1 .. Len(ms) : ms[i] \in Msgs(rs) /\ \A k \in (i + 1) .. Len(ms) : ms[k].kind = "memory"

LEMMA RowParts ==
    ASSUME NEW t \in Nat, NEW s \in Nat, NEW m \in MessageType
    PROVE  Row(t, s, m) \in RowType /\ Row(t, s, m).turn = t /\ Row(t, s, m).seq = s /\ Row(t, s, m).msg = m
BY DEF Row, RowType

(* A prompt gets the first row of a new turn.                                 *)
LEMMA RowsGetPrompt ==
    ASSUME NEW rs, rs \subseteq RowType, RowsOK(rs),
           NEW m \in MessageType, m.kind = "prompt", \A r \in rs : r.msg # m,
           NEW t \in Nat, \A r \in rs : r.turn < t
    PROVE  RowsOK(rs \cup {Row(t, 0, m)})
<1> DEFINE w == Row(t, 0, m)
           new == rs \cup {w}
<1>1. w \in RowType /\ w.turn = t /\ w.seq = 0 /\ w.msg = m
  BY RowParts
<1>2. \A r \in rs : r.turn \in Nat /\ r.seq \in Nat
  BY DEF RowType
<1>3. Row(0, 0, System) \in rs /\ \A r \in rs : KeyOK(r)
  BY DEF RowsOK
<1>4. t >= 1
  BY <1>2, <1>3
<1>5. KeyOK(w)
  BY <1>1, <1>4 DEF KeyOK
<1>6. \A r \in rs : ~Precedes(w, r)
  BY <1>1, <1>2 DEF Precedes
<1>7. ~Precedes(w, w)
  BY <1>1 DEF Precedes
<1> HIDE DEF w
<1>8. \A r, q \in new : r.msg = q.msg => r = q
  BY <1>1 DEF RowsOK
<1>9. ASSUME NEW r \in new, NEW q \in new, Precedes(r, q), q.msg.kind = "reply",
             r.msg.kind \in Spoken, NoPromptBetween(new, r, q)
      PROVE  r.msg.owner = q.msg.owner
  <2>1. q \in rs /\ r \in rs
    BY <1>1, <1>6, <1>7, <1>9
  <2>2. NoPromptBetween(rs, r, q)
    BY <1>9 DEF NoPromptBetween
  <2> QED BY <1>9, <2>1, <2>2 DEF RowsOK
<1> QED BY <1>3, <1>5, <1>8, <1>9 DEF RowsOK, w

(* A reply gets a row past all others.                                        *)
LEMMA RowsGetReply ==
    ASSUME NEW rs, rs \subseteq RowType, RowsOK(rs),
           NEW m \in MessageType, m.kind = "reply", \A r \in rs : r.msg # m,
           NEW t \in Nat, NEW s \in Nat, t >= 1, s >= 1,
           \A r \in rs : Precedes(r, Row(t, s, m)),
           \A r \in rs :
               (/\ r.msg.kind \in Spoken
                /\ \A x \in rs : x.msg.kind = "prompt" => ~Precedes(r, x)) => r.msg.owner = m.owner
    PROVE  RowsOK(rs \cup {Row(t, s, m)})
<1> DEFINE w == Row(t, s, m)
           new == rs \cup {w}
<1>1. w \in RowType /\ w.turn = t /\ w.seq = s /\ w.msg = m
  BY DEF Row, RowType
<1>2. \A r \in rs : Precedes(r, w)
  OBVIOUS
<1> HIDE DEF w
<1>3. Row(0, 0, System) \in rs /\ \A r \in rs : KeyOK(r)
  BY DEF RowsOK
<1>4. KeyOK(w)
  BY <1>1 DEF KeyOK
<1>5. new \subseteq RowType
  BY <1>1
<1>6. \A r \in new : ~Precedes(w, r)
  BY <1>2, <1>5, KeysAreInLine
<1>7. \A r, q \in new : r.msg = q.msg => r = q
  BY <1>1 DEF RowsOK
<1>8. ASSUME NEW r \in new, NEW q \in new, Precedes(r, q), q.msg.kind = "reply",
             r.msg.kind \in Spoken, NoPromptBetween(new, r, q)
      PROVE  r.msg.owner = q.msg.owner
  <2>1. r \in rs
    BY <1>6, <1>8
  <2>2. CASE q \in rs
    <3>1. NoPromptBetween(rs, r, q)
      BY <1>8 DEF NoPromptBetween
    <3> QED BY <1>8, <2>1, <2>2, <3>1 DEF RowsOK
  <2>3. CASE q = w
    <3>1. \A x \in rs : x.msg.kind = "prompt" => ~Precedes(r, x)
      BY <1>2, <1>8, <2>3 DEF NoPromptBetween
    <3> QED BY <1>1, <1>8, <2>1, <2>3, <3>1
  <2> QED BY <2>2, <2>3
<1> QED BY <1>3, <1>4, <1>7, <1>8 DEF RowsOK, w

(* A message that comes last, and what was there before.                      *)
LEMMA AppendAt ==
    ASSUME NEW T, NEW ms \in Seq(T), NEW m \in T
    PROVE  LET new == Append(ms, m)
           IN  /\ new \in Seq(T) /\ Len(new) = Len(ms) + 1 /\ Len(ms) \in Nat
               /\ \A i \in 1 .. Len(ms) : new[i] = ms[i] /\ i \in 1 .. Len(new)
               /\ new[Len(ms) + 1] = m /\ Len(ms) + 1 \in 1 .. Len(new)
               /\ \A i \in 1 .. Len(new) : i \in 1 .. Len(ms) \/ i = Len(ms) + 1
OBVIOUS

(* A new message, with its row or without, keeps the places of the others.    *)
LEMMA PlacesGrow ==
    ASSUME NEW ms \in Seq(MessageType), NEW rs, PlacesOK(ms, rs),
           NEW m \in MessageType, m.kind \in {"prompt", "reply", "memory"},
           \A i \in 1 .. Len(ms) : ms[i] # m,
           NEW new, rs \subseteq new, \A r \in new : r \in rs \/ r.msg = m,
           m.kind = "reply" => m \in Msgs(new)
    PROVE  PlacesOK(Append(ms, m), new)
<1> DEFINE n == Len(ms)
           q == Append(ms, m)
<1>1. /\ q \in Seq(MessageType) /\ Len(q) = n + 1 /\ n \in Nat
      /\ \A i \in 1 .. n : q[i] = ms[i] /\ i \in 1 .. Len(q)
      /\ q[n + 1] = m /\ n + 1 \in 1 .. Len(q)
      /\ \A i \in 1 .. Len(q) : i \in 1 .. n \/ i = n + 1
  BY AppendAt
<1> HIDE DEF q
<1>2. Msgs(rs) \subseteq Msgs(new)
  BY DEF Msgs
<1>3. \A r \in new : \E i \in 1 .. Len(q) : q[i] = r.msg
  BY <1>1 DEF PlacesOK
<1>4. \A i \in 1 .. Len(q) : q[i].kind \notin {"prompt", "memory"} => q[i] \in Msgs(new)
  BY <1>1, <1>2 DEF PlacesOK
<1>5. Len(q) # 0 /\ q[1] = System
  <2>1. n # 0 /\ 1 \in 1 .. n
    BY <1>1 DEF PlacesOK
  <2> QED BY <1>1, <2>1 DEF PlacesOK
<1>6. \A i \in 1 .. Len(q) : (q[i].kind = "system" => i = 1) /\ (q[i].kind = "refresh" => i = 2)
  BY <1>1 DEF PlacesOK
<1>7. \A i, j \in 1 .. Len(q) : q[i] = q[j] => i = j
  BY <1>1 DEF PlacesOK
<1> QED BY <1>3, <1>4, <1>5, <1>6, <1>7 DEF PlacesOK, q

(* A message without a row, a prompt or an attachment, keeps the order.       *)
LEMMA ListGrows ==
    ASSUME NEW ms \in Seq(MessageType), NEW rs, ListOK(ms, rs),
           NEW m \in MessageType, m.kind \in {"prompt", "memory"},
           \A i \in 1 .. Len(ms) : ms[i] # m, \A r \in rs : r.msg # m
    PROVE  ListOK(Append(ms, m), rs)
<1> DEFINE n == Len(ms)
           q == Append(ms, m)
<1>1. /\ q \in Seq(MessageType) /\ Len(q) = n + 1 /\ n \in Nat
      /\ \A i \in 1 .. n : q[i] = ms[i] /\ i \in 1 .. Len(q)
      /\ q[n + 1] = m /\ n + 1 \in 1 .. Len(q)
      /\ \A i \in 1 .. Len(q) : i \in 1 .. n \/ i = n + 1
  BY AppendAt
<1>2. PlacesOK(q, rs)
  <2>1. PlacesOK(ms, rs)
    BY DEF ListOK
  <2> QED BY <2>1, PlacesGrow
<1> HIDE DEF q
<1>3. InOrder(q, rs)
  BY <1>1 DEF ListOK, InOrder
<1>4. NoneAnswered(q, rs)
  <2> SUFFICES ASSUME NEW i \in 1 .. Len(q), NEW j \in 1 .. Len(q), i < j,
                      q[i].kind = "prompt", q[i] \notin Msgs(rs), q[j].kind = "reply"
               PROVE  \E k \in (i + 1) .. j : q[k].kind = "prompt"
    BY DEF NoneAnswered
  <2>1. j \in 1 .. n /\ i \in 1 .. n
    BY <1>1
  <2>2. PICK k \in (i + 1) .. j : ms[k].kind = "prompt"
    BY <1>1, <2>1 DEF ListOK, NoneAnswered
  <2>3. k \in 1 .. n
    BY <2>1, <2>2
  <2> QED BY <1>1, <2>2, <2>3
<1>5. KeysCover(q, rs)
  <2> SUFFICES ASSUME NEW i \in 1 .. Len(q), NEW r \in rs, r.msg = q[i]
               PROVE  Upto(Prompts(q, i), Replies(q, i), r.turn, r.seq)
    BY DEF KeysCover
  <2>1. i \in 1 .. n /\ q[i] = ms[i]
    BY <1>1
  <2>2. \A j \in 1 .. i : q[j] = ms[j]
    BY <1>1, <2>1
  <2>3. Prompts(q, i) = Prompts(ms, i) /\ Replies(q, i) = Replies(ms, i)
    BY <2>1, <2>2, CountsAgree
  <2> QED BY <2>1, <2>3 DEF ListOK, KeysCover
<1> QED BY <1>2, <1>3, <1>4, <1>5 DEF ListOK, q

(* So does a message whose row is past all others, when its key covers its    *)
(* number and, for a reply, no prompt without a row is waiting.               *)
LEMMA ListGetsRow ==
    ASSUME NEW ms \in Seq(MessageType), NEW rs, ListOK(ms, rs),
           NEW m \in MessageType, m.kind \in Spoken,
           \A i \in 1 .. Len(ms) : ms[i] # m, \A r \in rs : r.msg # m,
           NEW t \in Nat, NEW s \in Nat, \A r \in rs : Precedes(r, Row(t, s, m)),
           Upto(Prompts(Append(ms, m), Len(ms) + 1), Replies(Append(ms, m), Len(ms) + 1), t, s),
           m.kind = "reply" =>
               \A i \in 1 .. Len(ms) : (ms[i].kind = "prompt" /\ ms[i] \notin Msgs(rs))
                                           => \E k \in (i + 1) .. Len(ms) : ms[k].kind = "prompt"
    PROVE  ListOK(Append(ms, m), rs \cup {Row(t, s, m)})
<1> DEFINE n == Len(ms)
           q == Append(ms, m)
           w == Row(t, s, m)
           new == rs \cup {w}
<1>1. /\ q \in Seq(MessageType) /\ Len(q) = n + 1 /\ n \in Nat
      /\ \A i \in 1 .. n : q[i] = ms[i] /\ i \in 1 .. Len(q)
      /\ q[n + 1] = m /\ n + 1 \in 1 .. Len(q)
      /\ \A i \in 1 .. Len(q) : i \in 1 .. n \/ i = n + 1
  BY AppendAt
<1>2. w.turn = t /\ w.seq = s /\ w.msg = m /\ \A r \in rs : Precedes(r, w)
  BY RowParts
<1>3. Upto(Prompts(q, n + 1), Replies(q, n + 1), t, s)
  OBVIOUS
<1> HIDE DEF w
<1>4. PlacesOK(q, new)
  <2>1. PlacesOK(ms, rs)
    BY DEF ListOK
  <2>2. rs \subseteq new /\ \A r \in new : r \in rs \/ r.msg = m
    BY <1>2
  <2>3. m \in Msgs(new)
    BY <1>2 DEF Msgs
  <2>4. m.kind \in {"prompt", "reply", "memory"}
    BY DEF Spoken
  <2> HIDE DEF new
  <2> QED BY <2>1, <2>2, <2>3, <2>4, PlacesGrow
<1> HIDE DEF q
<1>5. InOrder(q, new)
  <2> SUFFICES ASSUME NEW i \in 1 .. Len(q), NEW j \in 1 .. Len(q), NEW r \in new, NEW x \in new,
                      i < j, r.msg = q[i], x.msg = q[j]
               PROVE  Precedes(r, x)
    BY DEF InOrder
  <2>1. i \in 1 .. n /\ q[i] = ms[i]
    BY <1>1
  <2>2. r \in rs
    BY <1>2, <2>1
  <2>3. CASE j \in 1 .. n
    <3>1. q[j] = ms[j] /\ x \in rs
      BY <1>1, <1>2, <2>3
    <3> QED BY <2>1, <2>2, <2>3, <3>1 DEF ListOK, InOrder
  <2>4. CASE j = n + 1
    <3>1. x = w
      BY <1>1, <2>4
    <3> QED BY <1>2, <2>2, <3>1
  <2> QED BY <1>1, <2>3, <2>4
<1>6. NoneAnswered(q, new)
  <2> SUFFICES ASSUME NEW i \in 1 .. Len(q), NEW j \in 1 .. Len(q), i < j,
                      q[i].kind = "prompt", q[i] \notin Msgs(new), q[j].kind = "reply"
               PROVE  \E k \in (i + 1) .. j : q[k].kind = "prompt"
    BY DEF NoneAnswered
  <2>1. i \in 1 .. n /\ q[i] = ms[i]
    BY <1>1
  <2>2. ms[i].kind = "prompt" /\ ms[i] \notin Msgs(rs)
    BY <2>1 DEF Msgs
  <2>3. CASE j \in 1 .. n
    <3>1. PICK k \in (i + 1) .. j : ms[k].kind = "prompt"
      BY <1>1, <2>1, <2>2, <2>3 DEF ListOK, NoneAnswered
    <3>2. k \in 1 .. n
      BY <2>1, <2>3, <3>1
    <3> QED BY <1>1, <3>1, <3>2
  <2>4. CASE j = n + 1
    <3>1. PICK k \in (i + 1) .. n : ms[k].kind = "prompt"
      BY <1>1, <2>1, <2>2, <2>4
    <3>2. k \in 1 .. n /\ k \in (i + 1) .. j
      BY <1>1, <2>1, <2>4, <3>1
    <3> QED BY <1>1, <3>1, <3>2
  <2> QED BY <1>1, <2>3, <2>4
<1>7. KeysCover(q, new)
  <2> SUFFICES ASSUME NEW i \in 1 .. Len(q), NEW r \in new, r.msg = q[i]
               PROVE  Upto(Prompts(q, i), Replies(q, i), r.turn, r.seq)
    BY DEF KeysCover
  <2>1. CASE i \in 1 .. n
    <3>1. q[i] = ms[i] /\ r \in rs
      BY <1>1, <1>2, <2>1
    <3>2. \A j \in 1 .. i : q[j] = ms[j]
      BY <1>1, <2>1
    <3>3. Prompts(q, i) = Prompts(ms, i) /\ Replies(q, i) = Replies(ms, i)
      BY <2>1, <3>2, CountsAgree
    <3> QED BY <2>1, <3>1, <3>3 DEF ListOK, KeysCover
  <2>2. CASE i = n + 1
    <3>1. r = w
      BY <1>1, <2>2
    <3> QED BY <1>2, <1>3, <2>2, <3>1
  <2> QED BY <1>1, <2>1, <2>2
<1> QED BY <1>4, <1>5, <1>6, <1>7 DEF ListOK, q, w

(* In a turn at work a reply fits behind all that there is.                   *)
LEMMA AReplyFits ==
    ASSUME NEW ms \in Seq(MessageType), NEW rs, rs \subseteq RowType,
           RowsOK(rs), ListOK(ms, rs),
           NEW t \in Nat, NEW s \in Nat, NEW a, ActiveOK(ms, rs, t, s, a),
           NEW m \in MessageType, m.kind = "reply"
    PROVE  /\ \A r \in rs : Precedes(r, Row(t, s + 1, m))
           /\ Upto(Prompts(Append(ms, m), Len(ms) + 1), Replies(Append(ms, m), Len(ms) + 1), t, s + 1)
           /\ \A i \in 1 .. Len(ms) : (ms[i].kind = "prompt" /\ ms[i] \notin Msgs(rs))
                                          => \E k \in (i + 1) .. Len(ms) : ms[k].kind = "prompt"
<1> DEFINE n == Len(ms)
           q == Append(ms, m)
           w == Row(t, s + 1, m)
<1>1. /\ q \in Seq(MessageType) /\ Len(q) = n + 1 /\ n \in Nat
      /\ \A i \in 1 .. n : q[i] = ms[i] /\ i \in 1 .. Len(q)
      /\ q[n + 1] = m /\ n + 1 \in 1 .. Len(q)
      /\ \A i \in 1 .. Len(q) : i \in 1 .. n \/ i = n + 1
  BY AppendAt
<1>2. \A r \in rs : r.turn \in Nat /\ r.seq \in Nat /\ Upto(r.turn, r.seq, t, s)
  BY DEF RowType, ActiveOK
<1>3. \A r \in rs : Precedes(r, w)
  <2>1. w.turn = t /\ w.seq = s + 1
    BY DEF Row
  <2> HIDE DEF w
  <2> QED BY <1>2, <2>1 DEF Upto, Precedes
<1> HIDE DEF w, q
<1>4. PICK i0 \in 1 .. n : ms[i0] \in Msgs(rs) /\ \A k \in (i0 + 1) .. n : ms[k].kind = "memory"
  BY DEF ActiveOK
<1>5. PICK r0 \in rs : r0.msg = ms[i0]
  BY <1>4 DEF Msgs
<1>6. Upto(Prompts(q, n + 1), Replies(q, n + 1), t, s + 1)
  <2>1. Upto(Prompts(ms, i0), Replies(ms, i0), r0.turn, r0.seq)
    BY <1>5 DEF ListOK, KeysCover
  <2>2. Prompts(ms, n) = Prompts(ms, i0) /\ Replies(ms, n) = Replies(ms, i0)
    <3>1. i0 \in 0 .. n
      BY <1>1
    <3> QED BY <1>1, <1>4, <3>1, CountsStay
  <2>3. Prompts(q, n) = Prompts(ms, n) /\ Replies(q, n) = Replies(ms, n)
    BY <1>1, CountsAgree
  <2>4. Prompts(q, n + 1) = Prompts(q, n) /\ Replies(q, n + 1) = Replies(q, n) + 1
    BY <1>1, CountsGoOn
  <2>5. Prompts(ms, i0) \in Nat /\ Replies(ms, i0) \in Nat
    BY CountsAreNumbers
  <2>6. Upto(r0.turn, r0.seq, t, s) /\ r0.turn \in Nat /\ r0.seq \in Nat
    BY <1>2
  <2> QED BY <2>1, <2>2, <2>3, <2>4, <2>5, <2>6 DEF Upto
<1>7. ASSUME NEW i \in 1 .. n, ms[i].kind = "prompt", ms[i] \notin Msgs(rs)
      PROVE  \E k \in (i + 1) .. n : ms[k].kind = "prompt"
  <2>1. i # i0 /\ i \notin (i0 + 1) .. n
    BY <1>4, <1>7
  <2>2. i < i0
    BY <1>1, <2>1
  <2>3. i0 \in (i + 1) .. n /\ i0 \in (i + 1) .. i0
    BY <1>1, <2>2
  <2>4. r0.msg = System \/ r0.msg.kind \in {"prompt", "reply", "refresh"}
    <3>1. KeyOK(r0)
      BY DEF RowsOK
    <3>2. Row(0, 0, System).msg = System
      BY DEF Row
    <3> QED BY <3>1, <3>2 DEF KeyOK
  <2>5. CASE r0.msg.kind = "prompt"
    BY <1>5, <2>3, <2>5
  <2>6. CASE r0.msg.kind = "reply"
    <3>1. PICK k \in (i + 1) .. i0 : ms[k].kind = "prompt"
      BY <1>5, <1>7, <2>2, <2>6 DEF ListOK, NoneAnswered
    <3>2. k \in (i + 1) .. n
      BY <1>1, <3>1
    <3> QED BY <3>1, <3>2
  <2>7. CASE r0.msg.kind = "refresh"
    <3>1. i0 = 2
      BY <1>5, <2>7 DEF ListOK, PlacesOK
    <3>2. i = 1 /\ ms[1] = System
      BY <2>2, <3>1 DEF ListOK, PlacesOK
    <3> QED BY <1>7, <3>2 DEF System, Message
  <2>8. CASE r0.msg = System
    <3>1. System.kind = "system"
      BY DEF System, Message
    <3>2. i0 = 1
      BY <1>5, <2>8, <3>1 DEF ListOK, PlacesOK
    <3> QED BY <2>2, <3>2
  <2> QED BY <2>4, <2>5, <2>6, <2>7, <2>8
<1> QED BY <1>3, <1>6, <1>7 DEF q, w

(* A turn at work stays at work when its keys grow ...                        *)
LEMMA ActiveGrows ==
    ASSUME NEW ms, NEW rs, rs \subseteq RowType, NEW t \in Nat, NEW s \in Nat, NEW a,
           ActiveOK(ms, rs, t, s, a), NEW u \in Nat,
           u >= s \/ \A r \in rs : r.turn = t => r.seq <= u
    PROVE  ActiveOK(ms, rs, t, u, a)
<1>1. \A r \in rs : r.turn \in Nat /\ r.seq \in Nat /\ Upto(r.turn, r.seq, t, s)
  BY DEF RowType, ActiveOK
<1>2. \A r \in rs : Upto(r.turn, r.seq, t, u)
  BY <1>1 DEF Upto
<1> QED BY <1>2 DEF ActiveOK

(* ... or an attachment joins, ...                                            *)
LEMMA ActiveGetsMemory ==
    ASSUME NEW ms \in Seq(MessageType), NEW rs, NEW t, NEW s, NEW a,
           ActiveOK(ms, rs, t, s, a), NEW m \in MessageType, m.kind = "memory"
    PROVE  ActiveOK(Append(ms, m), rs, t, s, a)
<1> DEFINE n == Len(ms)
           q == Append(ms, m)
<1>1. /\ q \in Seq(MessageType) /\ Len(q) = n + 1 /\ n \in Nat
      /\ \A i \in 1 .. n : q[i] = ms[i] /\ i \in 1 .. Len(q)
      /\ q[n + 1] = m /\ n + 1 \in 1 .. Len(q)
      /\ \A i \in 1 .. Len(q) : i \in 1 .. n \/ i = n + 1
  BY AppendAt
<1> HIDE DEF q
<1>2. PICK i \in 1 .. n : ms[i] \in Msgs(rs) /\ \A k \in (i + 1) .. n : ms[k].kind = "memory"
  BY DEF ActiveOK
<1>3. \A k \in (i + 1) .. Len(q) : k \in (i + 1) .. n \/ k = n + 1
  BY <1>1
<1>4. \A k \in (i + 1) .. n : k \in 1 .. n
  BY <1>1
<1>5. \A k \in (i + 1) .. Len(q) : q[k].kind = "memory"
  BY <1>1, <1>2, <1>3, <1>4
<1>6. i \in 1 .. Len(q) /\ q[i] \in Msgs(rs)
  BY <1>1, <1>2
<1> QED BY <1>5, <1>6 DEF ActiveOK, q

(* ... and with each message that gets its row.                               *)
LEMMA ActiveGetsRow ==
    ASSUME NEW ms \in Seq(MessageType), NEW rs, rs \subseteq RowType,
           NEW m \in MessageType, NEW t \in Nat, NEW s \in Nat, t >= 1,
           \A r \in rs : Precedes(r, Row(t, s, m)),
           m.kind = "prompt" \/
               \A r \in rs :
                   (/\ r.msg.kind \in Spoken
                    /\ \A x \in rs : x.msg.kind = "prompt" => ~Precedes(r, x)) => r.msg.owner = m.owner
    PROVE  ActiveOK(Append(ms, m), rs \cup {Row(t, s, m)}, t, s, m.owner)
<1> DEFINE n == Len(ms)
           q == Append(ms, m)
           w == Row(t, s, m)
           new == rs \cup {w}
<1>1. Len(q) = n + 1 /\ n \in Nat /\ q[n + 1] = m /\ n + 1 \in 1 .. Len(q)
  OBVIOUS
<1>2. w \in RowType /\ w.turn = t /\ w.seq = s /\ w.msg = m
  BY DEF Row, RowType
<1>3. \A r \in rs : Precedes(r, w)
  OBVIOUS
<1> HIDE DEF w, q
<1>4. \A r \in new : Upto(r.turn, r.seq, t, s)
  <2>1. \A r \in rs : r.turn \in Nat /\ r.seq \in Nat
    BY DEF RowType
  <2>2. \A r \in rs : Upto(r.turn, r.seq, t, s)
    BY <1>2, <1>3, <2>1 DEF Precedes, Upto
  <2>3. Upto(w.turn, w.seq, t, s)
    BY <1>2 DEF Upto
  <2> QED BY <2>2, <2>3
<1>5. ASSUME NEW r \in new, r.msg.kind \in Spoken,
             \A x \in new : x.msg.kind = "prompt" => ~Precedes(r, x)
      PROVE  r.msg.owner = m.owner
  <2>1. CASE r = w
    BY <1>2, <2>1
  <2>2. CASE r \in rs
    BY <1>2, <1>3, <1>5, <2>2
  <2> QED BY <2>1, <2>2
<1>6. \A k \in (n + 1 + 1) .. Len(q) : q[k].kind = "memory"
  BY <1>1
<1>7. q[n + 1] \in Msgs(new)
  BY <1>1, <1>2 DEF Msgs
<1>8. \E i \in 1 .. Len(q) : q[i] \in Msgs(new) /\ \A k \in (i + 1) .. Len(q) : q[k].kind = "memory"
  BY <1>1, <1>6, <1>7
<1> QED BY <1>4, <1>5, <1>8 DEF ActiveOK, q, w

-----------------------------------------------------------------------------
(* A rebuilt session of which only the author starts turns: the system        *)
(* message, the summary, prompts and replies.                                 *)
Shape(d) ==
    /\ d \in Seq(MessageType) /\ Len(d) >= 2
    /\ d[1] = System /\ d[2].kind = "refresh"
    /\ \A i \in 3 .. Len(d) : d[i].kind \in Spoken

LEMMA ShapeKinds ==
    ASSUME NEW d, Shape(d)
    PROVE  /\ Len(d) \in Nat /\ 1 \in 1 .. Len(d) /\ 2 \in 1 .. Len(d)
           /\ d[1].kind = "system" /\ d[2].kind = "refresh"
           /\ \A i \in 1 .. Len(d) : i = 1 \/ i = 2 \/ i \in 3 .. Len(d)
           /\ \A i \in 1 .. Len(d) : d[i].kind \in {"system", "refresh", "prompt", "reply"}
           /\ \A i \in 1 .. Len(d) : StartsTurn(d[i]) <=> d[i].kind = "prompt"
<1>1. Len(d) \in Nat /\ Len(d) >= 2
  BY DEF Shape
<1>2. d[1].kind = "system" /\ d[2].kind = "refresh"
  BY DEF Shape, System, Message
<1>3. \A i \in 1 .. Len(d) : i = 1 \/ i = 2 \/ i \in 3 .. Len(d)
  BY <1>1
<1>4. \A i \in 1 .. Len(d) : d[i].kind \in {"system", "refresh", "prompt", "reply"}
  BY <1>2, <1>3 DEF Shape, Spoken
<1> QED BY <1>1, <1>2, <1>3, <1>4 DEF StartsTurn

(* Its turns are numbered by its prompts, its messages by the replies.        *)
LEMMA NumbersAreCounts ==
    ASSUME NEW d, Shape(d), NEW i \in 1 .. Len(d)
    PROVE  NumberedTurn(d, i) = Prompts(d, i) /\ NumberedSeq(d, i) = Replies(d, i)
<1> DEFINE S == {1} \cup { j \in 1 .. i : StartsTurn(d[j]) }
           from == Max(S)
           C == { j \in (from + 1) .. i : d[j].kind # "refresh" }
           R == { j \in 1 .. i : d[j].kind = "reply" /\ \A k \in j .. i : d[k].kind # "prompt" }
<1>1. /\ Len(d) \in Nat /\ d[1].kind = "system" /\ d[2].kind = "refresh"
      /\ \A j \in 1 .. Len(d) : d[j].kind \in {"system", "refresh", "prompt", "reply"}
      /\ \A j \in 1 .. Len(d) : StartsTurn(d[j]) <=> d[j].kind = "prompt"
      /\ \A j \in 1 .. Len(d) : j = 1 \/ j = 2 \/ j \in 3 .. Len(d)
  BY ShapeKinds
<1>2. \A j \in 1 .. i : j \in 1 .. Len(d)
  BY <1>1
<1>3. NumberedTurn(d, i) = Prompts(d, i)
  <2>1. { j \in 1 .. i : StartsTurn(d[j]) } = { j \in 1 .. i : d[j].kind = "prompt" }
    BY <1>1, <1>2
  <2> QED BY <2>1 DEF NumberedTurn, Prompts
<1>4. S \subseteq 1 .. i /\ S \subseteq Nat /\ S # {} /\ 1 \in S
  OBVIOUS
<1>5. IsFiniteSet(S)
  <2> HIDE DEF S
  <2>1. IsFiniteSet(1 .. i)
    BY FS_Interval
  <2> QED BY <1>4, <2>1, FS_Subset
<1>6. \A j \in S : j = 1 \/ d[j].kind = "prompt"
  BY <1>1, <1>2
<1>7. \A j \in 1 .. i : d[j].kind = "prompt" => j \in S
  BY <1>1, <1>2
<1>8. NumberedSeq(d, i) = Cardinality(C)
  BY DEF NumberedSeq
<1> HIDE DEF S
<1>9. from \in S /\ from \in 1 .. i /\ \A j \in S : j <= from
  BY <1>4, <1>5, MaxIsGreatest
<1> HIDE DEF from
<1>10. ASSUME NEW j \in (from + 1) .. i, d[j].kind # "refresh"
       PROVE  j \in 1 .. i /\ d[j].kind = "reply" /\ \A k \in j .. i : d[k].kind # "prompt"
  <2>1. j \in 1 .. i /\ j # 1 /\ j \in j .. i
    BY <1>9
  <2>2. ASSUME NEW k \in j .. i, d[k].kind = "prompt" PROVE FALSE
    <3>1. k \in 1 .. i /\ ~(k <= from)
      BY <1>9, <2>1
    <3> QED BY <1>7, <1>9, <2>2, <3>1
  <2>3. d[j].kind # "system"
    <3>1. j # 2
      BY <1>1, <1>10
    <3>2. j \in 3 .. Len(d)
      BY <1>1, <1>2, <2>1, <3>1
    <3> QED BY <3>2 DEF Shape, Spoken
  <2> QED BY <1>1, <1>2, <1>10, <2>1, <2>2, <2>3
<1>11. ASSUME NEW j \in 1 .. i, d[j].kind = "reply", \A k \in j .. i : d[k].kind # "prompt"
       PROVE  j \in (from + 1) .. i /\ d[j].kind # "refresh"
  <2>1. j # 1 /\ d[j].kind # "refresh"
    BY <1>1, <1>11
  <2>2. from < j
    <3>1. CASE from = 1
      BY <2>1, <3>1
    <3>2. CASE d[from].kind = "prompt"
      <4>1. from \notin j .. i
        BY <1>11, <3>2
      <4> QED BY <1>9, <4>1
    <3> QED BY <1>6, <1>9, <3>1, <3>2
  <2> QED BY <1>9, <2>1, <2>2
<1>12. C = R
  BY <1>10, <1>11
<1> QED BY <1>3, <1>8, <1>12 DEF Replies

(* The rows that a compaction makes of it.                                    *)
RowAt(d, i) == IF i = 2 THEN Row(0, 1, d[2]) ELSE Row(Prompts(d, i), Replies(d, i), d[i])

LEMMA RowsOfShape ==
    ASSUME NEW d, Shape(d)
    PROVE  /\ Numbered(d) = { RowAt(d, i) : i \in 1 .. Len(d) }
           /\ \A i \in 1 .. Len(d) :
                /\ RowAt(d, i) \in RowType /\ RowAt(d, i).msg = d[i]
                /\ RowAt(d, i).turn = (IF i = 2 THEN 0 ELSE Prompts(d, i))
                /\ RowAt(d, i).seq = (IF i = 2 THEN 1 ELSE Replies(d, i))
<1> DEFINE row(i) == IF d[i].kind = "refresh" THEN Row(0, 1, d[i])
                     ELSE Row(NumberedTurn(d, i), NumberedSeq(d, i), d[i])
<1>1. \A i \in 1 .. Len(d) : d[i].kind = "refresh" <=> i = 2
  BY ShapeKinds DEF Shape, Spoken
<1>2. ASSUME NEW i \in 1 .. Len(d) PROVE row(i) = RowAt(d, i)
  <2>1. NumberedTurn(d, i) = Prompts(d, i) /\ NumberedSeq(d, i) = Replies(d, i)
    BY NumbersAreCounts
  <2> QED BY <1>1, <2>1 DEF RowAt
<1>3. Numbered(d) = { row(i) : i \in 1 .. Len(d) }
  BY DEF Numbered, Shape
<1>4. Numbered(d) = { RowAt(d, i) : i \in 1 .. Len(d) }
  <2> HIDE DEF row
  <2> QED BY <1>2, <1>3
<1>5. ASSUME NEW i \in 1 .. Len(d)
      PROVE  /\ RowAt(d, i) \in RowType /\ RowAt(d, i).msg = d[i]
             /\ RowAt(d, i).turn = (IF i = 2 THEN 0 ELSE Prompts(d, i))
             /\ RowAt(d, i).seq = (IF i = 2 THEN 1 ELSE Replies(d, i))
  <2>1. Prompts(d, i) \in Nat /\ Replies(d, i) \in Nat
    BY CountsAreNumbers
  <2>2. d[i] \in MessageType
    BY DEF Shape
  <2> QED BY <2>1, <2>2 DEF RowAt, Row, RowType
<1> QED BY <1>4, <1>5

(* With keys of their own, what is kept begins with a prompt.                 *)
LEMMA KeptBeginsWithPrompt ==
    ASSUME NEW d, Shape(d), HasUniqueKeys(Numbered(d)), Len(d) >= 3
    PROVE  d[3].kind = "prompt"
<1> SUFFICES ASSUME d[3].kind = "reply" PROVE FALSE
  BY ShapeKinds DEF Shape, Spoken
<1>1. /\ d[1].kind = "system" /\ d[2].kind = "refresh" /\ Len(d) \in Nat
  BY ShapeKinds
<1>2. Prompts(d, 0) \in Nat /\ Replies(d, 0) \in Nat /\ Prompts(d, 0) = 0 /\ Replies(d, 0) = 0
  <2>1. { j \in 1 .. 0 : d[j].kind = "prompt" } = {}
        /\ { j \in 1 .. 0 : d[j].kind = "reply" /\ \A k \in j .. 0 : d[k].kind # "prompt" } = {}
    OBVIOUS
  <2> QED BY <2>1, FS_EmptySet DEF Prompts, Replies
<1>3. Prompts(d, 0 + 1) = 0 /\ Replies(d, 0 + 1) = 0
  <2>1. 0 \in Nat /\ 0 + 1 = 1
    OBVIOUS
  <2> QED BY <1>1, <1>2, <2>1, CountsGoOn
<1>4. Prompts(d, 1 + 1) = 0 /\ Replies(d, 1 + 1) = 0
  <2>1. 1 \in Nat /\ 0 + 1 = 1 /\ 1 + 1 = 2
    OBVIOUS
  <2> QED BY <1>1, <1>3, <2>1, CountsGoOn
<1>5. Prompts(d, 3) = 0 /\ Replies(d, 3) = 1
  <2>1. 2 \in Nat /\ 2 + 1 = 3 /\ 1 + 1 = 2
    OBVIOUS
  <2> QED BY <1>1, <1>4, <2>1, CountsGoOn
<1>6. 3 \in 1 .. Len(d) /\ 2 \in 1 .. Len(d)
  BY <1>1
<1>7. RowAt(d, 3) \in Numbered(d) /\ RowAt(d, 2) \in Numbered(d)
  BY <1>6, RowsOfShape
<1>8. RowAt(d, 3).turn = 0 /\ RowAt(d, 3).seq = 1 /\ RowAt(d, 2).turn = 0 /\ RowAt(d, 2).seq = 1
      /\ RowAt(d, 3).msg = d[3] /\ RowAt(d, 2).msg = d[2]
  BY <1>5, <1>6, RowsOfShape
<1> QED BY <1>1, <1>7, <1>8 DEF HasUniqueKeys

(* Its numbers, message by message.                                           *)
LEMMA NumbersOfShape ==
    ASSUME NEW d, Shape(d), Len(d) >= 3 => d[3].kind = "prompt"
    PROVE  /\ Prompts(d, 1) = 0 /\ Replies(d, 1) = 0 /\ Prompts(d, 2) = 0 /\ Replies(d, 2) = 0
           /\ Len(d) >= 3 => Prompts(d, 3) = 1 /\ Replies(d, 3) = 0
           /\ \A i \in 3 .. Len(d) :
                /\ Prompts(d, i) \in Nat /\ Prompts(d, i) >= 1 /\ Replies(d, i) \in Nat
                /\ d[i].kind = "prompt" => Replies(d, i) = 0
                /\ d[i].kind = "reply" => Replies(d, i) >= 1
<1>1. /\ d[1].kind = "system" /\ d[2].kind = "refresh" /\ Len(d) \in Nat
  BY ShapeKinds
<1>2. Prompts(d, 0) = 0 /\ Replies(d, 0) = 0
  <2>1. { j \in 1 .. 0 : d[j].kind = "prompt" } = {}
        /\ { j \in 1 .. 0 : d[j].kind = "reply" /\ \A k \in j .. 0 : d[k].kind # "prompt" } = {}
    OBVIOUS
  <2> QED BY <2>1, FS_EmptySet DEF Prompts, Replies
<1>3. Prompts(d, 1) = 0 /\ Replies(d, 1) = 0
  <2>1. 0 \in Nat /\ 0 + 1 = 1
    OBVIOUS
  <2> QED BY <1>1, <1>2, <2>1, CountsGoOn
<1>4. Prompts(d, 2) = 0 /\ Replies(d, 2) = 0
  <2>1. 1 \in Nat /\ 1 + 1 = 2
    OBVIOUS
  <2> QED BY <1>1, <1>3, <2>1, CountsGoOn
<1>5. Len(d) >= 3 => Prompts(d, 3) = 1 /\ Replies(d, 3) = 0
  <2>1. 2 \in Nat /\ 2 + 1 = 3
    OBVIOUS
  <2> QED BY <1>1, <1>4, <2>1, CountsGoOn
<1> DEFINE N == { n \in Nat : n + 3 \in 3 .. Len(d) => Prompts(d, n + 3) >= 1 }
<1>6. 0 \in N
  BY <1>5
<1>7. ASSUME NEW n \in Nat, n \in N PROVE n + 1 \in N
  <2> SUFFICES ASSUME n + 4 \in 3 .. Len(d) PROVE Prompts(d, n + 4) >= 1
    BY <1>7
  <2>1. Prompts(d, n + 3) >= 1 /\ Prompts(d, n + 3) \in Nat
    BY <1>1, <1>7, CountsAreNumbers
  <2>2. n + 3 \in Nat /\ (n + 3) + 1 = n + 4
    OBVIOUS
  <2>3. Prompts(d, n + 4) = Prompts(d, n + 3) + 1 \/ Prompts(d, n + 4) = Prompts(d, n + 3)
    BY <2>2, CountsGoOn
  <2> QED BY <2>1, <2>3
<1> HIDE DEF N
<1>8. Nat \subseteq N
  BY <1>6, <1>7, SetInduction
<1>9. ASSUME NEW i \in 3 .. Len(d)
      PROVE  /\ Prompts(d, i) \in Nat /\ Prompts(d, i) >= 1 /\ Replies(d, i) \in Nat
             /\ d[i].kind = "prompt" => Replies(d, i) = 0
             /\ d[i].kind = "reply" => Replies(d, i) >= 1
  <2>1. i - 3 \in N /\ (i - 3) + 3 = i
    BY <1>8
  <2>2. Prompts(d, i) >= 1
    BY <2>1 DEF N
  <2>3. i - 1 \in Nat /\ (i - 1) + 1 = i /\ i \in Nat
    OBVIOUS
  <2>4. Prompts(d, i) \in Nat /\ Replies(d, i) \in Nat /\ Replies(d, i - 1) \in Nat
    BY <2>3, CountsAreNumbers
  <2>5. /\ d[i].kind = "prompt" => Replies(d, i) = 0
        /\ d[i].kind = "reply" => Replies(d, i) = Replies(d, i - 1) + 1
    <3>1. Replies(d, (i - 1) + 1) = IF d[(i - 1) + 1].kind = "prompt" THEN 0
                                   ELSE IF d[(i - 1) + 1].kind = "reply" THEN Replies(d, i - 1) + 1
                                   ELSE Replies(d, i - 1)
      BY <2>3, CountsGoOn
    <3> QED BY <2>3, <3>1
  <2> QED BY <2>2, <2>4, <2>5
<1> QED BY <1>3, <1>4, <1>5, <1>9

(* So its rows are in line.                                                   *)
LEMMA ShapeInLine ==
    ASSUME NEW d, Shape(d), Len(d) >= 3 => d[3].kind = "prompt",
           NEW i \in 1 .. Len(d), NEW j \in 1 .. Len(d), i < j
    PROVE  Precedes(RowAt(d, i), RowAt(d, j))
<1> DEFINE n == Len(d)
<1>1. n \in Nat /\ \A k \in 1 .. n : k = 1 \/ k = 2 \/ k \in 3 .. n
  BY ShapeKinds
<1>2. \A k \in 1 .. n :
        /\ RowAt(d, k) \in RowType
        /\ RowAt(d, k).turn = (IF k = 2 THEN 0 ELSE Prompts(d, k))
        /\ RowAt(d, k).seq = (IF k = 2 THEN 1 ELSE Replies(d, k))
  BY RowsOfShape
<1>3. /\ Prompts(d, 1) = 0 /\ Replies(d, 1) = 0
      /\ n >= 3 => Prompts(d, 3) = 1 /\ Replies(d, 3) = 0
  BY NumbersOfShape
<1>4. ASSUME NEW k \in 1 .. n, k + 1 \in 1 .. n PROVE Precedes(RowAt(d, k), RowAt(d, k + 1))
  <2>1. CASE k = 1
    BY <1>2, <1>3, <1>4, <2>1 DEF Precedes
  <2>2. CASE k = 2
    BY <1>1, <1>2, <1>3, <1>4, <2>2 DEF Precedes
  <2>3. CASE k \in 3 .. n
    <3>1. k + 1 \in 3 .. n /\ k \in Nat
      BY <1>4, <2>3
    <3>2. d[k + 1].kind \in Spoken
      BY <3>1 DEF Shape
    <3>3. Prompts(d, k) \in Nat /\ Replies(d, k) \in Nat
      BY <3>1, CountsAreNumbers
    <3>4. /\ Prompts(d, k + 1) = IF d[k + 1].kind = "prompt" THEN Prompts(d, k) + 1 ELSE Prompts(d, k)
          /\ Replies(d, k + 1) = IF d[k + 1].kind = "prompt" THEN 0
                                 ELSE IF d[k + 1].kind = "reply" THEN Replies(d, k) + 1
                                 ELSE Replies(d, k)
      BY <3>1, CountsGoOn
    <3>5. /\ RowAt(d, k).turn = Prompts(d, k) /\ RowAt(d, k).seq = Replies(d, k)
          /\ RowAt(d, k + 1).turn = Prompts(d, k + 1) /\ RowAt(d, k + 1).seq = Replies(d, k + 1)
      BY <1>2, <1>4, <2>3, <3>1
    <3> QED BY <3>2, <3>3, <3>4, <3>5 DEF Spoken, Precedes
  <2> QED BY <1>1, <2>1, <2>2, <2>3
<1> DEFINE N == { m \in Nat : i + 1 + m \in 1 .. n => Precedes(RowAt(d, i), RowAt(d, i + 1 + m)) }
<1>5. 0 \in N
  BY <1>1, <1>4
<1>6. ASSUME NEW m \in Nat, m \in N PROVE m + 1 \in N
  <2> SUFFICES ASSUME i + 1 + (m + 1) \in 1 .. n PROVE Precedes(RowAt(d, i), RowAt(d, i + 1 + (m + 1)))
    BY <1>6
  <2>1. i + 1 + m \in 1 .. n /\ (i + 1 + m) + 1 = i + 1 + (m + 1)
    BY <1>1
  <2>2. Precedes(RowAt(d, i), RowAt(d, i + 1 + m))
    BY <1>6, <2>1
  <2>3. Precedes(RowAt(d, i + 1 + m), RowAt(d, i + 1 + (m + 1)))
    <3>1. (i + 1 + m) + 1 \in 1 .. n
      BY <2>1
    <3>2. Precedes(RowAt(d, i + 1 + m), RowAt(d, (i + 1 + m) + 1))
      BY <1>4, <2>1, <3>1
    <3> QED BY <2>1, <3>2
  <2>4. { RowAt(d, k) : k \in 1 .. n } \subseteq RowType
    BY <1>2
  <2>5. \A r, q, x \in { RowAt(d, k) : k \in 1 .. n } : Precedes(r, q) /\ Precedes(q, x) => Precedes(r, x)
    BY <2>4, KeysAreInLine
  <2> QED BY <2>1, <2>2, <2>3, <2>5
<1> HIDE DEF N
<1>7. Nat \subseteq N
  BY <1>5, <1>6, SetInduction
<1>8. j - i - 1 \in N /\ i + 1 + (j - i - 1) = j
  BY <1>1, <1>7
<1> QED BY <1>8 DEF N

-----------------------------------------------------------------------------
(* The session is replaced                                                    *)

(* What a compaction makes of a transcript: what is kept of it begins at b.   *)
Rebuilt(d, ms, b) ==
    /\ Len(d) = Len(ms) + 3 - b
    /\ d[1] = System /\ d[2].kind = "refresh" /\ d[2].id = 0
    /\ \A i \in 3 .. Len(d) : d[i] = ms[i - 3 + b]

(* A prompt or reply and a later reply have one author behind them, as long   *)
(* as no prompt comes in between.                                             *)
OneOwner(ms) ==
    \A i, j \in 1 .. Len(ms) :
        (/\ i < j /\ ms[i].kind \in Spoken /\ ms[j].kind = "reply"
         /\ \A k \in (i + 1) .. j : ms[k].kind # "prompt") => ms[i].owner = ms[j].owner

LEMMA OwnersAgree ==
    ASSUME NEW ms \in Seq(MessageType), NEW rs, rs \subseteq RowType, RowsOK(rs), ListOK(ms, rs)
    PROVE  OneOwner(ms)
<1> SUFFICES ASSUME NEW i \in 1 .. Len(ms), NEW j \in 1 .. Len(ms), i < j,
                    ms[i].kind \in Spoken, ms[j].kind = "reply",
                    \A k \in (i + 1) .. j : ms[k].kind # "prompt"
             PROVE  ms[i].owner = ms[j].owner
  BY DEF OneOwner
<1>1. /\ \A r \in rs : \E k \in 1 .. Len(ms) : ms[k] = r.msg
      /\ \A k \in 1 .. Len(ms) : ms[k].kind \notin {"prompt", "memory"} => ms[k] \in Msgs(rs)
  BY DEF ListOK, PlacesOK
<1>2. PICK q \in rs : q.msg = ms[j]
  BY <1>1 DEF Msgs
<1>3. ms[i] \in Msgs(rs)
  BY <1>1 DEF ListOK, NoneAnswered, Spoken
<1>4. PICK r \in rs : r.msg = ms[i]
  BY <1>3 DEF Msgs
<1>5. \A k, l \in 1 .. Len(ms) : \A x, y \in rs :
         (k < l /\ x.msg = ms[k] /\ y.msg = ms[l]) => Precedes(x, y)
  BY DEF ListOK, InOrder
<1>6. Precedes(r, q)
  BY <1>2, <1>4, <1>5
<1>7. ASSUME NEW x \in rs, x.msg.kind = "prompt", Precedes(r, x), Precedes(x, q) PROVE FALSE
  <2>1. PICK k \in 1 .. Len(ms) : ms[k] = x.msg
    BY <1>1
  <2>2. \A y, z \in rs : Precedes(y, z) => ~Precedes(z, y)
    BY KeysAreInLine
  <2>3. \A y \in rs : ~Precedes(y, y)
    BY KeysAreInLine
  <2>4. \A y, z \in rs : y.msg = z.msg => y = z
    BY DEF RowsOK
  <2>5. k # i
    BY <1>4, <1>7, <2>1, <2>3, <2>4
  <2>6. ~(k < i)
    BY <1>4, <1>5, <1>7, <2>1, <2>2
  <2>7. k # j
    BY <1>2, <1>7, <2>1
  <2>8. ~(j < k)
    BY <1>2, <1>5, <1>7, <2>1, <2>2
  <2>9. k \in (i + 1) .. j
    BY <2>5, <2>6, <2>8
  <2> QED BY <1>7, <2>1, <2>9
<1>8. NoPromptBetween(rs, r, q)
  BY <1>7 DEF NoPromptBetween
<1> QED BY <1>2, <1>4, <1>6, <1>8 DEF RowsOK

(* The rows of a rebuilt session.                                             *)
LEMMA ShapeRows ==
    ASSUME NEW d, Shape(d), Len(d) >= 3 => d[3].kind = "prompt",
           \A i, j \in 1 .. Len(d) : d[i] = d[j] => i = j
    PROVE  /\ ListOK(d, Numbered(d))
           /\ OneOwner(d) => RowsOK(Numbered(d))
<1> DEFINE n == Len(d)
           rs == { RowAt(d, i) : i \in 1 .. n }
<1>1. /\ n \in Nat /\ 1 \in 1 .. n /\ 2 \in 1 .. n
      /\ d[1].kind = "system" /\ d[2].kind = "refresh" /\ d[1] = System /\ n # 0
      /\ \A k \in 1 .. n : k = 1 \/ k = 2 \/ k \in 3 .. n
      /\ \A k \in 3 .. n : d[k].kind \in Spoken
  BY ShapeKinds DEF Shape
<1>2. /\ Numbered(d) = rs
      /\ \A k \in 1 .. n :
            /\ RowAt(d, k) \in RowType /\ RowAt(d, k).msg = d[k]
            /\ RowAt(d, k).turn = (IF k = 2 THEN 0 ELSE Prompts(d, k))
            /\ RowAt(d, k).seq = (IF k = 2 THEN 1 ELSE Replies(d, k))
  BY RowsOfShape
<1>3. /\ Prompts(d, 1) = 0 /\ Replies(d, 1) = 0 /\ Prompts(d, 2) = 0 /\ Replies(d, 2) = 0
      /\ \A i \in 3 .. n :
           /\ Prompts(d, i) \in Nat /\ Prompts(d, i) >= 1 /\ Replies(d, i) \in Nat
           /\ d[i].kind = "prompt" => Replies(d, i) = 0
           /\ d[i].kind = "reply" => Replies(d, i) >= 1
  BY NumbersOfShape
<1>4. \A i, j \in 1 .. n : i < j => Precedes(RowAt(d, i), RowAt(d, j))
  BY ShapeInLine
<1>5. \A r \in rs : \E i \in 1 .. n : r = RowAt(d, i)
  OBVIOUS
<1>6. \A i \in 1 .. n : RowAt(d, i) \in rs
  OBVIOUS
<1>7. RowAt(d, 1) = Row(0, 0, System)
  BY <1>1, <1>3 DEF RowAt
<1>8. rs \subseteq RowType
  BY <1>2
<1> HIDE DEF rs
<1>9. \A i \in 1 .. n : \A r \in rs : r.msg = d[i] => r = RowAt(d, i)
  BY <1>2, <1>5
<1>10. \A i \in 1 .. n : d[i] \in Msgs(rs)
  BY <1>2, <1>6 DEF Msgs
<1>11. PlacesOK(d, rs)
  <2>1. \A r \in rs : \E i \in 1 .. n : d[i] = r.msg
    BY <1>2, <1>5
  <2>2. \A i \in 1 .. n : (d[i].kind = "system" => i = 1) /\ (d[i].kind = "refresh" => i = 2)
    BY <1>1 DEF Spoken
  <2> QED BY <1>1, <1>10, <2>1, <2>2 DEF PlacesOK
<1>12. InOrder(d, rs)
  BY <1>4, <1>9 DEF InOrder
<1>13. NoneAnswered(d, rs)
  BY <1>10 DEF NoneAnswered
<1>14. KeysCover(d, rs)
  <2> SUFFICES ASSUME NEW i \in 1 .. n, NEW r \in rs, r.msg = d[i]
               PROVE  Upto(Prompts(d, i), Replies(d, i), r.turn, r.seq)
    BY DEF KeysCover
  <2>1. r.turn = (IF i = 2 THEN 0 ELSE Prompts(d, i)) /\ r.seq = (IF i = 2 THEN 1 ELSE Replies(d, i))
    BY <1>2, <1>9
  <2>2. Prompts(d, i) \in Nat /\ Replies(d, i) \in Nat
    BY CountsAreNumbers
  <2> QED BY <1>3, <2>1, <2>2 DEF Upto
<1>15. ASSUME OneOwner(d) PROVE RowsOK(rs)
  <2>1. Row(0, 0, System) \in rs
    BY <1>1, <1>6, <1>7
  <2>2. ASSUME NEW i \in 1 .. n PROVE KeyOK(RowAt(d, i))
    <3>1. CASE i = 1
      BY <1>7, <3>1 DEF KeyOK
    <3>2. CASE i = 2
      BY <1>1, <1>2, <3>2 DEF KeyOK
    <3>3. CASE i \in 3 .. n
      <4>1. RowAt(d, i).msg = d[i] /\ RowAt(d, i).turn = Prompts(d, i) /\ RowAt(d, i).seq = Replies(d, i)
        BY <1>2, <3>3
      <4>2. d[i].kind \in Spoken
        BY <1>1, <3>3
      <4> QED BY <1>3, <3>3, <4>1, <4>2 DEF KeyOK, Spoken
    <3> QED BY <1>1, <3>1, <3>2, <3>3
  <2>3. \A r, q \in rs : r.msg = q.msg => r = q
    BY <1>2, <1>5, <1>9
  <2>4. ASSUME NEW r \in rs, NEW q \in rs, Precedes(r, q), q.msg.kind = "reply",
               r.msg.kind \in Spoken, NoPromptBetween(rs, r, q)
        PROVE  r.msg.owner = q.msg.owner
    <3>1. PICK i \in 1 .. n : r = RowAt(d, i)
      BY <1>5
    <3>2. PICK j \in 1 .. n : q = RowAt(d, j)
      BY <1>5
    <3>3. \A x, y \in rs : Precedes(x, y) => ~Precedes(y, x) /\ x # y
      BY <1>8, KeysAreInLine
    <3>4. i < j
      <4>1. ~(j < i)
        BY <1>4, <2>4, <3>1, <3>2, <3>3
      <4>2. i # j
        BY <2>4, <3>1, <3>2, <3>3
      <4> QED BY <4>1, <4>2
    <3>5. ASSUME NEW k \in (i + 1) .. j, d[k].kind = "prompt" PROVE FALSE
      <4>1. k \in 1 .. n /\ i < k
        BY <1>1
      <4>2. k # j
        BY <1>2, <2>4, <3>2, <3>5
      <4>3. k < j
        BY <4>2
      <4>4. Precedes(RowAt(d, i), RowAt(d, k)) /\ Precedes(RowAt(d, k), RowAt(d, j))
        BY <1>4, <4>1, <4>3
      <4>5. RowAt(d, k) \in rs /\ RowAt(d, k).msg.kind = "prompt"
        BY <1>2, <1>6, <3>5, <4>1
      <4> QED BY <2>4, <3>1, <3>2, <4>4, <4>5 DEF NoPromptBetween
    <3>6. d[i].kind \in Spoken /\ d[j].kind = "reply" /\ r.msg = d[i] /\ q.msg = d[j]
      BY <1>2, <2>4, <3>1, <3>2
    <3> QED BY <1>15, <3>4, <3>5, <3>6 DEF OneOwner
  <2> QED BY <1>5, <2>1, <2>2, <2>3, <2>4 DEF RowsOK
<1> QED BY <1>2, <1>11, <1>12, <1>13, <1>14, <1>15 DEF ListOK

(* The kinds of the messages that a compaction keeps.                         *)
LEMMA RebuiltShape ==
    ASSUME NEW ms \in Seq(MessageType), NEW rs, PlacesOK(ms, rs),
           NEW b \in 2 .. (Len(ms) + 1), (Len(ms) >= 2 /\ ms[2].kind = "refresh") => b >= 3,
           NEW d \in Seq(MessageType), Rebuilt(d, ms, b),
           \A i \in 1 .. Len(d) : d[i].kind \notin {"nudge", "memory"}
    PROVE  /\ Shape(d)
           /\ \A i, j \in 1 .. Len(d) : d[i] = d[j] => i = j
           /\ \A i \in 3 .. Len(d) : i - 3 + b \in 1 .. Len(ms)
<1>1. Len(ms) \in Nat /\ Len(d) \in Nat /\ Len(d) = Len(ms) + 3 - b
  BY DEF Rebuilt
<1>2. \A i \in 3 .. Len(d) : i - 3 + b \in 1 .. Len(ms) /\ i - 3 + b >= b /\ d[i] = ms[i - 3 + b]
  BY <1>1 DEF Rebuilt
<1>3. Len(d) >= 2 /\ d[1] = System /\ d[2].kind = "refresh" /\ d[1].kind = "system"
  BY <1>1 DEF Rebuilt, System, Message
<1>4. ASSUME NEW i \in 3 .. Len(d) PROVE d[i].kind \in Spoken
  <2>1. i \in 1 .. Len(d) /\ d[i] \in MessageType
    BY <1>1
  <2>2. i - 3 + b \in 1 .. Len(ms) /\ i - 3 + b >= b /\ d[i] = ms[i - 3 + b]
    BY <1>2
  <2> DEFINE l == i - 3 + b
  <2>3. l \in 1 .. Len(ms) /\ l >= b /\ d[i] = ms[l]
    BY <2>2
  <2> HIDE DEF l
  <2>4. (ms[l].kind = "system" => l = 1) /\ (ms[l].kind = "refresh" => l = 2)
    BY <2>3 DEF PlacesOK
  <2>5. d[i].kind \notin {"system", "refresh"}
    <3>1. l # 1
      BY <2>3
    <3>2. l = 2 => b = 2 /\ Len(ms) >= 2
      BY <1>1, <2>3
    <3> QED BY <2>3, <2>4, <3>1, <3>2
  <2>6. d[i].kind \in Kinds
    BY <2>1 DEF MessageType
  <2> QED BY <2>1, <2>5, <2>6 DEF Kinds, Spoken
<1>5. Shape(d)
  BY <1>3, <1>4 DEF Shape
<1>6. ASSUME NEW i \in 1 .. Len(d), NEW j \in 1 .. Len(d), d[i] = d[j] PROVE i = j
  <2>1. i \in {1, 2} \/ i \in 3 .. Len(d)
    BY <1>1
  <2>2. j \in {1, 2} \/ j \in 3 .. Len(d)
    BY <1>1
  <2>3. CASE i \in 3 .. Len(d) /\ j \in 3 .. Len(d)
    <3>1. PICK k \in 1 .. Len(ms) : k = i - 3 + b /\ d[i] = ms[k]
      BY <1>2, <2>3
    <3>2. PICK l \in 1 .. Len(ms) : l = j - 3 + b /\ d[j] = ms[l]
      BY <1>2, <2>3
    <3>3. k = l
      BY <1>6, <3>1, <3>2 DEF PlacesOK
    <3> QED BY <2>3, <3>1, <3>2, <3>3
  <2>4. CASE i \in {1, 2} \/ j \in {1, 2}
    BY <1>3, <1>4, <1>6, <2>1, <2>2, <2>4 DEF Spoken
  <2> QED BY <2>1, <2>2, <2>3, <2>4
<1> QED BY <1>2, <1>5, <1>6

(* No message that is kept gets a greater number than it had.                 *)
LEMMA RebuiltRanks ==
    ASSUME NEW ms \in Seq(MessageType), NEW b \in 2 .. (Len(ms) + 1),
           NEW d, Shape(d), Rebuilt(d, ms, b), Len(d) >= 3 => d[3].kind = "prompt",
           NEW i \in 3 .. Len(d)
    PROVE  Upto(Prompts(d, i), Replies(d, i), Prompts(ms, i - 3 + b), Replies(ms, i - 3 + b))
<1>1. Len(ms) \in Nat /\ Len(d) \in Nat /\ Len(d) = Len(ms) + 3 - b
  BY ShapeKinds DEF Rebuilt
<1> DEFINE U(k) == Upto(Prompts(d, k), Replies(d, k), Prompts(ms, k - 3 + b), Replies(ms, k - 3 + b))
           N == { m \in Nat : m + 3 \in 3 .. Len(d) => U(m + 3) }
<1>2. \A k \in 3 .. Len(d) : k - 3 + b \in Nat /\ k - 3 + b - 1 \in Nat /\ k \in Nat /\ k - 1 \in Nat
                               /\ d[k] = ms[k - 3 + b]
  BY <1>1 DEF Rebuilt
<1>3. 0 \in N
  <2> SUFFICES ASSUME 3 \in 3 .. Len(d) PROVE U(3)
    OBVIOUS
  <2>1. 3 - 3 + b = b /\ b \in Nat /\ b - 1 \in Nat /\ (b - 1) + 1 = b /\ d[3] = ms[b]
    BY <1>2
  <2>2. d[3].kind = "prompt"
    BY <1>1
  <2>3. Prompts(d, 3) = 1 /\ Replies(d, 3) = 0
    BY <1>1, NumbersOfShape
  <2>4. Prompts(ms, b) = Prompts(ms, b - 1) + 1 /\ Replies(ms, b) = 0
    <3>1. /\ Prompts(ms, (b - 1) + 1) = IF ms[(b - 1) + 1].kind = "prompt" THEN Prompts(ms, b - 1) + 1
                                        ELSE Prompts(ms, b - 1)
          /\ Replies(ms, (b - 1) + 1) = IF ms[(b - 1) + 1].kind = "prompt" THEN 0
                                        ELSE IF ms[(b - 1) + 1].kind = "reply" THEN Replies(ms, b - 1) + 1
                                        ELSE Replies(ms, b - 1)
      BY <2>1, CountsGoOn
    <3> QED BY <2>1, <2>2, <3>1
  <2>5. Prompts(ms, b - 1) \in Nat
    BY <2>1, CountsAreNumbers
  <2> QED BY <2>1, <2>3, <2>4, <2>5 DEF Upto
<1>4. ASSUME NEW m \in Nat, m \in N PROVE m + 1 \in N
  <2> SUFFICES ASSUME m + 4 \in 3 .. Len(d) PROVE U(m + 4)
    BY <1>4
  <2> DEFINE k == m + 3
             l == m + b
  <2>1. k \in Nat /\ l \in Nat /\ k \in 3 .. Len(d) /\ k + 1 = m + 4 /\ k - 3 + b = l
        /\ (m + 4) - 3 + b = l + 1 /\ d[k + 1] = ms[l + 1] /\ k + 1 \in 3 .. Len(d)
    <3>1. d[m + 4] = ms[(m + 4) - 3 + b]
      BY <1>2
    <3>2. (m + 4) - 3 + b = l + 1 /\ k + 1 = m + 4
      OBVIOUS
    <3> QED BY <1>1, <3>1, <3>2
  <2>2. U(k)
    BY <1>4, <2>1
  <2> HIDE DEF k, l
  <2>3. Upto(Prompts(d, k), Replies(d, k), Prompts(ms, l), Replies(ms, l))
    BY <2>1, <2>2
  <2>4. /\ Prompts(d, k) \in Nat /\ Replies(d, k) \in Nat
        /\ Prompts(ms, l) \in Nat /\ Replies(ms, l) \in Nat
    BY <2>1, CountsAreNumbers
  <2>5. d[k + 1].kind \in Spoken
    BY <2>1 DEF Shape
  <2>6. /\ Prompts(d, k + 1) = IF d[k + 1].kind = "prompt" THEN Prompts(d, k) + 1 ELSE Prompts(d, k)
        /\ Replies(d, k + 1) = IF d[k + 1].kind = "prompt" THEN 0
                               ELSE IF d[k + 1].kind = "reply" THEN Replies(d, k) + 1
                               ELSE Replies(d, k)
    BY <2>1, CountsGoOn
  <2>7. /\ Prompts(ms, l + 1) = IF ms[l + 1].kind = "prompt" THEN Prompts(ms, l) + 1 ELSE Prompts(ms, l)
        /\ Replies(ms, l + 1) = IF ms[l + 1].kind = "prompt" THEN 0
                                ELSE IF ms[l + 1].kind = "reply" THEN Replies(ms, l) + 1
                                ELSE Replies(ms, l)
    BY <2>1, CountsGoOn
  <2>8. Upto(Prompts(d, k + 1), Replies(d, k + 1), Prompts(ms, l + 1), Replies(ms, l + 1))
    BY <2>1, <2>3, <2>4, <2>5, <2>6, <2>7 DEF Spoken, Upto
  <2> QED BY <2>1, <2>8
<1> HIDE DEF N
<1>5. Nat \subseteq N
  BY <1>3, <1>4, SetInduction
<1>6. i - 3 \in N /\ (i - 3) + 3 = i
  BY <1>1, <1>5
<1> QED BY <1>6 DEF N

-----------------------------------------------------------------------------
(* The rows of the rebuilt session, and the turn that goes on.                *)
LEMMA ReplacedInOrder ==
    ASSUME NEW ms \in Seq(MessageType), NEW rs, rs \subseteq RowType, RowsOK(rs), ListOK(ms, rs),
           NEW t \in Nat, NEW s \in Nat, NEW a, ActiveOK(ms, rs, t, s, a),
           NEW b \in 2 .. (Len(ms) + 1), (Len(ms) >= 2 /\ ms[2].kind = "refresh") => b >= 3,
           NEW d \in Seq(MessageType), Rebuilt(d, ms, b), HasUniqueKeys(Numbered(d)),
           \A i \in 1 .. Len(d) : d[i].kind \notin {"nudge", "memory"}
    PROVE  /\ RowsOK(Numbered(d)) /\ ListOK(d, Numbered(d))
           /\ ActiveOK(d, Numbered(d), t, s, a)
           /\ Prompts(d, Len(d)) <= t
<1> DEFINE n == Len(d)
           L == Len(ms)
           new == Numbered(d)
<1>1. /\ Shape(d) /\ \A i, j \in 1 .. n : d[i] = d[j] => i = j
      /\ \A i \in 3 .. n : i - 3 + b \in 1 .. L
  <2>1. PlacesOK(ms, rs)
    BY DEF ListOK
  <2> QED BY <2>1, RebuiltShape
<1>2. n >= 3 => d[3].kind = "prompt"
  BY <1>1, KeptBeginsWithPrompt
<1>3. /\ n \in Nat /\ n >= 2 /\ L \in Nat /\ n = L + 3 - b
      /\ d[1].kind = "system" /\ d[2].kind = "refresh" /\ d[1] = System
      /\ \A k \in 1 .. n : k = 1 \/ k = 2 \/ k \in 3 .. n
      /\ \A k \in 3 .. n : d[k].kind \in Spoken /\ d[k] = ms[k - 3 + b]
  BY <1>1, ShapeKinds DEF Shape, Rebuilt
<1>4. OneOwner(ms)
  BY OwnersAgree
<1>5. OneOwner(d)
  <2> SUFFICES ASSUME NEW i \in 1 .. n, NEW j \in 1 .. n, i < j,
                      d[i].kind \in Spoken, d[j].kind = "reply",
                      \A k \in (i + 1) .. j : d[k].kind # "prompt"
               PROVE  d[i].owner = d[j].owner
    BY DEF OneOwner
  <2>1. i \in 3 .. n /\ j \in 3 .. n
    BY <1>3 DEF Spoken
  <2>2. PICK x \in 1 .. L : x = i - 3 + b /\ d[i] = ms[x]
    BY <1>1, <1>3, <2>1
  <2>3. PICK y \in 1 .. L : y = j - 3 + b /\ d[j] = ms[y]
    BY <1>1, <1>3, <2>1
  <2>4. ASSUME NEW l \in (x + 1) .. y PROVE ms[l].kind # "prompt"
    <3>1. PICK k \in (i + 1) .. j : k - 3 + b = l
      <4>1. l + 3 - b \in (i + 1) .. j /\ (l + 3 - b) - 3 + b = l
        BY <1>3, <2>2, <2>3
      <4> QED BY <4>1
    <3>2. k \in 3 .. n
      BY <1>3, <2>1
    <3> QED BY <1>3, <3>1, <3>2
  <2>5. x < y
    BY <1>3, <2>2, <2>3
  <2> QED BY <1>4, <2>2, <2>3, <2>4, <2>5 DEF OneOwner
<1>6. RowsOK(new) /\ ListOK(d, new)
  BY <1>1, <1>2, <1>5, ShapeRows
<1>7. /\ new = { RowAt(d, i) : i \in 1 .. n }
      /\ \A k \in 1 .. n :
            /\ RowAt(d, k) \in RowType /\ RowAt(d, k).msg = d[k]
            /\ RowAt(d, k).turn = (IF k = 2 THEN 0 ELSE Prompts(d, k))
            /\ RowAt(d, k).seq = (IF k = 2 THEN 1 ELSE Replies(d, k))
  BY <1>1, RowsOfShape
<1>8. /\ Prompts(d, 1) = 0 /\ Replies(d, 1) = 0 /\ Prompts(d, 2) = 0 /\ Replies(d, 2) = 0
      /\ \A i \in 3 .. n : Prompts(d, i) \in Nat /\ Replies(d, i) \in Nat
  BY <1>1, <1>2, NumbersOfShape
<1>9. \A i, j \in 1 .. n : i < j => Precedes(RowAt(d, i), RowAt(d, j))
  BY <1>1, <1>2, ShapeInLine
<1>10. \A r \in rs : r.turn \in Nat /\ r.seq \in Nat /\ Upto(r.turn, r.seq, t, s)
  BY DEF RowType, ActiveOK
<1>11. \A i \in 1 .. n : RowAt(d, i).turn \in Nat /\ RowAt(d, i).seq \in Nat
  BY <1>7 DEF RowType
<1>12. t >= 1
  BY DEF ActiveOK
<1> HIDE DEF new
(* What comes last in the transcript has a row, and is the author's.          *)
<1>13. ASSUME n >= 3
       PROVE  /\ Upto(Prompts(d, n), Replies(d, n), t, s)
              /\ d[n].owner = a
  <2>1. n \in 3 .. n /\ n - 3 + b = L /\ d[n] = ms[L] /\ d[n].kind \in Spoken /\ L \in 1 .. L
    <3>1. n \in 3 .. n /\ n - 3 + b = L
      BY <1>3, <1>13
    <3>2. d[n] = ms[n - 3 + b] /\ d[n].kind \in Spoken /\ n - 3 + b \in 1 .. L
      BY <1>1, <1>3, <3>1
    <3> QED BY <3>1, <3>2
  <2>2. PICK i0 \in 1 .. L : ms[i0] \in Msgs(rs) /\ \A k \in (i0 + 1) .. L : ms[k].kind = "memory"
    BY DEF ActiveOK
  <2>3. i0 = L
    <3>1. L \notin (i0 + 1) .. L
      BY <2>1, <2>2 DEF Spoken
    <3> QED BY <1>3, <3>1
  <2>4. PICK r0 \in rs : r0.msg = ms[L]
    BY <2>2, <2>3 DEF Msgs
  <2>5. Upto(Prompts(ms, L), Replies(ms, L), r0.turn, r0.seq)
    BY <2>1, <2>4 DEF ListOK, KeysCover
  <2>6. Upto(Prompts(d, n), Replies(d, n), Prompts(ms, L), Replies(ms, L))
    <3>1. Upto(Prompts(d, n), Replies(d, n), Prompts(ms, n - 3 + b), Replies(ms, n - 3 + b))
      BY <1>1, <1>2, <2>1, RebuiltRanks
    <3> QED BY <2>1, <3>1
  <2>7. Prompts(ms, L) \in Nat /\ Replies(ms, L) \in Nat
    BY <1>3, CountsAreNumbers
  <2>8. Prompts(d, n) \in Nat /\ Replies(d, n) \in Nat
    BY <1>8, <2>1
  <2>9. Upto(Prompts(d, n), Replies(d, n), t, s)
    BY <1>10, <2>4, <2>5, <2>6, <2>7, <2>8 DEF Upto
  <2>10. ASSUME NEW x \in rs, x.msg.kind = "prompt", Precedes(r0, x) PROVE FALSE
    <3>1. PICK k \in 1 .. L : ms[k] = x.msg
      BY DEF ListOK, PlacesOK
    <3>2. \A y, z \in rs : Precedes(y, z) => ~Precedes(z, y) /\ y # z
      BY KeysAreInLine
    <3>3. CASE k < L
      BY <2>1, <2>4, <2>10, <3>1, <3>2, <3>3 DEF ListOK, InOrder
    <3>4. CASE k = L
      BY <2>4, <2>10, <3>1, <3>2, <3>4 DEF RowsOK
    <3> QED BY <1>3, <3>3, <3>4
  <2>11. r0.msg.owner = a
    BY <2>1, <2>4, <2>10 DEF ActiveOK
  <2> QED BY <2>1, <2>4, <2>9, <2>11
<1>14. Prompts(d, n) <= t
  <2>1. CASE n = 2
    BY <1>8, <1>12, <2>1
  <2>2. CASE n >= 3
    <3>1. n \in 3 .. n
      BY <1>3, <2>2
    <3>2. Prompts(d, n) \in Nat
      BY <1>8, <3>1
    <3> QED BY <1>13, <2>2, <3>2 DEF Upto
  <2> QED BY <1>3, <2>1, <2>2
<1>15. ASSUME NEW i \in 1 .. n PROVE Upto(RowAt(d, i).turn, RowAt(d, i).seq, t, s)
  <2>1. CASE i \in {1, 2}
    <3>1. RowAt(d, i).turn = 0
      BY <1>7, <1>8, <2>1
    <3> QED BY <1>12, <3>1 DEF Upto
  <2>2. CASE i \in 3 .. n
    <3>1. n \in 3 .. n /\ n \in 1 .. n /\ n # 2
      BY <1>3, <2>2
    <3>2. RowAt(d, n).turn = Prompts(d, n) /\ RowAt(d, n).seq = Replies(d, n)
      BY <1>7, <3>1
    <3>3. Upto(RowAt(d, n).turn, RowAt(d, n).seq, t, s)
      BY <1>13, <3>1, <3>2
    <3>4. i < n \/ i = n
      BY <1>3
    <3>5. /\ RowAt(d, i).turn \in Nat /\ RowAt(d, i).seq \in Nat
          /\ RowAt(d, n).turn \in Nat /\ RowAt(d, n).seq \in Nat
      BY <1>11, <3>1
    <3>6. CASE i = n
      BY <3>3, <3>6
    <3>7. CASE i < n
      <4>1. Precedes(RowAt(d, i), RowAt(d, n))
        BY <1>9, <3>1, <3>7
      <4> QED BY <3>3, <3>5, <4>1 DEF Upto, Precedes
    <3> QED BY <3>4, <3>6, <3>7
  <2> QED BY <1>3, <2>1, <2>2
<1>16. ASSUME NEW r \in new, r.msg.kind \in Spoken,
              \A x \in new : x.msg.kind = "prompt" => ~Precedes(r, x)
       PROVE  r.msg.owner = a
  <2>1. PICK i \in 1 .. n : r = RowAt(d, i)
    BY <1>7
  <2>2. r.msg = d[i] /\ d[i].kind \in Spoken
    BY <1>7, <1>16, <2>1
  <2>3. i \in 3 .. n /\ n >= 3
    <3>1. i \in 3 .. n
      BY <1>3, <2>2 DEF Spoken
    <3> QED BY <1>3, <3>1
  <2>4. d[n].owner = a
    BY <1>13, <2>3
  <2>5. CASE i < n
    <3>1. ASSUME NEW k \in (i + 1) .. n, d[k].kind = "prompt" PROVE FALSE
      <4>1. k \in 1 .. n /\ i < k
        BY <1>3
      <4>2. RowAt(d, k) \in new /\ RowAt(d, k).msg = d[k]
        BY <1>7, <4>1
      <4>3. Precedes(RowAt(d, i), RowAt(d, k))
        BY <1>9, <4>1
      <4> QED BY <1>16, <2>1, <3>1, <4>2, <4>3
    <3>2. n \in (i + 1) .. n /\ n \in 3 .. n /\ n \in 1 .. n
      BY <1>3, <2>3, <2>5
    <3>3. d[n].kind = "reply"
      BY <1>3, <3>1, <3>2 DEF Spoken
    <3> QED BY <1>5, <2>2, <2>4, <2>5, <3>1, <3>2, <3>3 DEF OneOwner
  <2>6. CASE i = n
    BY <2>2, <2>4, <2>6
  <2>7. i < n \/ i = n
    BY <1>3
  <2> QED BY <2>5, <2>6, <2>7
<1>17. \E i \in 1 .. n : d[i] \in Msgs(new) /\ \A k \in (i + 1) .. n : d[k].kind = "memory"
  <2>1. n \in 1 .. n /\ \A k \in (n + 1) .. n : d[k].kind = "memory"
    BY <1>3
  <2>2. d[n] \in Msgs(new)
    BY <1>7, <2>1 DEF Msgs
  <2> QED BY <2>1, <2>2
<1>18. ActiveOK(d, new, t, s, a)
  <2>1. \A r \in new : Upto(r.turn, r.seq, t, s)
    BY <1>7, <1>15
  <2> QED BY <1>12, <1>16, <1>17, <2>1 DEF ActiveOK
<1> QED BY <1>6, <1>14, <1>18 DEF new

-----------------------------------------------------------------------------
(* The session is read back                                                   *)

(* A row that precedes another has the lesser rank.                           *)
LEMMA RanksGrow ==
    ASSUME rows \subseteq RowType, KeysInv
    PROVE  /\ \A r, q \in rows : Precedes(r, q) => Before(r) < Before(q)
           /\ \A r, q \in rows : Before(r) = Before(q) => r = q
           /\ \A r, q \in rows : Before(r) < Before(q) => Precedes(r, q)
           /\ \A r \in rows : Before(r) \in Nat
<1> DEFINE B(r) == { x \in rows : Precedes(x, r) }
<1>1. \A r \in rows : IsFiniteSet(B(r)) /\ Before(r) = Cardinality(B(r))
  BY FS_Subset DEF KeysInv, Before
<1>2. \A r \in rows : Before(r) \in Nat
  <2> HIDE DEF B
  <2> QED BY <1>1, FS_CardinalityType
<1>3. /\ \A r \in rows : ~Precedes(r, r)
      /\ \A r, q, x \in rows : Precedes(r, q) /\ Precedes(q, x) => Precedes(r, x)
      /\ \A r, q \in rows : r = q \/ Precedes(r, q) \/ Precedes(q, r)
  BY KeysAreInLine DEF KeysInv
<1>4. ASSUME NEW r \in rows, NEW q \in rows, Precedes(r, q) PROVE Before(r) < Before(q)
  <2>1. B(r) \cup {r} \subseteq B(q) /\ r \notin B(r)
    BY <1>3, <1>4
  <2> HIDE DEF B
  <2>2. Cardinality(B(r) \cup {r}) = Cardinality(B(r)) + 1
    BY <1>1, <2>1, FS_AddElement
  <2>3. Cardinality(B(r) \cup {r}) <= Cardinality(B(q))
    BY <1>1, <2>1, FS_Subset
  <2> QED BY <1>1, <1>2, <2>2, <2>3
<1>5. \A r, q \in rows : Before(r) = Before(q) => r = q
  <2> SUFFICES ASSUME NEW r \in rows, NEW q \in rows, Before(r) = Before(q), r # q PROVE FALSE
    OBVIOUS
  <2>1. Before(r) < Before(q) \/ Before(q) < Before(r)
    BY <1>3, <1>4
  <2> QED BY <1>2, <2>1
<1>6. \A r, q \in rows : Before(r) < Before(q) => Precedes(r, q)
  <2> SUFFICES ASSUME NEW r \in rows, NEW q \in rows, Before(r) < Before(q), ~Precedes(r, q) PROVE FALSE
    OBVIOUS
  <2>1. r = q \/ Before(q) < Before(r)
    BY <1>3, <1>4
  <2> QED BY <1>2, <2>1
<1> QED BY <1>2, <1>4, <1>5, <1>6

(* What is read back is the rows, one after the other.                        *)
LEMMA ReadBackRows ==
    ASSUME rows \subseteq RowType, KeysInv
    PROVE  \E R : /\ DOMAIN R = 1 .. Len(Stored)
                  /\ \A i \in 1 .. Len(Stored) : R[i] \in rows /\ R[i].msg = Stored[i] /\ Before(R[i]) = i - 1
                  /\ \A r \in rows : \E i \in 1 .. Len(Stored) : R[i] = r
                  /\ \A i, j \in 1 .. Len(Stored) : i < j => Precedes(R[i], R[j])
<1> DEFINE n == Cardinality(rows)
           R == [i \in 1 .. n |-> CHOOSE r \in rows : Before(r) = i - 1]
<1>1. /\ n \in Nat
      /\ \A i \in 1 .. n : \E r \in rows : Before(r) = i - 1
      /\ \A r \in rows : Before(r) + 1 \in 1 .. n
  BY EveryRankIsTaken DEF KeysInv
<1>2. Stored = [i \in 1 .. n |-> (CHOOSE r \in rows : Before(r) = i - 1).msg]
  BY DEF Stored
<1>3. Len(Stored) = n
  BY AllIsReadBack DEF KeysInv
<1>4. \A i \in 1 .. n : R[i] \in rows /\ Before(R[i]) = i - 1
  BY <1>1
<1>5. \A i \in 1 .. n : R[i].msg = Stored[i]
  BY <1>2
<1>6. DOMAIN R = 1 .. n
  OBVIOUS
<1> HIDE DEF R, n
<1>7. \A r \in rows : \E i \in 1 .. n : R[i] = r
  <2> SUFFICES ASSUME NEW r \in rows PROVE \E i \in 1 .. n : R[i] = r
    OBVIOUS
  <2>1. PICK i \in 1 .. n : i = Before(r) + 1
    BY <1>1
  <2>2. Before(R[i]) = Before(r)
    BY <1>4, <2>1, RanksGrow
  <2> QED BY <1>4, <2>2, RanksGrow
<1>8. \A i, j \in 1 .. n : i < j => Precedes(R[i], R[j])
  <2> SUFFICES ASSUME NEW i \in 1 .. n, NEW j \in 1 .. n, i < j PROVE Precedes(R[i], R[j])
    OBVIOUS
  <2>1. Before(R[i]) < Before(R[j])
    BY <1>1, <1>4
  <2> QED BY <1>4, <2>1, RanksGrow
<1> QED BY <1>3, <1>4, <1>5, <1>6, <1>7, <1>8

(* So it is in order.                                                         *)
LEMMA ReadBackIsOK ==
    ASSUME rows \subseteq RowType, KeysInv, RowsOK(rows)
    PROVE  /\ ListOK(Stored, rows)
           /\ Prompts(Stored, Len(Stored)) <= Max({ r.turn : r \in rows })
<1> DEFINE n == Len(Stored)
<1>1. PICK R : /\ \A i \in 1 .. n : R[i] \in rows /\ R[i].msg = Stored[i] /\ Before(R[i]) = i - 1
               /\ \A r \in rows : \E i \in 1 .. n : R[i] = r
               /\ \A i, j \in 1 .. n : i < j => Precedes(R[i], R[j])
  BY ReadBackRows
<1>2. n \in Nat
  BY AllIsReadBack DEF KeysInv
<1> HIDE DEF n
<1>3. \A r \in rows : r.turn \in Nat /\ r.seq \in Nat
  BY DEF RowType
<1>4. Row(0, 0, System) \in rows /\ \A r \in rows : KeyOK(r)
  BY DEF RowsOK
<1>5. \A r, q \in rows : r.msg = q.msg => r = q
  BY DEF RowsOK
<1>6. Row(0, 0, System).turn = 0 /\ Row(0, 0, System).seq = 0 /\ Row(0, 0, System).msg = System
      /\ System.kind = "system"
  BY DEF Row, System, Message
<1>7. \A r \in rows : /\ r.msg.kind = "system" => r = Row(0, 0, System)
                      /\ r.msg.kind = "refresh" => r.turn = 0 /\ r.seq = 1
                      /\ r.msg.kind = "prompt" => r.turn >= 1 /\ r.seq = 0
                      /\ r.msg.kind \in {"system", "refresh", "prompt", "reply"}
  BY <1>4, <1>6 DEF KeyOK
<1>8. \A r, q \in rows : r.turn = q.turn /\ r.seq = q.seq => r = q
  BY DEF KeysInv, HasUniqueKeys
(* The system message comes first, the summary second.                        *)
<1>9. PICK z \in 1 .. n : R[z] = Row(0, 0, System)
  BY <1>1, <1>4
<1>10. z = 1
  <2> SUFFICES ASSUME z # 1 PROVE FALSE
    OBVIOUS
  <2>1. 1 \in 1 .. n /\ 1 < z
    BY <1>2
  <2>2. Precedes(R[1], R[z]) /\ R[1] \in rows
    BY <1>1, <2>1
  <2> QED BY <1>3, <1>6, <1>9, <2>2 DEF Precedes
<1>11. n # 0 /\ Stored[1] = System /\ 1 \in 1 .. n
  BY <1>1, <1>2, <1>6, <1>9, <1>10
<1>12. ASSUME NEW i \in 1 .. n, R[i].msg.kind = "refresh" PROVE i = 2
  <2>1. R[i].turn = 0 /\ R[i].seq = 1 /\ R[i] \in rows
    BY <1>1, <1>7, <1>12
  <2>2. i # 1
    BY <1>6, <1>9, <1>10, <1>12
  <2>3. ASSUME i > 2 PROVE FALSE
    <3>1. 2 \in 1 .. n /\ 1 < 2 /\ 2 < i
      BY <1>2, <2>3
    <3>2. Precedes(R[1], R[2]) /\ Precedes(R[2], R[i]) /\ R[2] \in rows
      BY <1>1, <1>11, <3>1
    <3>3. R[2].turn \in Nat /\ R[2].seq \in Nat
      BY <1>3, <3>2
    <3> QED BY <1>6, <1>9, <1>10, <2>1, <3>2, <3>3 DEF Precedes
  <2> QED BY <1>2, <2>2, <2>3
<1>13. \A i \in 1 .. n : \A r \in rows : r.msg = Stored[i] => r = R[i]
  BY <1>1, <1>5
<1>14. PlacesOK(Stored, rows)
  <2>1. \A r \in rows : \E i \in 1 .. n : Stored[i] = r.msg
    BY <1>1
  <2>2. \A i \in 1 .. n : Stored[i] \in Msgs(rows)
    BY <1>1 DEF Msgs
  <2>3. \A i \in 1 .. n : (Stored[i].kind = "system" => i = 1) /\ (Stored[i].kind = "refresh" => i = 2)
    <3> SUFFICES ASSUME NEW i \in 1 .. n
                 PROVE  (Stored[i].kind = "system" => i = 1) /\ (Stored[i].kind = "refresh" => i = 2)
      OBVIOUS
    <3>1. R[i] \in rows /\ R[i].msg = Stored[i] /\ Before(R[i]) = i - 1
      BY <1>1
    <3>2. CASE Stored[i].kind = "system"
      <4>1. R[i] = R[1]
        BY <1>7, <1>9, <1>10, <3>1, <3>2
      <4>2. Before(R[1]) = 0
        BY <1>1, <1>11
      <4>3. i - 1 = 0
        BY <3>1, <4>1, <4>2
      <4> QED BY <3>2, <4>3
    <3> QED BY <1>12, <3>1, <3>2
  <2>4. \A i, j \in 1 .. n : Stored[i] = Stored[j] => i = j
    <3> SUFFICES ASSUME NEW i \in 1 .. n, NEW j \in 1 .. n, Stored[i] = Stored[j] PROVE i = j
      OBVIOUS
    <3>1. R[i] = R[j]
      BY <1>1, <1>5
    <3>2. i - 1 = j - 1
      BY <1>1, <3>1
    <3> QED BY <3>2
  <2> QED BY <1>11, <2>1, <2>2, <2>3, <2>4 DEF PlacesOK, n
<1>15. InOrder(Stored, rows)
  BY <1>1, <1>13 DEF InOrder, n
<1>16. NoneAnswered(Stored, rows)
  <2>1. \A i \in 1 .. n : Stored[i] \in Msgs(rows)
    BY <1>1 DEF Msgs
  <2> QED BY <2>1 DEF NoneAnswered, n
<1> DEFINE U(i) == Upto(Prompts(Stored, i), Replies(Stored, i), R[i].turn, R[i].seq)
           N == { m \in Nat : m + 1 \in 1 .. n => U(m + 1) }
<1>17. 0 \in N
  <2>1. Prompts(Stored, 0) = 0 /\ Replies(Stored, 0) = 0
    <3>1. { j \in 1 .. 0 : Stored[j].kind = "prompt" } = {}
          /\ { j \in 1 .. 0 : Stored[j].kind = "reply" /\ \A k \in j .. 0 : Stored[k].kind # "prompt" } = {}
      OBVIOUS
    <3> QED BY <3>1, FS_EmptySet DEF Prompts, Replies
  <2>2. Prompts(Stored, 1) = 0 /\ Replies(Stored, 1) = 0
    <3>1. 0 \in Nat /\ 0 + 1 = 1
      OBVIOUS
    <3> QED BY <1>6, <1>11, <2>1, <3>1, CountsGoOn
  <2>3. U(1)
    BY <1>6, <1>9, <1>10, <2>2 DEF Upto
  <2> QED BY <2>3
<1>18. ASSUME NEW m \in Nat, m \in N PROVE m + 1 \in N
  <2> SUFFICES ASSUME m + 2 \in 1 .. n PROVE U(m + 2)
    BY <1>18
  <2> DEFINE k == m + 1
  <2>1. k \in Nat /\ k \in 1 .. n /\ k + 1 \in 1 .. n /\ k < k + 1 /\ k + 1 = m + 2
    BY <1>2
  <2>2. U(k)
    BY <1>18, <2>1
  <2> HIDE DEF k
  <2>3. Upto(Prompts(Stored, k), Replies(Stored, k), R[k].turn, R[k].seq)
    BY <2>2
  <2>4. Prompts(Stored, k) \in Nat /\ Replies(Stored, k) \in Nat
    BY <2>1, CountsAreNumbers
  <2>5. PICK r \in rows : r = R[k]
    BY <1>1, <2>1
  <2>6. PICK q \in rows : q = R[k + 1]
    BY <1>1, <2>1
  <2>7. Precedes(r, q)
    BY <1>1, <2>1, <2>5, <2>6
  <2>8. q.msg = Stored[k + 1]
    BY <1>1, <2>1, <2>6
  <2>9. r.turn \in Nat /\ r.seq \in Nat /\ q.turn \in Nat /\ q.seq \in Nat
    BY <1>3
  <2>10. q.msg.kind = "prompt" => q.seq = 0
    BY <1>7
  <2>11. /\ Prompts(Stored, k + 1) = IF Stored[k + 1].kind = "prompt" THEN Prompts(Stored, k) + 1
                                     ELSE Prompts(Stored, k)
         /\ Replies(Stored, k + 1) = IF Stored[k + 1].kind = "prompt" THEN 0
                                     ELSE IF Stored[k + 1].kind = "reply" THEN Replies(Stored, k) + 1
                                     ELSE Replies(Stored, k)
    BY <2>1, CountsGoOn
  <2>12. Upto(Prompts(Stored, k), Replies(Stored, k), r.turn, r.seq)
    BY <2>3, <2>5
  <2>13. Upto(Prompts(Stored, k + 1), Replies(Stored, k + 1), q.turn, q.seq)
    BY <2>4, <2>7, <2>8, <2>9, <2>10, <2>11, <2>12 DEF Upto, Precedes
  <2> QED BY <2>1, <2>6, <2>13
<1> HIDE DEF N
<1>19. Nat \subseteq N
  BY <1>17, <1>18, SetInduction
<1>20. ASSUME NEW i \in 1 .. n PROVE U(i)
  <2>1. i - 1 \in N /\ (i - 1) + 1 = i
    BY <1>19
  <2> QED BY <2>1 DEF N
<1>21. KeysCover(Stored, rows)
  BY <1>13, <1>20 DEF KeysCover, n
<1>22. Prompts(Stored, n) <= Max({ r.turn : r \in rows })
  <2>1. n \in 1 .. n
    BY <1>2, <1>11
  <2>2. Prompts(Stored, n) \in Nat /\ R[n] \in rows
    BY <1>1, <2>1, CountsAreNumbers
  <2>3. Prompts(Stored, n) <= R[n].turn
    BY <1>3, <1>20, <2>1, <2>2 DEF Upto
  <2>4. R[n].turn <= Max({ r.turn : r \in rows }) /\ Max({ r.turn : r \in rows }) \in Nat
    BY <2>2, LastTurnIsNumber DEF KeysInv
  <2>5. R[n].turn \in Nat
    BY <1>3, <2>2
  <2> QED BY <2>2, <2>3, <2>4, <2>5
<1> QED BY <1>14, <1>15, <1>16, <1>21, <1>22 DEF ListOK, n

-----------------------------------------------------------------------------
(* The order, at every step                                                   *)

(* The next message has a number of its own.                                  *)
FreshOK ==
    /\ \A i \in 1 .. Len(messages) : messages[i].id < nextId
    /\ \A r \in rows : r.msg.id < nextId

(* The next turn, too.                                                        *)
TurnsOK ==
    /\ \A r \in rows : r.turn <= turn
    /\ Prompts(messages, Len(messages)) <= turn

(* A command runs, or the turn is paused for the author.                      *)
Active == pc \notin {"down", "idle"} \/ (pc = "idle" /\ paused)

RebuiltOK == Compacting => \E b \in BodyStart .. (Len(messages) + 1) : Rebuilt(draft, messages, b)

OrderOK ==
    /\ RowsOK(rows) /\ FreshOK /\ RebuiltOK
    /\ pc # "down" => ListOK(messages, rows) /\ TurnsOK
    /\ Active => ActiveOK(messages, rows, turn, seqNo, author)

OrderInv == (pc = "down" => ~paused) /\ (Clean => OrderOK)

(* What is in the database stays in it, so one that is clean was clean.       *)
LEMMA CleanBefore ==
    ASSUME StoreInv, Next, Clean'
    PROVE  Clean
<1>1. RowsAreKept
  <2>1. CASE Outside
    BY <2>1, OutsideKeepsRows DEF RowsAreKept
  <2>2. CASE IncrementEpoch \/ Archive \/ RecordBounds
    BY <2>2 DEF IncrementEpoch, Archive, RecordBounds, RowsAreKept
  <2>3. CASE Commit \/ CommitUnread
    BY <2>3 DEF Commit, CommitUnread, CommitSlice, StoreInv, CopyInv, RowsAreKept
  <2> QED BY <2>1, <2>2, <2>3, NextIsOutsideOrCompacts
<1>2. archive \subseteq archive'
  <2>1. CASE Outside
    BY <2>1, OutsideWritesNoArchive
  <2>2. CASE IncrementEpoch \/ Archive \/ RecordBounds \/ Commit \/ CommitUnread
    BY <2>2 DEF IncrementEpoch, Archive, RecordBounds, Commit, CommitUnread, CommitSlice
  <2> QED BY <2>1, <2>2, NextIsOutsideOrCompacts
<1>3. \A r \in rows' : r.msg.kind \notin {"nudge", "memory"}
  BY DEF Clean, Msgs
<1>4. \A a \in archive' : a.row.msg.kind \notin {"nudge", "memory"}
  BY DEF Clean
<1>5. \A r \in rows : r.msg.kind \notin {"nudge", "memory"}
  BY <1>1, <1>3, <1>4 DEF RowsAreKept
<1> QED BY <1>2, <1>4, <1>5 DEF Clean, Msgs

(* A message with the next number is new.                                     *)
LEMMA FreshIsNew ==
    ASSUME StoryInv, FreshOK, NEW kind, NEW a, NEW m, m = Message(kind, nextId, a, {})
    PROVE  /\ \A i \in 1 .. Len(messages) : messages[i] # m
           /\ \A r \in rows : r.msg # m
           /\ m.id = nextId /\ m.kind = kind /\ m.owner = a /\ nextId \in Nat
           /\ \A i \in 1 .. Len(messages) : messages[i].id \in Nat
           /\ \A r \in rows : r.msg.id \in Nat
<1>1. messages \in Seq(MessageType) /\ rows \subseteq RowType /\ RestOK
  BY StoryParts
<1>2. m.id = nextId /\ m.kind = kind /\ m.owner = a
  BY DEF Message
<1>3. nextId \in Nat
  BY <1>1, StoreAssumption DEF RestOK
<1>4. \A x \in MessageType : x.id \in Nat
  BY StoreAssumption DEF MessageType
<1>5. \A i \in 1 .. Len(messages) : messages[i] \in MessageType
  BY <1>1
<1>6. \A r \in rows : r.msg \in MessageType
  BY <1>1 DEF RowType
<1> QED BY <1>2, <1>3, <1>4, <1>5, <1>6 DEF FreshOK

(* After one that joins, the next number is new again.                        *)
LEMMA FreshGoesOn ==
    ASSUME StoryInv, FreshOK, NEW kind, NEW a, NEW m, m = Message(kind, nextId, a, {}), m \in MessageType,
           nextId' = nextId + 1, messages' = Append(messages, m),
           \A r \in rows' : r \in rows \/ r.msg = m
    PROVE  FreshOK'
<1>1. /\ m.id = nextId /\ nextId \in Nat
      /\ \A i \in 1 .. Len(messages) : messages[i].id \in Nat
      /\ \A r \in rows : r.msg.id \in Nat
  BY FreshIsNew
<1>2. messages \in Seq(MessageType)
  BY StoryParts
<1> DEFINE q == Append(messages, m)
<1>3. /\ q[Len(messages) + 1] = m
      /\ \A i \in 1 .. Len(messages) : q[i] = messages[i]
      /\ \A i \in 1 .. Len(q) : i \in 1 .. Len(messages) \/ i = Len(messages) + 1
  BY <1>2, AppendAt
<1>4. messages' = q
  OBVIOUS
<1> HIDE DEF q
<1>5. \A i \in 1 .. Len(q) : q[i].id < nextId + 1
  BY <1>1, <1>3 DEF FreshOK
<1>6. \A r \in rows' : r.msg.id < nextId + 1
  BY <1>1 DEF FreshOK
<1> QED BY <1>4, <1>5, <1>6 DEF FreshOK

(* A step that writes no message.                                             *)
LEMMA SameOrder ==
    ASSUME StoryInv, OrderOK, rows' = rows, messages' = messages, turn' = turn, author' = author,
           nextId' \in {nextId, nextId + 1}, seqNo' \in Nat, pc # "down", pc' # "down", RebuiltOK',
           Active' => /\ Active
                      /\ seqNo' >= seqNo \/ \A r \in rows : r.turn = turn => r.seq <= seqNo'
    PROVE  OrderOK'
<1>1. messages \in Seq(MessageType) /\ rows \subseteq RowType /\ RestOK
  BY StoryParts
<1>2. nextId \in Nat /\ turn \in Nat /\ seqNo \in Nat
  BY <1>1, StoreAssumption DEF RestOK
<1>3. FreshOK'
  <2>1. \A x \in MessageType : x.id \in Nat
    BY StoreAssumption DEF MessageType
  <2>2. \A i \in 1 .. Len(messages) : messages[i].id \in Nat /\ messages[i].id < nextId
    BY <1>1, <2>1 DEF OrderOK, FreshOK
  <2>3. \A r \in rows : r.msg.id \in Nat /\ r.msg.id < nextId
    BY <1>1, <2>1 DEF OrderOK, FreshOK, RowType
  <2> QED BY <1>2, <2>2, <2>3 DEF FreshOK
<1>4. RowsOK(rows') /\ ListOK(messages', rows') /\ TurnsOK'
  BY DEF OrderOK, TurnsOK
<1>5. ASSUME Active' PROVE ActiveOK(messages', rows', turn', seqNo', author')
  <2>1. PICK u \in Nat : u = seqNo'
    OBVIOUS
  <2>2. ActiveOK(messages, rows, turn, seqNo, author)
    BY <1>5 DEF OrderOK
  <2>3. u >= seqNo \/ \A r \in rows : r.turn = turn => r.seq <= u
    BY <1>5, <2>1
  <2>4. ActiveOK(messages, rows, turn, u, author)
    BY <1>1, <1>2, <2>2, <2>3, ActiveGrows
  <2> QED BY <2>1, <2>4
<1> QED BY <1>3, <1>4, <1>5 DEF OrderOK

(* An attachment joins.                                                       *)
LEMMA MemoryKeepsOrder ==
    ASSUME StoryInv, OrderOK, pc = "run", pc' = "idle", CanAdd,
           messages' = Append(messages, Message("memory", nextId, author, {})),
           rows' = rows, turn' = turn, author' = author, seqNo' = seqNo
    PROVE  OrderOK'
<1>1. messages \in Seq(MessageType) /\ rows \subseteq RowType /\ RestOK
  BY StoryParts
<1>2. RowsOK(rows) /\ FreshOK /\ ListOK(messages, rows) /\ TurnsOK
      /\ ActiveOK(messages, rows, turn, seqNo, author)
  BY DEF OrderOK, Active
<1>3. PICK m : m = Message("memory", nextId, author, {})
  OBVIOUS
<1>4. m \in MessageType /\ m.kind = "memory"
  <2>1. nextId \in 0 .. MaxMessages /\ author \in Nat
    BY <1>1, StoreAssumption DEF CanAdd, RestOK
  <2> QED BY <1>3, <2>1 DEF Message, MessageType, Kinds
<1>5. (\A i \in 1 .. Len(messages) : messages[i] # m) /\ (\A r \in rows : r.msg # m)
  BY <1>2, <1>3, FreshIsNew
<1>6. FreshOK'
  BY <1>2, <1>3, <1>4, FreshGoesOn DEF CanAdd
<1>7. messages' = Append(messages, m)
  BY <1>3
<1>8. ListOK(messages', rows')
  <2>1. ListOK(Append(messages, m), rows)
    BY <1>1, <1>2, <1>4, <1>5, ListGrows
  <2> QED BY <1>7, <2>1
<1>9. ActiveOK(messages', rows', turn', seqNo', author')
  <2>1. ActiveOK(Append(messages, m), rows, turn, seqNo, author)
    BY <1>1, <1>2, <1>4, ActiveGetsMemory
  <2> QED BY <1>7, <2>1
<1>10. TurnsOK'
  <2> DEFINE q == Append(messages, m)
             n == Len(messages)
  <2>1. n \in Nat /\ Len(q) = n + 1 /\ q[n + 1] = m /\ \A i \in 1 .. n : q[i] = messages[i]
    BY <1>1, <1>4, AppendAt
  <2>2. messages' = q
    BY <1>7
  <2> HIDE DEF q
  <2>3. Prompts(q, n) = Prompts(messages, n)
    BY <2>1, CountsAgree
  <2>4. Prompts(q, n + 1) = Prompts(q, n)
    BY <1>4, <2>1, CountsGoOn
  <2>5. Prompts(messages', Len(messages')) = Prompts(messages, n)
    BY <2>1, <2>2, <2>3, <2>4
  <2> QED BY <1>2, <2>5 DEF TurnsOK
<1>11. RebuiltOK'
  BY DEF RebuiltOK, Compacting
<1> QED BY <1>2, <1>6, <1>8, <1>9, <1>10, <1>11 DEF OrderOK

(* A reply joins, with its row.                                               *)
LEMMA ReplyKeepsOrder ==
    ASSUME StoryInv, OrderOK, pc # "down", Active, pc' \in {"idle", "run"}, CanAdd,
           messages' = Append(messages, Message("reply", nextId, author, {})),
           rows' = rows \cup {Row(turn, seqNo + 1, Message("reply", nextId, author, {}))},
           turn' = turn, author' = author,
           seqNo' = seqNo + 1 \/ seqNo' = LastSeq(rows')
    PROVE  OrderOK'
<1>1. messages \in Seq(MessageType) /\ rows \subseteq RowType /\ RestOK /\ KeysInv
  BY StoryParts
<1>2. RowsOK(rows) /\ FreshOK /\ ListOK(messages, rows) /\ TurnsOK
      /\ ActiveOK(messages, rows, turn, seqNo, author)
  BY DEF OrderOK
<1>3. PICK m : m = Message("reply", nextId, author, {})
  OBVIOUS
<1>4. m \in MessageType /\ m.kind = "reply" /\ m.owner = author
  <2>1. nextId \in 0 .. MaxMessages /\ author \in Nat
    BY <1>1, StoreAssumption DEF CanAdd, RestOK
  <2> QED BY <1>3, <2>1 DEF Message, MessageType, Kinds
<1>5. (\A i \in 1 .. Len(messages) : messages[i] # m) /\ (\A r \in rows : r.msg # m)
  BY <1>2, <1>3, FreshIsNew
<1>6. turn \in Nat /\ seqNo \in Nat /\ turn >= 1
  BY <1>1, <1>2 DEF RestOK, ActiveOK
<1> DEFINE w == Row(turn, seqNo + 1, m)
           new == rows \cup {w}
           q == Append(messages, m)
<1>7. messages' = q /\ rows' = new
  BY <1>3
<1>8. w \in RowType /\ w.turn = turn /\ w.seq = seqNo + 1 /\ w.msg = m
  BY <1>4, <1>6 DEF Row, RowType
<1>9. /\ \A r \in rows : Precedes(r, w)
      /\ Upto(Prompts(q, Len(messages) + 1), Replies(q, Len(messages) + 1), turn, seqNo + 1)
      /\ \A i \in 1 .. Len(messages) : (messages[i].kind = "prompt" /\ messages[i] \notin Msgs(rows))
                                     => \E k \in (i + 1) .. Len(messages) : messages[k].kind = "prompt"
  BY <1>1, <1>2, <1>4, <1>6, AReplyFits
<1>10. \A r \in rows :
          (/\ r.msg.kind \in Spoken
           /\ \A x \in rows : x.msg.kind = "prompt" => ~Precedes(r, x)) => r.msg.owner = m.owner
  BY <1>2, <1>4 DEF ActiveOK
<1>11. RowsOK(new)
  <2>1. seqNo + 1 \in Nat /\ seqNo + 1 >= 1
    BY <1>6
  <2> QED BY <1>1, <1>2, <1>4, <1>5, <1>6, <1>9, <1>10, <2>1, RowsGetReply
<1>12. ListOK(q, new)
  <2>1. seqNo + 1 \in Nat /\ m.kind \in Spoken
    BY <1>4, <1>6 DEF Spoken
  <2> QED BY <1>1, <1>2, <1>4, <1>5, <1>6, <1>9, <2>1, ListGetsRow
<1>13. ActiveOK(q, new, turn, seqNo + 1, author)
  <2>1. seqNo + 1 \in Nat
    BY <1>6
  <2>2. ActiveOK(q, new, turn, seqNo + 1, m.owner)
    BY <1>1, <1>4, <1>6, <1>9, <1>10, <2>1, ActiveGetsRow
  <2> QED BY <1>4, <2>2
<1> HIDE DEF w
<1>14. FreshOK'
  <2>1. \A r \in rows' : r \in rows \/ r.msg = m
    BY <1>7, <1>8
  <2> QED BY <1>2, <1>3, <1>4, <1>7, <2>1, FreshGoesOn DEF CanAdd
<1>15. TurnsOK'
  <2> DEFINE n == Len(messages)
  <2>1. n \in Nat /\ Len(q) = n + 1 /\ q[n + 1] = m /\ \A i \in 1 .. n : q[i] = messages[i]
    BY <1>1, <1>4, AppendAt
  <2> HIDE DEF q
  <2>2. Prompts(q, n) = Prompts(messages, n)
    BY <2>1, CountsAgree
  <2>3. Prompts(q, n + 1) = Prompts(q, n)
    BY <1>4, <2>1, CountsGoOn
  <2>4. Prompts(messages', Len(messages')) = Prompts(messages, n)
    BY <1>7, <2>1, <2>2, <2>3
  <2>5. \A r \in new : r.turn <= turn
    BY <1>2, <1>6, <1>8 DEF TurnsOK
  <2> HIDE DEF new
  <2> QED BY <1>2, <1>7, <2>4, <2>5 DEF TurnsOK
<1>16. ActiveOK(messages', rows', turn', seqNo', author')
  <2> HIDE DEF q
  <2>1. new \subseteq RowType /\ IsFiniteSet(new)
    BY <1>1, <1>8, FS_AddElement DEF KeysInv
  <2> HIDE DEF new
  <2>2. LastSeq(new) \in Nat /\ \A r \in new : r.turn = turn => r.seq <= LastSeq(new)
    BY <2>1, LastSeqIsNumber
  <2>3. seqNo' = seqNo + 1 \/ seqNo' = LastSeq(new)
    BY <1>7
  <2>4. PICK u \in Nat : u = seqNo'
    BY <1>6, <2>2, <2>3
  <2>5. u >= seqNo + 1 \/ \A r \in new : r.turn = turn => r.seq <= u
    BY <1>6, <2>2, <2>3, <2>4
  <2>6. ActiveOK(q, new, turn, u, author)
    <3>1. seqNo + 1 \in Nat
      BY <1>6
    <3> QED BY <1>6, <1>13, <2>1, <2>5, <3>1, ActiveGrows
  <2> QED BY <1>7, <2>4, <2>6
<1>17. RebuiltOK'
  BY DEF RebuiltOK, Compacting
<1> HIDE DEF q, new
<1>18. RowsOK(rows') /\ ListOK(messages', rows')
  BY <1>7, <1>11, <1>12
<1> QED BY <1>14, <1>15, <1>16, <1>17, <1>18 DEF OrderOK

(* The author's prompt begins a turn, with its row or without.                *)
LEMMA PromptKeepsOrder ==
    ASSUME StoryInv, OrderOK, Prompt
    PROVE  OrderOK'
<1>1. messages \in Seq(MessageType) /\ rows \subseteq RowType /\ RestOK
  BY StoryParts
<1>2. /\ pc = "idle" /\ pc' \in {"idle", "run"} /\ CanAdd
      /\ author' = author + 1 /\ turn' = turn + 1 /\ seqNo' = 0 /\ paused' = FALSE
      /\ messages' = Append(messages, Message("prompt", nextId, author + 1, {}))
      /\ \/ rows' = rows \cup {Row(turn + 1, 0, Message("prompt", nextId, author + 1, {}))} /\ pc' = "run"
         \/ rows' = rows /\ pc' = "idle"
  BY DEF Prompt, Insert, InsertFails, Fresh
<1>3. RowsOK(rows) /\ FreshOK /\ ListOK(messages, rows) /\ TurnsOK
  BY <1>2 DEF OrderOK
<1>4. PICK m : m = Message("prompt", nextId, author + 1, {})
  OBVIOUS
<1>5. m \in MessageType /\ m.kind = "prompt" /\ m.owner = author + 1
  <2>1. nextId \in 0 .. MaxMessages /\ author + 1 \in Nat
    BY <1>1, <1>2, StoreAssumption DEF CanAdd, RestOK
  <2> QED BY <1>4, <2>1 DEF Message, MessageType, Kinds
<1>6. (\A i \in 1 .. Len(messages) : messages[i] # m) /\ (\A r \in rows : r.msg # m)
  BY <1>3, <1>4, FreshIsNew
<1>7. turn \in Nat /\ turn + 1 \in Nat /\ turn + 1 >= 1 /\ \A r \in rows : r.turn \in Nat /\ r.turn < turn + 1
  BY <1>1, <1>3 DEF RestOK, RowType, TurnsOK
<1> DEFINE q == Append(messages, m)
           n == Len(messages)
           w == Row(turn + 1, 0, m)
           new == rows \cup {w}
<1>8. /\ messages' = q
      /\ \/ rows' = new /\ pc' = "run"
         \/ rows' = rows /\ pc' = "idle"
  BY <1>2, <1>4
<1>9. w \in RowType /\ w.turn = turn + 1 /\ w.seq = 0 /\ w.msg = m
  BY <1>5, <1>7 DEF Row, RowType
<1>10. n \in Nat /\ Len(q) = n + 1 /\ q[n + 1] = m /\ \A i \in 1 .. n : q[i] = messages[i]
  BY <1>1, <1>5, AppendAt
<1>11. Prompts(q, n + 1) = Prompts(messages, n) + 1 /\ Replies(q, n + 1) = 0
       /\ Prompts(messages, n) \in Nat
  <2> HIDE DEF q
  <2>1. Prompts(q, n) = Prompts(messages, n)
    BY <1>10, CountsAgree
  <2>2. Prompts(q, n + 1) = Prompts(q, n) + 1 /\ Replies(q, n + 1) = 0
    BY <1>5, <1>10, CountsGoOn
  <2>3. Prompts(messages, n) \in Nat
    BY <1>10, CountsAreNumbers
  <2> QED BY <2>1, <2>2, <2>3
<1>12. FreshOK'
  <2>1. \A r \in rows' : r \in rows \/ r.msg = m
    BY <1>8, <1>9
  <2> QED BY <1>2, <1>3, <1>4, <1>5, <1>8, <2>1, FreshGoesOn DEF CanAdd
<1>13. RebuiltOK'
  BY <1>2 DEF RebuiltOK, Compacting
<1>14. Prompts(messages', Len(messages')) <= turn'
  <2> HIDE DEF q
  <2>1. Prompts(messages', Len(messages')) = Prompts(messages, n) + 1
    BY <1>8, <1>10, <1>11
  <2>2. Prompts(messages, n) <= turn
    BY <1>3 DEF TurnsOK
  <2> QED BY <1>2, <1>7, <1>11, <2>1, <2>2
<1>15. CASE rows' = new /\ pc' = "run"
  <2>1. \A r \in rows : Precedes(r, w)
    <3> HIDE DEF w
    <3> QED BY <1>7, <1>9 DEF Precedes
  <2>2. RowsOK(new)
    BY <1>1, <1>3, <1>5, <1>6, <1>7, RowsGetPrompt
  <2>3. Upto(Prompts(q, n + 1), Replies(q, n + 1), turn + 1, 0)
    <3>1. Prompts(messages, n) <= turn
      BY <1>3 DEF TurnsOK
    <3> HIDE DEF q
    <3> QED BY <1>7, <1>11, <3>1 DEF Upto
  <2>4. ListOK(q, new)
    <3>1. m.kind \in Spoken /\ m.kind # "reply"
      BY <1>5 DEF Spoken
    <3> QED BY <1>1, <1>3, <1>5, <1>6, <1>7, <2>1, <2>3, <3>1, ListGetsRow
  <2>5. ActiveOK(q, new, turn + 1, 0, author + 1)
    <3>1. ActiveOK(q, new, turn + 1, 0, m.owner)
      BY <1>1, <1>5, <1>7, <2>1, ActiveGetsRow
    <3> QED BY <1>5, <3>1
  <2>6. \A r \in new : r.turn <= turn + 1
    <3> HIDE DEF w
    <3> QED BY <1>7, <1>9
  <2> HIDE DEF q, new
  <2>7. TurnsOK'
    BY <1>2, <1>14, <1>15, <2>6 DEF TurnsOK
  <2> QED BY <1>2, <1>8, <1>12, <1>13, <1>15, <2>2, <2>4, <2>5, <2>7 DEF OrderOK
<1>16. CASE rows' = rows /\ pc' = "idle"
  <2>1. ListOK(q, rows)
    <3>1. m.kind \in {"prompt", "memory"}
      BY <1>5
    <3> QED BY <1>1, <1>3, <1>5, <1>6, <3>1, ListGrows
  <2> HIDE DEF q
  <2>2. TurnsOK'
    <3>1. \A r \in rows : r.turn <= turn + 1
      BY <1>7
    <3> QED BY <1>2, <1>14, <1>16, <3>1 DEF TurnsOK
  <2>3. ~Active'
    BY <1>2, <1>16 DEF Active
  <2> QED BY <1>3, <1>8, <1>12, <1>13, <1>16, <2>1, <2>2, <2>3 DEF OrderOK
<1> QED BY <1>8, <1>15, <1>16

(* What a compaction may keep begins where the session's body does, or later. *)
LEMMA RetainsAreTails ==
    ASSUME messages \in Seq(MessageType), Len(messages) # 0, messages[1] = System, NEW kept \in Retains
    PROVE  \E b \in BodyStart .. (Len(messages) + 1) :
               /\ Len(kept) = Len(messages) + 1 - b
               /\ \A i \in 1 .. Len(kept) : kept[i] = messages[i - 1 + b]
<1> DEFINE L == Len(messages)
           all == SubSeq(messages, RetainFrom, L)
<1>1. BodyStart \in {2, 3} /\ RetainFrom \in 1 .. (L + 1) /\ L \in Nat
  BY RetainBegins
<1>2. RetainFrom \in BodyStart .. (L + 1)
  <2> DEFINE S == {L + 1} \cup
        { i \in UserTurns(messages) : Cardinality({ j \in UserTurns(messages) : i <= j }) <= KeepTurns }
  <2>1. \A i \in UserTurns(messages) : i \in 1 .. L /\ messages[i].kind \in {"prompt", "nudge"}
    BY DEF UserTurns, StartsUserTurn
  <2>2. messages[1].kind = "system"
    BY DEF System, Message
  <2>3. \A i \in UserTurns(messages) : i >= BodyStart
    BY <1>1, <2>1, <2>2 DEF BodyStart
  <2>4. S \subseteq Nat /\ S # {} /\ \A i \in S : i = L + 1 \/ i \in UserTurns(messages)
    BY <1>1, <2>1
  <2>5. TurnsFrom(messages, KeepTurns) = Min(S)
    BY DEF TurnsFrom
  <2> HIDE DEF S
  <2>6. Min(S) \in S
    BY <2>4, MinIsLeast
  <2>7. BodyStart <= L + 1
    BY <1>1 DEF BodyStart
  <2>8. TurnsFrom(messages, KeepTurns) >= BodyStart
    BY <2>3, <2>4, <2>5, <2>6, <2>7
  <2> QED BY <1>1, <2>7, <2>8 DEF RetainFrom
<1>3. /\ all \in Seq(MessageType) /\ Len(all) = L + 1 - RetainFrom /\ Len(all) \in Nat
      /\ \A i \in 1 .. Len(all) : all[i] = messages[i - 1 + RetainFrom]
  <2>1. \A i \in RetainFrom .. L : messages[i] \in MessageType
    BY <1>1
  <2>2. RetainFrom \in Int /\ L \in Int
    BY <1>1
  <2>3. all \in Seq(MessageType)
    BY <2>1, <2>2, SubSeqProperties
  <2>4. /\ Len(all) = IF RetainFrom <= L THEN L - RetainFrom + 1 ELSE 0
        /\ \A i \in 1 .. (L - RetainFrom + 1) : all[i] = messages[RetainFrom + i - 1]
    BY <2>1, <2>2, SubSeqProperties
  <2> HIDE DEF all
  <2> QED BY <1>1, <2>3, <2>4
<1>4. kept = all \/ \E t \in 0 .. (KeepTurns - 1) : kept = LastTurns(all, t)
  BY DEF Retains
<1> HIDE DEF all
<1>5. CASE kept = all
  BY <1>1, <1>2, <1>3, <1>5
<1>6. CASE \E t \in 0 .. (KeepTurns - 1) : kept = LastTurns(all, t)
  <2>1. PICK t : kept = LastTurns(all, t)
    BY <1>6
  <2>2. PICK c : c = TurnsFrom(all, t)
    OBVIOUS
  <2>3. c \in 1 .. (Len(all) + 1)
    BY <1>3, <2>2, TurnsBegin
  <2>4. kept = SubSeq(all, c, Len(all))
    BY <2>1, <2>2 DEF LastTurns
  <2>5. \A i \in c .. Len(all) : all[i] \in MessageType
    BY <1>3, <2>3
  <2>6. c \in Int /\ Len(all) \in Int
    BY <1>3, <2>3
  <2>7. /\ Len(kept) = IF c <= Len(all) THEN Len(all) - c + 1 ELSE 0
        /\ \A i \in 1 .. (Len(all) - c + 1) : kept[i] = all[c + i - 1]
    BY <2>4, <2>5, <2>6, SubSeqProperties
  <2>8. Len(kept) = Len(all) - c + 1 /\ Len(kept) \in Nat
    BY <1>3, <2>3, <2>7
  <2> DEFINE b == RetainFrom + c - 1
  <2>9. b \in BodyStart .. (L + 1) /\ Len(kept) = L + 1 - b
    BY <1>1, <1>2, <1>3, <2>3, <2>8
  <2>10. ASSUME NEW i \in 1 .. Len(kept) PROVE kept[i] = messages[i - 1 + b]
    <3>1. c + i - 1 \in 1 .. Len(all) /\ kept[i] = all[c + i - 1]
      BY <1>3, <2>3, <2>7, <2>8
    <3>2. (c + i - 1) - 1 + RetainFrom = i - 1 + b
      BY <1>1, <2>3
    <3> QED BY <1>3, <3>1, <3>2
  <2> HIDE DEF b
  <2> QED BY <2>9, <2>10
<1> QED BY <1>4, <1>5, <1>6

(* So the rebuilt session is made of a tail of the transcript.                *)
LEMMA RebuildMakes ==
    ASSUME StoryInv, OrderOK, Rebuild
    PROVE  RebuiltOK'
<1>1. messages \in Seq(MessageType) /\ Len(messages) # 0
  BY StoryParts DEF AwakeInv, Rebuild
<1>2. messages[1] = System
  BY DEF OrderOK, ListOK, PlacesOK, Rebuild
<1>3. PICK covers \in Summaries, kept \in Retains : draft' = <<System, Refresh(covers)>> \o kept
  BY DEF Rebuild
<1>4. PICK b \in BodyStart .. (Len(messages) + 1) :
               /\ Len(kept) = Len(messages) + 1 - b
               /\ \A i \in 1 .. Len(kept) : kept[i] = messages[i - 1 + b]
  BY <1>1, <1>2, RetainsAreTails
<1>5. BodyStart \in Nat /\ Len(messages) \in Nat
  BY <1>1, RetainBegins
<1>6. kept \in Seq(MessageType)
  BY <1>1, RetainsAreTyped
<1> DEFINE two == <<System, Refresh(covers)>>
           d == two \o kept
<1>7. two \in Seq(MessageType) /\ Len(two) = 2 /\ two[1] = System /\ two[2] = Refresh(covers)
  <2>1. covers \subseteq 0 .. MaxMessages
    BY <1>1, SummariesAreTyped
  <2>2. System \in MessageType /\ Refresh(covers) \in MessageType
    BY <2>1, StoreAssumption DEF System, Refresh, Message, MessageType, Kinds
  <2> QED BY <2>2
<1> HIDE DEF two
<1>8. /\ Len(d) = Len(two) + Len(kept)
      /\ \A i \in 1 .. Len(two) + Len(kept) :
             d[i] = IF i <= Len(two) THEN two[i] ELSE kept[i - Len(two)]
  <2>1. two \in Seq(MessageType) /\ kept \in Seq(MessageType)
    BY <1>6, <1>7
  <2> QED BY <2>1, ConcatProperties, Zenon
<1>9. draft' = d
  BY <1>3 DEF two
<1> HIDE DEF d
<1>10. Len(kept) \in Nat
  BY <1>6
<1>11. Len(d) = Len(messages) + 3 - b /\ d[1] = System /\ d[2] = Refresh(covers)
  BY <1>4, <1>5, <1>7, <1>8, <1>10
<1>12. d[2].kind = "refresh" /\ d[2].id = 0
  BY <1>11 DEF Refresh, Message
<1>13. ASSUME NEW i \in 3 .. Len(d) PROVE d[i] = messages[i - 3 + b]
  <2>1. i \in 1 .. Len(two) + Len(kept) /\ ~(i <= Len(two)) /\ i - Len(two) = i - 2 /\ i - 2 \in 1 .. Len(kept)
    BY <1>7, <1>8, <1>10
  <2>2. d[i] = kept[i - 2]
    BY <1>8, <2>1
  <2>3. kept[i - 2] = messages[(i - 2) - 1 + b] /\ (i - 2) - 1 + b = i - 3 + b
    BY <1>4, <1>5, <2>1
  <2> QED BY <2>2, <2>3
<1>14. Rebuilt(d, messages, b)
  BY <1>11, <1>12, <1>13 DEF Rebuilt
<1>15. messages' = messages
  BY DEF Rebuild, engine
<1>16. BodyStart' = BodyStart
  BY <1>15 DEF BodyStart
<1> QED BY <1>9, <1>14, <1>15, <1>16 DEF RebuiltOK

(* The session is replaced in the middle of the turn, and the turn goes on.   *)
LEMMA CommitKeepsOrder ==
    ASSUME StoryInv, OrderOK, Commit \/ CommitUnread, Clean'
    PROVE  OrderOK'
<1>1. messages \in Seq(MessageType) /\ rows \subseteq RowType /\ RestOK
  BY StoryParts
<1>2. /\ pc = "commit" /\ pc' = "run" /\ HasUniqueKeys(Numbered(draft))
      /\ rows' = Numbered(draft) /\ messages' = draft
      /\ UNCHANGED <<turn, seqNo, nextId, author>>
  BY DEF Commit, CommitUnread, CommitSlice
<1>3. /\ RowsOK(rows) /\ FreshOK /\ ListOK(messages, rows)
      /\ ActiveOK(messages, rows, turn, seqNo, author)
  BY <1>2 DEF OrderOK, Active
<1>4. PICK b \in BodyStart .. (Len(messages) + 1) : Rebuilt(draft, messages, b)
  BY <1>2 DEF OrderOK, RebuiltOK, Compacting
<1>5. /\ Len(messages) \in Nat /\ BodyStart \in {2, 3}
      /\ (Len(messages) >= 2 /\ messages[2].kind = "refresh") => BodyStart = 3
  BY <1>1 DEF BodyStart
<1>6. /\ b \in 2 .. (Len(messages) + 1)
      /\ (Len(messages) >= 2 /\ messages[2].kind = "refresh") => b >= 3
  BY <1>5
<1>7. draft \in Seq(MessageType) /\ turn \in Nat /\ seqNo \in Nat /\ nextId \in Nat /\ nextId >= 1
  BY <1>1, StoreAssumption DEF RestOK
<1>8. Len(draft) # 0 /\ Len(draft) \in Nat
  <2>1. Len(draft) = Len(messages) + 3 - b
    BY <1>4 DEF Rebuilt
  <2> QED BY <1>5, <1>6, <1>7, <2>1
<1>9. /\ { r.msg : r \in Numbered(draft) } = Range(draft) /\ Numbered(draft) \subseteq RowType
  BY <1>7, <1>8, EachHasItsRow
<1>10. \A i \in 1 .. Len(draft) : draft[i].kind \notin {"nudge", "memory"}
  <2>1. \A r \in Numbered(draft) : r.msg.kind \notin {"nudge", "memory"}
    BY <1>2 DEF Clean, Msgs
  <2>2. \A m \in Range(draft) : m.kind \notin {"nudge", "memory"}
    BY <1>9, <2>1
  <2>3. \A i \in 1 .. Len(draft) : draft[i] \in Range(draft)
    BY <1>7 DEF Range
  <2> QED BY <2>2, <2>3
<1>11. /\ RowsOK(Numbered(draft)) /\ ListOK(draft, Numbered(draft))
       /\ ActiveOK(draft, Numbered(draft), turn, seqNo, author)
       /\ Prompts(draft, Len(draft)) <= turn
  BY <1>1, <1>2, <1>3, <1>4, <1>6, <1>7, <1>10, ReplacedInOrder
<1>12. ASSUME NEW i \in 1 .. Len(draft) PROVE draft[i].id < nextId
  <2>1. i = 1 \/ i = 2 \/ i \in 3 .. Len(draft)
    BY <1>8
  <2>2. CASE i = 1 \/ i = 2
    <3>1. draft[i].id = 0
      BY <1>4, <2>2 DEF Rebuilt, System, Message
    <3> QED BY <1>7, <3>1
  <2>3. CASE i \in 3 .. Len(draft)
    <3>1. draft[i] = messages[i - 3 + b] /\ Len(draft) = Len(messages) + 3 - b
      BY <1>4, <2>3 DEF Rebuilt
    <3>2. i - 3 + b \in 1 .. Len(messages)
      BY <1>5, <1>6, <2>3, <3>1
    <3> QED BY <1>3, <3>1, <3>2 DEF FreshOK
  <2> QED BY <2>1, <2>2, <2>3
<1>13. \A r \in Numbered(draft) : r.msg.id < nextId
  <2>1. \A m \in Range(draft) : m.id < nextId
    BY <1>7, <1>12 DEF Range
  <2> QED BY <1>9, <2>1
<1>14. FreshOK'
  BY <1>2, <1>12, <1>13 DEF FreshOK
<1>15. TurnsOK'
  <2>1. \A r \in Numbered(draft) : r.turn \in Nat
    BY <1>9 DEF RowType
  <2>2. \A r \in Numbered(draft) : Upto(r.turn, r.seq, turn, seqNo)
    BY <1>11 DEF ActiveOK
  <2>3. \A r \in Numbered(draft) : r.turn <= turn
    BY <1>7, <2>1, <2>2 DEF Upto
  <2> QED BY <1>2, <1>11, <2>3 DEF TurnsOK
<1>16. RebuiltOK'
  BY <1>2 DEF RebuiltOK, Compacting
<1>17. RowsOK(rows') /\ ListOK(messages', rows') /\ ActiveOK(messages', rows', turn', seqNo', author')
  BY <1>2, <1>11
<1> QED BY <1>14, <1>15, <1>16, <1>17 DEF OrderOK

(* The process ends; a restart reads everything back.                         *)
LEMMA RestartKeepsOrder ==
    ASSUME StoryInv, OrderOK, pc = "down" => ~paused, Crash \/ Resume
    PROVE  OrderOK'
<1>1. messages \in Seq(MessageType) /\ rows \subseteq RowType /\ RestOK /\ KeysInv
  BY StoryParts
<1>2. RowsOK(rows) /\ FreshOK
  BY DEF OrderOK
<1>3. CASE Crash
  <2>1. pc' = "down" /\ messages' = <<>> /\ rows' = rows /\ nextId' = nextId
    BY <1>3 DEF Crash, database
  <2>2. FreshOK'
    BY <1>2, <2>1 DEF FreshOK
  <2>3. ~Active' /\ RebuiltOK'
    BY <2>1 DEF Active, RebuiltOK, Compacting
  <2> QED BY <1>2, <2>1, <2>2, <2>3 DEF OrderOK
<1>4. CASE Resume
  <2>1. /\ pc = "down" /\ pc' = "idle" /\ messages' = Stored /\ turn' = Max({ r.turn : r \in rows })
        /\ rows' = rows /\ nextId' = nextId /\ paused' = paused
    BY <1>4 DEF Resume, database, env
  <2>2. ListOK(Stored, rows) /\ Prompts(Stored, Len(Stored)) <= Max({ r.turn : r \in rows })
    BY <1>1, <1>2, ReadBackIsOK
  <2>3. \A r \in rows : r.turn <= Max({ q.turn : q \in rows })
    BY <1>1, LastTurnIsNumber DEF KeysInv
  <2>4. TurnsOK'
    BY <2>1, <2>2, <2>3 DEF TurnsOK
  <2>5. FreshOK'
    <3>1. Stored \in Seq(MessageType) /\ Range(Stored) = StoredMessages
      BY <1>1, AllIsReadBack DEF KeysInv
    <3>2. \A i \in 1 .. Len(Stored) : Stored[i] \in Range(Stored)
      BY <3>1 DEF Range
    <3>3. \A i \in 1 .. Len(Stored) : \E r \in rows : r.msg = Stored[i]
      BY <3>1, <3>2 DEF StoredMessages
    <3>4. \A i \in 1 .. Len(Stored) : Stored[i].id < nextId
      BY <1>2, <3>3 DEF FreshOK
    <3> QED BY <1>2, <2>1, <3>4 DEF FreshOK
  <2>6. ~Active' /\ RebuiltOK'
    BY <2>1 DEF Active, RebuiltOK, Compacting
  <2>7. RowsOK(rows') /\ ListOK(messages', rows')
    BY <1>2, <2>1, <2>2
  <2> QED BY <2>4, <2>5, <2>6, <2>7 DEF OrderOK
<1> QED BY <1>3, <1>4

(* Steps that write no message.                                               *)
LEMMA QuietKeepsOrder ==
    ASSUME StoryInv, OrderOK,
           \/ Answer \/ MeasureAgain \/ Skip \/ Rebuild \/ CompactionFails
           \/ IncrementEpoch \/ Archive \/ RecordBounds
           \/ \E tokens \in BOOLEAN : Measure(tokens)
    PROVE  OrderOK'
<1>1. messages \in Seq(MessageType) /\ rows \subseteq RowType /\ RestOK /\ KeysInv
  BY StoryParts
<1>2. turn \in Nat /\ seqNo \in Nat
  BY <1>1 DEF RestOK
<1>3. CASE Answer
  <2>1. LastSeq(rows) \in Nat /\ \A r \in rows : r.turn = turn => r.seq <= LastSeq(rows)
    BY <1>1, LastSeqIsNumber DEF KeysInv
  <2>2. /\ pc = "idle" /\ paused /\ pc' = "run" /\ seqNo' = LastSeq(rows)
        /\ UNCHANGED <<messages, turn, rows, nextId, author>>
    BY <1>3 DEF Answer, database, env
  <2>3. Active /\ RebuiltOK'
    BY <2>2 DEF Active, RebuiltOK, Compacting
  <2> QED BY <2>1, <2>2, <2>3, SameOrder
<1>4. CASE MeasureAgain \/ Skip \/ CompactionFails \/ \E tokens \in BOOLEAN : Measure(tokens)
  <2>1. /\ pc \notin {"down", "idle"} /\ pc' \in {"run", "check"}
        /\ UNCHANGED <<messages, turn, seqNo, rows, nextId, author>>
    <3>1. CASE MeasureAgain \/ Skip
      BY <3>1 DEF MeasureAgain, Skip, engine, database, env
    <3>2. CASE CompactionFails
      BY <3>2 DEF CompactionFails, Abandon, database
    <3>3. CASE \E tokens \in BOOLEAN : Measure(tokens)
      <4>1. PICK tokens \in BOOLEAN : Measure(tokens)
        BY <3>3
      <4>2. pc = "run" /\ UNCHANGED <<messages, turn, seqNo, database, env>>
        BY <4>1 DEF Measure
      <4>3. pc' \in {"run", "check"}
        BY <4>1 DEF Measure
      <4> QED BY <4>2, <4>3 DEF database, env
    <3> QED BY <1>4, <3>1, <3>2, <3>3
  <2>2. Active /\ RebuiltOK'
    BY <2>1 DEF Active, RebuiltOK, Compacting
  <2> QED BY <1>2, <2>1, <2>2, SameOrder
<1>5. CASE Rebuild
  <2>1. /\ pc = "check" /\ pc' = "epoch"
        /\ UNCHANGED <<messages, turn, seqNo, rows, nextId, author>>
    BY <1>5 DEF Rebuild, engine, database, env
  <2>2. Active
    BY <2>1 DEF Active
  <2>3. RebuiltOK'
    BY <1>5, RebuildMakes
  <2> QED BY <1>2, <2>1, <2>2, <2>3, SameOrder
<1>6. CASE IncrementEpoch \/ Archive \/ RecordBounds
  <2>1. /\ Compacting /\ pc' \in {"archive", "bounds", "commit"}
        /\ UNCHANGED <<messages, turn, seqNo, rows, nextId, author, draft>>
    BY <1>6 DEF IncrementEpoch, Archive, RecordBounds, Compacting, engine, env
  <2>2. Active /\ pc # "down"
    BY <2>1 DEF Active, Compacting
  <2>3. RebuiltOK'
    <3>1. BodyStart' = BodyStart
      BY <2>1 DEF BodyStart
    <3> QED BY <2>1, <3>1 DEF OrderOK, RebuiltOK
  <2> QED BY <1>2, <2>1, <2>2, <2>3, SameOrder
<1> QED BY <1>3, <1>4, <1>5, <1>6

(* Steps that may write one.                                                  *)
LEMMA TurnKeepsOrder ==
    ASSUME StoryInv, OrderOK, Clean',
           Prompt \/ RecordMessage \/ Approve \/ \E attach \in BOOLEAN : EndCommand(attach)
    PROVE  OrderOK'
<1>1. messages \in Seq(MessageType) /\ rows \subseteq RowType /\ RestOK /\ KeysInv
  BY StoryParts
<1>2. turn \in Nat /\ seqNo \in Nat
  BY <1>1 DEF RestOK
<1>3. CASE Prompt
  BY <1>3, PromptKeepsOrder
<1>4. CASE RecordMessage
  <2>1. PICK kind \in {"reply", "nudge"} : Record(kind)
    BY <1>4 DEF RecordMessage
  <2>2. /\ pc = "run" /\ CanAdd /\ UNCHANGED <<author, turn>> /\ seqNo' = seqNo + 1
        /\ \/ /\ rows' = rows \cup {Row(turn, seqNo + 1, Message(kind, nextId, author, {}))}
              /\ messages' = Append(messages, Message(kind, nextId, author, {}))
              /\ pc' = "run"
           \/ rows' = rows /\ messages' = messages /\ pc' = "idle"
    BY <2>1 DEF Record, Insert, InsertFails, Fresh
  <2>3. Active
    BY <2>2 DEF Active
  <2>4. CASE rows' = rows /\ messages' = messages /\ pc' = "idle"
    <3>1. RebuiltOK' /\ nextId' = nextId + 1
      BY <2>2, <2>4 DEF RebuiltOK, Compacting, CanAdd
    <3> QED BY <1>2, <2>2, <2>3, <2>4, <3>1, SameOrder
  <2>5. CASE /\ rows' = rows \cup {Row(turn, seqNo + 1, Message(kind, nextId, author, {}))}
             /\ messages' = Append(messages, Message(kind, nextId, author, {}))
             /\ pc' = "run"
    <3>1. kind # "nudge"
      <4>1. \A r \in rows' : r.msg.kind # "nudge"
        BY DEF Clean, Msgs
      <4>2. Row(turn, seqNo + 1, Message(kind, nextId, author, {})).msg.kind = kind
        BY DEF Row, Message
      <4> QED BY <2>5, <4>1, <4>2
    <3>2. kind = "reply"
      BY <3>1
    <3> QED BY <2>2, <2>3, <2>5, <3>2, ReplyKeepsOrder
  <2> QED BY <2>2, <2>4, <2>5
<1>5. CASE Approve
  <2>1. /\ pc = "idle" /\ paused /\ CanAdd /\ UNCHANGED <<author, turn>> /\ pc' \in {"idle", "run"}
        /\ \/ /\ rows' = rows \cup {Row(turn, seqNo + 1, Message("reply", nextId, author, {}))}
              /\ messages' = Append(messages, Message("reply", nextId, author, {}))
              /\ seqNo' = seqNo + 1 \/ seqNo' = LastSeq(rows')
           \/ rows' = rows /\ messages' = messages /\ seqNo' = seqNo + 1
    BY <1>5 DEF Approve, Insert, InsertFails, Fresh
  <2>2. Active
    BY <2>1 DEF Active
  <2>3. CASE rows' = rows /\ messages' = messages /\ seqNo' = seqNo + 1
    <3>1. RebuiltOK' /\ nextId' = nextId + 1
      BY <2>1, <2>3 DEF RebuiltOK, Compacting, CanAdd
    <3> QED BY <1>2, <2>1, <2>2, <2>3, <3>1, SameOrder
  <2>4. CASE /\ rows' = rows \cup {Row(turn, seqNo + 1, Message("reply", nextId, author, {}))}
             /\ messages' = Append(messages, Message("reply", nextId, author, {}))
             /\ seqNo' = seqNo + 1 \/ seqNo' = LastSeq(rows')
    BY <2>1, <2>2, <2>4, ReplyKeepsOrder
  <2> QED BY <2>1, <2>3, <2>4
<1>6. CASE \E attach \in BOOLEAN : EndCommand(attach)
  <2>1. PICK attach \in BOOLEAN : EndCommand(attach)
    BY <1>6
  <2>2. /\ pc = "run" /\ pc' = "idle" /\ UNCHANGED <<turn, seqNo, rows, author>>
        /\ IF attach
           THEN CanAdd /\ messages' = Append(messages, Message("memory", nextId, author, {}))
           ELSE UNCHANGED <<messages, nextId>>
    BY <2>1 DEF EndCommand, database
  <2>3. CASE attach
    BY <2>2, <2>3, MemoryKeepsOrder
  <2>4. CASE ~attach
    <3>1. Active /\ RebuiltOK'
      BY <2>2 DEF Active, RebuiltOK, Compacting
    <3> QED BY <1>2, <2>2, <2>4, <3>1, SameOrder
  <2> QED BY <2>3, <2>4
<1> QED BY <1>3, <1>4, <1>5, <1>6

LEMMA OrderStarts == Init => OrderInv
<1> SUFFICES ASSUME Init PROVE OrderInv
  OBVIOUS
<1>1. /\ messages = <<System>> /\ rows = {Row(0, 0, System)} /\ turn = 0 /\ nextId = 1
      /\ pc = "idle" /\ ~paused
  BY DEF Init
<1>2. /\ Row(0, 0, System).turn = 0 /\ Row(0, 0, System).seq = 0 /\ Row(0, 0, System).msg = System
      /\ System.kind = "system" /\ System.id = 0
  BY DEF Row, System, Message
<1>3. messages[1] = System /\ Len(messages) = 1 /\ \A i \in 1 .. Len(messages) : i = 1
  BY <1>1
<1>4. RowsOK(rows)
  BY <1>1, <1>2 DEF RowsOK, KeyOK
<1>5. FreshOK
  BY <1>1, <1>2, <1>3 DEF FreshOK
<1>6. Prompts(messages, 0 + 1) = 0 /\ Replies(messages, 0 + 1) = 0
  <2>1. { j \in 1 .. 0 : messages[j].kind = "prompt" } = {}
        /\ { j \in 1 .. 0 : messages[j].kind = "reply" /\ \A k \in j .. 0 : messages[k].kind # "prompt" } = {}
    OBVIOUS
  <2>2. Prompts(messages, 0) = 0 /\ Replies(messages, 0) = 0
    BY <2>1, FS_EmptySet DEF Prompts, Replies
  <2>3. 0 \in Nat /\ messages[0 + 1] = System
    BY <1>3
  <2> QED BY <1>2, <2>2, <2>3, CountsGoOn
<1>7. Prompts(messages, 1) = 0 /\ Replies(messages, 1) = 0
  BY <1>6
<1>8. ListOK(messages, rows)
  <2>1. PlacesOK(messages, rows)
    BY <1>1, <1>2, <1>3 DEF PlacesOK, Msgs
  <2>2. InOrder(messages, rows) /\ NoneAnswered(messages, rows)
    BY <1>3 DEF InOrder, NoneAnswered
  <2>3. KeysCover(messages, rows)
    BY <1>1, <1>2, <1>3, <1>7 DEF KeysCover, Upto
  <2> QED BY <2>1, <2>2, <2>3 DEF ListOK
<1>9. TurnsOK
  BY <1>1, <1>2, <1>3, <1>7 DEF TurnsOK
<1>10. ~Active /\ RebuiltOK
  BY <1>1 DEF Active, RebuiltOK, Compacting
<1> QED BY <1>1, <1>4, <1>5, <1>8, <1>9, <1>10 DEF OrderInv, OrderOK

(* Every step keeps the order.                                                *)
LEMMA OrderSteps == OrderInv /\ StoryInv /\ StoreInv /\ [Next]_vars => OrderInv'
<1> SUFFICES ASSUME OrderInv, StoryInv, StoreInv, [Next]_vars PROVE OrderInv'
  OBVIOUS
<1>1. CASE UNCHANGED vars
  BY <1>1 DEF vars, engine, database, env, OrderInv, OrderOK, Clean, FreshOK, TurnsOK, Active,
              RebuiltOK, Compacting, BodyStart
<1>2. CASE Next
  <2>1. ASSUME Clean' PROVE OrderOK'
    <3>1. OrderOK /\ (pc = "down" => ~paused)
      BY <1>2, <2>1, CleanBefore DEF OrderInv
    <3>2. CASE \/ Answer \/ MeasureAgain \/ Skip \/ Rebuild \/ CompactionFails
               \/ IncrementEpoch \/ Archive \/ RecordBounds
               \/ \E tokens \in BOOLEAN : Measure(tokens)
      BY <3>1, <3>2, QuietKeepsOrder
    <3>3. CASE Prompt \/ RecordMessage \/ Approve \/ \E attach \in BOOLEAN : EndCommand(attach)
      BY <2>1, <3>1, <3>3, TurnKeepsOrder
    <3>4. CASE Commit \/ CommitUnread
      BY <2>1, <3>1, <3>4, CommitKeepsOrder
    <3>5. CASE Crash \/ Resume
      BY <3>1, <3>5, RestartKeepsOrder
    <3> QED BY <1>2, <3>2, <3>3, <3>4, <3>5 DEF Next
  <2>2. pc' = "down" => ~paused'
    <3>1. CASE Crash
      BY <3>1 DEF Crash
    <3>2. CASE Outside /\ ~Crash
      <4>1. CASE Prompt \/ RecordMessage \/ Approve
        BY <4>1, AMessageIsAdded DEF OneMore
      <4>2. CASE Answer \/ MeasureAgain \/ Skip \/ Rebuild \/ CompactionFails \/ Resume
        BY <4>2 DEF Answer, MeasureAgain, Skip, Rebuild, CompactionFails, Abandon, Resume
      <4>3. CASE \E tokens \in BOOLEAN : Measure(tokens)
        BY <4>3 DEF Measure
      <4>4. CASE \E attach \in BOOLEAN : EndCommand(attach)
        BY <4>4 DEF EndCommand
      <4> QED BY <3>2, <4>1, <4>2, <4>3, <4>4 DEF Outside
    <3>3. CASE IncrementEpoch \/ Archive \/ RecordBounds \/ Commit \/ CommitUnread
      BY <3>3 DEF IncrementEpoch, Archive, RecordBounds, Commit, CommitUnread, CommitSlice
    <3> QED BY <1>2, <3>1, <3>2, <3>3, NextIsOutsideOrCompacts
  <2> QED BY <2>1, <2>2 DEF OrderInv
<1> QED BY <1>1, <1>2

(* What the order says of a session of which only the author starts turns.    *)
LEMMA OrderIsPlain == OrderInv /\ StoryInv => PlainRowsAreInOrder
<1> SUFFICES ASSUME OrderInv, StoryInv, pc # "down", IsPlain
             PROVE  /\ Stored = Kept(messages, StoredMessages)
                    /\ pc = "idle" => IsFree(turn + 1, 0)
                    /\ pc = "run" \/ (pc = "idle" /\ paused) => IsFree(turn, seqNo + 1)
                    /\ \A r, q \in rows : (r.turn = q.turn /\ r.turn > 0) => r.msg.owner = q.msg.owner
  BY DEF PlainRowsAreInOrder
<1>1. messages \in Seq(MessageType) /\ rows \subseteq RowType /\ RestOK /\ KeysInv /\ Agrees
  BY StoryParts
<1>2. Clean
  BY <1>1 DEF Clean, IsPlain, Agrees, StoredMessages, Msgs
<1>3. RowsOK(rows) /\ ListOK(messages, rows) /\ TurnsOK
      /\ (Active => ActiveOK(messages, rows, turn, seqNo, author))
  BY <1>2 DEF OrderInv, OrderOK
<1>4. Stored = Kept(messages, StoredMessages)
  BY <1>1, <1>3, ReadBackInOrder DEF ListOK
<1>5. turn \in Nat /\ seqNo \in Nat /\ \A r \in rows : r.turn \in Nat /\ r.seq \in Nat
  BY <1>1 DEF RestOK, RowType
<1>6. IsFree(turn + 1, 0)
  <2>1. \A r \in rows : r.turn <= turn
    BY <1>3 DEF TurnsOK
  <2>2. \A r \in rows : r.turn # turn + 1
    BY <1>5, <2>1
  <2> QED BY <2>2 DEF IsFree
<1>7. ASSUME pc = "run" \/ (pc = "idle" /\ paused) PROVE IsFree(turn, seqNo + 1)
  <2>1. Active
    BY <1>7 DEF Active
  <2>2. \A r \in rows : Upto(r.turn, r.seq, turn, seqNo)
    BY <1>3, <2>1 DEF ActiveOK
  <2>3. \A r \in rows : ~(r.turn = turn /\ r.seq = seqNo + 1)
    BY <1>5, <2>2 DEF Upto
  <2> QED BY <2>3 DEF IsFree
<1>8. \A r \in rows : KeyOK(r)
  BY <1>3 DEF RowsOK
<1>9. \A r \in rows : r.turn > 0 => /\ r.msg.kind \in Spoken
                                    /\ r.msg.kind = "prompt" => r.seq = 0
                                    /\ r.msg.kind = "reply" => r.seq >= 1
  <2>1. Row(0, 0, System).turn = 0
    BY DEF Row
  <2> QED BY <1>5, <1>8, <2>1 DEF KeyOK, Spoken
<1>10. ASSUME NEW r \in rows, NEW q \in rows, r.turn = q.turn, r.turn > 0, Precedes(r, q)
       PROVE  r.msg.owner = q.msg.owner
  <2>1. r.seq < q.seq
    BY <1>5, <1>10 DEF Precedes
  <2>2. q.msg.kind = "reply" /\ r.msg.kind \in Spoken
    BY <1>5, <1>9, <1>10, <2>1 DEF Spoken
  <2>3. ASSUME NEW x \in rows, x.msg.kind = "prompt", Precedes(r, x), Precedes(x, q) PROVE FALSE
    <3>1. x.turn = r.turn /\ r.seq < x.seq
      BY <1>5, <1>10, <2>3 DEF Precedes
    <3>2. x.seq = 0
      BY <1>9, <1>10, <2>3, <3>1
    <3> QED BY <1>5, <3>1, <3>2
  <2>4. NoPromptBetween(rows, r, q)
    BY <2>3 DEF NoPromptBetween
  <2> QED BY <1>3, <1>10, <2>2, <2>4 DEF RowsOK
<1>11. ASSUME NEW r \in rows, NEW q \in rows, r.turn = q.turn, r.turn > 0
       PROVE  r.msg.owner = q.msg.owner
  <2>1. r = q \/ Precedes(r, q) \/ Precedes(q, r)
    BY <1>1, KeysAreInLine DEF KeysInv
  <2> QED BY <1>10, <1>11, <2>1
<1> QED BY <1>4, <1>6, <1>7, <1>11

(* Two ways of counting, one order: while only the author starts turns, what  *)
(* a restart reads back is the transcript, the key that the engine is about   *)
(* to use is free, and a turn number has one author's prompt, though a        *)
(* compaction in the middle of a turn counts all keys anew                    *)
(* (assign_message_turn_seq, build_message_rows_from, resume_with_abort).     *)
THEOREM PlainRowsKeepTheirOrder == Spec => []PlainRowsAreInOrder
BY OrderIsPlain, OrderStarts, OrderSteps, StoryStarts, StorySteps, StoreStarts, StoreSteps, PTL DEF Spec
==============================================================================
