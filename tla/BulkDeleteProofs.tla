-------------------------- MODULE BulkDeleteProofs ---------------------------
(***************************************************************************)
(* The deletion of many assets, for every database, selection, order and   *)
(* failure, and any number of insertions meanwhile: what is answered is    *)
(* what happened.                                                          *)
(*                                                                         *)
(* The order of the deletions does not matter to that, but sorting must    *)
(* lose no element and double none (SortStep): an element not yet reached  *)
(* is stored and has no answer of its own deletion (WorkInv), and what is  *)
(* refused once stays, because refused elements are not tried again        *)
(* (AnswerInv).                                                            *)
(*                                                                         *)
(* It does matter to what is deleted of a family, an asset with what is    *)
(* directly inside it or powered by it: the head, once sorted in, stays    *)
(* last of what is sorted (HeadInv), so the others go first, and what is   *)
(* left of them is kept by something no deletion changes (FamilyInv).      *)
(***************************************************************************)
EXTENDS BulkDelete, NaturalRecursion, FiniteSetTheorems, SequenceTheorems, TLAPS

Info == [id : Ids, type : Table!Types, parent : Ids \cup {None}, links : SUBSET Ids, status : {""}]

------------------------------------------------------------------------------
(* Sequences *)

(* Appending adds one element. *)
LEMMA AppendElements ==
  ASSUME NEW S, NEW s \in Seq(S), NEW x \in S
  PROVE  Append(s, x) \in Seq(S) /\ Elements(Append(s, x)) = Elements(s) \cup {x}
<1>1. /\ Append(s, x) \in Seq(S) /\ Len(Append(s, x)) = Len(s) + 1 /\ Len(s) \in Nat
      /\ DOMAIN Append(s, x) = 1..Len(s) + 1 /\ DOMAIN s = 1..Len(s)
      /\ \A k \in 1..Len(s) : Append(s, x)[k] = s[k]
      /\ Append(s, x)[Len(s) + 1] = x
  OBVIOUS
<1> QED
  BY <1>1 DEF Elements

(* q is s with x after the first elements. *)
InsertedAt(q, s, x, after) ==
  /\ Len(q) = Len(s) + 1
  /\ \A k \in 1..after : q[k] = s[k]
  /\ q[after + 1] = x
  /\ \A k \in after + 1..Len(s) : q[k + 1] = s[k]

(* An element that is before none is put last, one that is before the last   *)
(* is not, whatever can be found meanwhile.                                  *)
Lasts(s, x, after) ==
  /\ (\A k \in 1..Len(s), A \in SUBSET Elements(toDel) : ~Before(x, s[k], A)) => after = Len(s)
  /\ Len(s) > 0 /\ Before(x, s[Len(s)], Elements(toDel)) => after < Len(s)

(* One insertion puts the element somewhere and keeps the order of the others. *)
LEMMA InsertedFacts ==
  ASSUME NEW S, NEW s \in Seq(S), NEW x \in S
  PROVE  /\ Inserted(s, x) \in Seq(S)
         /\ \E after \in 0..Len(s) : InsertedAt(Inserted(s, x), s, x, after) /\ Lasts(s, x, after)
<1> DEFINE among(k) == IF k \in {1, Len(s)} THEN Elements(toDel) ELSE Elements(toDel) \ {x}
           stops == {k \in DOMAIN s : ~Before(x, s[k], among(k))}
           stay == {k \in DOMAIN s : 1 \in stops /\ \E j \in stops : k <= j}
           after == Cardinality(stay)
           left == SubSeq(s, 1, after)
           mid == <<x>>
           right == SubSeq(s, after + 1, Len(s))
           front == left \o mid
           q == front \o right
<1>1. after \in 0..Len(s)
  <2>1. Len(s) \in Nat
    OBVIOUS
  <2>2. IsFiniteSet(1..Len(s)) /\ Cardinality(1..Len(s)) = Len(s)
    BY <2>1, FS_Interval
  <2>3. stay \in SUBSET (1..Len(s))
    <3>1. DOMAIN s = 1..Len(s)
      OBVIOUS
    <3> QED
      BY <3>1
  <2> HIDE DEF stay
  <2>4. IsFiniteSet(stay) /\ Cardinality(stay) <= Len(s)
    BY <2>2, <2>3, FS_Subset
  <2>5. Cardinality(stay) \in Nat
    BY <2>4, FS_CardinalityType
  <2> QED
    BY <2>1, <2>4, <2>5
<1>b. ASSUME \A k \in 1..Len(s), A \in SUBSET Elements(toDel) : ~Before(x, s[k], A)
      PROVE  after = Len(s)
  <2>1. Len(s) \in Nat /\ DOMAIN s = 1..Len(s)
    OBVIOUS
  <2>2. \A k \in 1..Len(s) : among(k) \in SUBSET Elements(toDel)
    OBVIOUS
  <2>3. \A k \in 1..Len(s) : ~Before(x, s[k], among(k))
    BY <1>b, <2>2
  <2> HIDE DEF among
  <2>4. stops = 1..Len(s)
    BY <2>1, <2>3
  <2> HIDE DEF stops
  <2>5. stay = 1..Len(s)
    <3>1. ASSUME NEW k \in 1..Len(s) PROVE 1 \in stops /\ \E j \in stops : k <= j
      BY <2>1, <2>4
    <3> QED
      BY <2>1, <3>1
  <2> HIDE DEF stay
  <2> QED
    BY <2>1, <2>5, FS_Interval
<1>c. ASSUME Len(s) > 0, Before(x, s[Len(s)], Elements(toDel))
      PROVE  after < Len(s)
  <2>1. Len(s) \in Nat /\ DOMAIN s = 1..Len(s) /\ among(Len(s)) = Elements(toDel)
    OBVIOUS
  <2> HIDE DEF among
  <2>2. stops \subseteq 1..Len(s) /\ Len(s) \notin stops
    BY <1>c, <2>1
  <2> HIDE DEF stops
  <2>3. stay \in SUBSET (1..Len(s) - 1)
    <3>1. ASSUME NEW k \in 1..Len(s), NEW j \in stops, k <= j PROVE k \in 1..Len(s) - 1
      BY <2>1, <2>2, <3>1
    <3> QED
      BY <2>1, <3>1
  <2> HIDE DEF stay
  <2>4. IsFiniteSet(1..Len(s) - 1) /\ Cardinality(1..Len(s) - 1) = Len(s) - 1
    BY <1>c, <2>1, FS_Interval
  <2>5. IsFiniteSet(stay) /\ Cardinality(stay) <= Len(s) - 1
    BY <2>3, <2>4, FS_Subset
  <2>6. Cardinality(stay) \in Nat
    BY <2>5, FS_CardinalityType
  <2> QED
    BY <2>1, <2>5, <2>6
<1>d. Lasts(s, x, after)
  <2> HIDE DEF after
  <2> QED
    BY <1>b, <1>c DEF Lasts
<1>2. Inserted(s, x) = q
  BY DEF Inserted
<1> HIDE DEF after
<1>3. /\ left \in Seq(S) /\ Len(left) = after /\ \A k \in 1..after : left[k] = s[k]
  BY <1>1
<1>4. right \in Seq(S) /\ Len(right) = Len(s) - after
  BY <1>1
<1>5. \A k \in 1..Len(s) - after : right[k] = s[after + k]
  BY <1>1
<1>6. mid \in Seq(S) /\ Len(mid) = 1 /\ mid[1] = x
  OBVIOUS
<1> HIDE DEF left, mid, right
<1>a. /\ front \in Seq(S) /\ Len(front) = Len(left) + Len(mid)
      /\ \A i \in 1..Len(left) + Len(mid) :
           front[i] = IF i <= Len(left) THEN left[i] ELSE mid[i - Len(left)]
  BY <1>3, <1>6, ConcatProperties
<1>7. front \in Seq(S) /\ Len(front) = after + 1
  BY <1>3, <1>6, <1>a
<1>8. \A k \in 1..after : front[k] = s[k]
  BY <1>1, <1>3, <1>6, <1>a
<1>9. front[after + 1] = x
  <2>1. after + 1 \in 1..Len(left) + Len(mid) /\ ~(after + 1 <= after) /\ after + 1 - after = 1
    BY <1>1, <1>3, <1>6
  <2> QED
    BY <1>3, <1>6, <1>a, <2>1
<1> HIDE DEF front
<1>10. q \in Seq(S) /\ Len(q) = Len(s) + 1
  BY <1>1, <1>4, <1>7
<1>11. \A k \in 1..after + 1 : q[k] = front[k]
  BY <1>1, <1>4, <1>7
<1>12. \A k \in after + 1..Len(s) : q[k + 1] = s[k]
  <2> SUFFICES ASSUME NEW k \in after + 1..Len(s) PROVE q[k + 1] = s[k]
    OBVIOUS
  <2>1. q[k + 1] = right[k - after]
    BY <1>1, <1>4, <1>7
  <2>2. k - after \in 1..Len(s) - after /\ after + (k - after) = k
    BY <1>1
  <2> QED
    BY <1>5, <2>1, <2>2
<1> HIDE DEF q
<1>13. InsertedAt(q, s, x, after)
  BY <1>1, <1>8, <1>9, <1>10, <1>11, <1>12 DEF InsertedAt
<1> QED
  BY <1>1, <1>2, <1>10, <1>13, <1>d

(* One step of the sort moves each element of s to a place of its own. *)
Permuted(q, s, p) ==
  /\ Len(q) = Len(s) /\ p \in [1..Len(s) -> 1..Len(s)]
  /\ \A k \in 1..Len(s) : q[k] = s[p[k]]
  /\ \A j, k \in 1..Len(s) : p[j] = p[k] => j = k
  /\ \A j \in 1..Len(s) : \E k \in 1..Len(s) : p[k] = j

SortedTo(s, n) == Inserted(SubSeq(s, 1, n - 1), s[n]) \o SubSeq(s, n + 1, Len(s))

(* What comes last of the first n. *)
LastOf(q, s, n) ==
  /\ (\A k \in 1..n - 1, A \in SUBSET Elements(toDel) : ~Before(s[n], s[k], A)) => q[n] = s[n]
  /\ n > 1 /\ Before(s[n], s[n - 1], Elements(toDel)) => q[n] = s[n - 1]
  /\ \A k \in n + 1..Len(s) : q[k] = s[k]

(* One step of the sort permutes the vector; where the element goes is LastOf. *)
LEMMA SortStep ==
  ASSUME NEW S, NEW s \in Seq(S), NEW n \in 1..Len(s)
  PROVE  /\ SortedTo(s, n) \in Seq(S) /\ \E p : Permuted(SortedTo(s, n), s, p)
         /\ LastOf(SortedTo(s, n), s, n)
<1> DEFINE left == SubSeq(s, 1, n - 1)
           mid == Inserted(left, s[n])
           right == SubSeq(s, n + 1, Len(s))
           q == mid \o right
<1>1. left \in Seq(S) /\ Len(left) = n - 1 /\ \A k \in 1..n - 1 : left[k] = s[k]
  OBVIOUS
<1>2. right \in Seq(S) /\ Len(right) = Len(s) - n
  OBVIOUS
<1>3. \A k \in 1..Len(s) - n : right[k] = s[n + k]
  OBVIOUS
<1>4. s[n] \in S /\ Len(s) \in Nat
  OBVIOUS
<1>5. SortedTo(s, n) = q
  BY DEF SortedTo
<1> HIDE DEF left, right
<1>6. mid \in Seq(S) /\ \E after \in 0..Len(left) :
                           InsertedAt(mid, left, s[n], after) /\ Lasts(left, s[n], after)
  BY <1>1, <1>4, InsertedFacts
<1>7. PICK after \in 0..Len(left) : InsertedAt(mid, left, s[n], after) /\ Lasts(left, s[n], after)
  BY <1>6
<1> HIDE DEF mid
<1>8. after \in 0..n - 1
  BY <1>1
<1>9. Len(mid) = n
  BY <1>1, <1>7 DEF InsertedAt
<1>10. \A k \in 1..after : mid[k] = s[k]
  BY <1>1, <1>7, <1>8 DEF InsertedAt
<1>11. mid[after + 1] = s[n]
  BY <1>7 DEF InsertedAt
<1>12. \A k \in after + 1..n - 1 : mid[k + 1] = s[k]
  BY <1>1, <1>7, <1>8 DEF InsertedAt
<1>13. q \in Seq(S) /\ Len(q) = Len(s)
  <2>1. q \in Seq(S) /\ Len(q) = Len(mid) + Len(right)
    BY <1>2, <1>6, ConcatProperties
  <2> QED
    BY <1>2, <1>4, <1>9, <2>1
<1>14. \A k \in 1..n : q[k] = mid[k]
  BY <1>2, <1>4, <1>6, <1>9
<1>15. \A k \in n + 1..Len(s) : q[k] = s[k]
  <2> SUFFICES ASSUME NEW k \in n + 1..Len(s) PROVE q[k] = s[k]
    OBVIOUS
  <2>1. q[k] = right[k - n]
    BY <1>2, <1>4, <1>6, <1>9
  <2>2. k - n \in 1..Len(s) - n /\ n + (k - n) = k
    OBVIOUS
  <2> QED
    BY <1>3, <2>1, <2>2
<1> HIDE DEF q
<1> DEFINE p == [k \in 1..Len(s) |-> IF k <= after \/ k > n THEN k
                                    ELSE IF k = after + 1 THEN n ELSE k - 1]
<1>16. p \in [1..Len(s) -> 1..Len(s)]
  BY <1>4, <1>8
<1>17. /\ \A k \in 1..Len(s) : k <= after \/ k > n => p[k] = k
       /\ p[after + 1] = n
       /\ \A k \in after + 1..n - 1 : p[k + 1] = k
  BY <1>4, <1>8
<1>18. \A j, k \in 1..Len(s) : p[j] = p[k] => j = k
  BY <1>4, <1>8
<1> HIDE DEF p
<1>19. \A k \in 1..Len(s) : q[k] = s[p[k]]
  <2> SUFFICES ASSUME NEW k \in 1..Len(s) PROVE q[k] = s[p[k]]
    OBVIOUS
  <2>1. CASE k > n
    <3>1. k \in n + 1..Len(s) /\ p[k] = k
      BY <1>17, <2>1
    <3> QED
      BY <1>15, <3>1
  <2>2. CASE k <= after
    <3>1. k \in 1..after /\ k \in 1..n /\ p[k] = k
      BY <1>8, <1>17, <2>2
    <3> QED
      BY <1>10, <1>14, <3>1
  <2>3. CASE k = after + 1
    <3>1. k \in 1..n /\ p[k] = n
      BY <1>8, <1>17, <2>3
    <3> QED
      BY <1>11, <1>14, <2>3, <3>1
  <2>4. CASE k > after + 1 /\ k <= n
    <3>1. k - 1 \in after + 1..n - 1 /\ (k - 1) + 1 = k /\ k \in 1..n
      BY <1>8, <2>4
    <3>2. p[k] = k - 1 /\ mid[k] = s[k - 1]
      BY <1>12, <1>17, <3>1
    <3> QED
      BY <1>14, <3>1, <3>2
  <2> QED
    BY <1>8, <2>1, <2>2, <2>3, <2>4
<1>20. \A j \in 1..Len(s) : \E k \in 1..Len(s) : p[k] = j
  <2> SUFFICES ASSUME NEW j \in 1..Len(s) PROVE \E k \in 1..Len(s) : p[k] = j
    OBVIOUS
  <2>1. CASE j <= after \/ j > n
    BY <1>17, <2>1
  <2>2. CASE j = n
    <3>1. after + 1 \in 1..Len(s) /\ p[after + 1] = n
      BY <1>4, <1>8, <1>17
    <3> QED
      BY <2>2, <3>1
  <2>3. CASE j > after /\ j < n
    <3>1. j + 1 \in 1..Len(s) /\ p[j + 1] = j
      BY <1>4, <1>8, <1>17, <2>3
    <3> QED
      BY <3>1
  <2> QED
    BY <1>8, <2>1, <2>2, <2>3
<1>21. Permuted(q, s, p)
  BY <1>13, <1>16, <1>18, <1>19, <1>20 DEF Permuted
<1>22. LastOf(q, s, n)
  <2>1. ASSUME \A k \in 1..n - 1, A \in SUBSET Elements(toDel) : ~Before(s[n], s[k], A)
        PROVE  q[n] = s[n]
    <3>1. \A k \in 1..Len(left), A \in SUBSET Elements(toDel) : ~Before(s[n], left[k], A)
      BY <1>1, <2>1
    <3>2. after = n - 1
      BY <1>1, <1>7, <3>1 DEF Lasts
    <3> QED
      BY <1>8, <1>11, <1>14, <3>2
  <2>2. ASSUME n > 1, Before(s[n], s[n - 1], Elements(toDel))
        PROVE  q[n] = s[n - 1]
    <3>1. Len(left) > 0 /\ left[Len(left)] = s[n - 1]
      BY <1>1, <2>2
    <3>2. after < n - 1
      BY <1>1, <1>7, <2>2, <3>1 DEF Lasts
    <3>3. n - 1 \in after + 1..n - 1 /\ (n - 1) + 1 = n /\ n \in 1..n
      BY <1>8, <3>2
    <3> QED
      BY <1>12, <1>14, <3>3
  <2> QED
    BY <1>15, <2>1, <2>2 DEF LastOf
<1> QED
  BY <1>5, <1>13, <1>21, <1>22

------------------------------------------------------------------------------
(* The invariant *)

Replies == [id : Ids, status : {0, 1}]

TypeInv ==
  /\ TypeOK
  /\ ids \in Seq(Ids) /\ toDel \in Seq(Info) /\ element_info \in Seq(Ids) /\ ret \in Seq(Replies)
  /\ stage = "collect" => at \in 1..Len(ids) + 1
  /\ stage \in {"sort", "delete"} => at \in 1..Len(toDel) + 1

(* What is collected was asked for and found, and is there until its turn. *)
WorkInv ==
  /\ stage = "collect" => Elements(element_info) \subseteq Stored
  /\ \A k \in 1..Len(toDel) :
       /\ toDel[k].id \in Elements(ids) \cap Elements(element_info)
       /\ stage \in {"collect", "sort"} \/ (stage = "delete" /\ at <= k) => toDel[k].id \in Stored

Answered(i) == \E r \in Elements(ret) : r.id = i
Collected(i) == \E k \in 1..Len(toDel) : toDel[k].id = i

(* Answers are true from the moment they are given, and none is forgotten. *)
AnswerInv ==
  /\ \A r \in Elements(ret) :
       /\ r.id \in Elements(ids)
       /\ r.status = 1 => r.id \notin Stored /\ r.id \in Elements(element_info)
       /\ r.status = 0 => r.id \in Stored \/ r.id \notin Elements(element_info)
  /\ \A k \in 1..Len(ids) :
       (stage = "collect" => k < at) => Answered(ids[k]) \/ Collected(ids[k])
  /\ \A k \in 1..Len(toDel) :
       stage = "done" \/ (stage = "delete" /\ k < at) => Answered(toDel[k].id)

BulkInv == TypeInv /\ WorkInv /\ AnswerInv

(* What the assumption says of the constants. *)
LEMMA BulkConstants ==
  /\ Ids \subseteq Nat /\ Databases \subseteq [Ids -> Table!Asset] /\ Selections \subseteq Seq(Ids)
  /\ MaxInserts \in Nat /\ MaxFailures \in Nat
BY BulkDeleteAssumption

(* A reply given is among the replies. *)
LEMMA ReplyElements ==
  ASSUME TypeInv, NEW i \in Ids, NEW s \in {0, 1}
  PROVE  /\ Append(ret, Reply(i, s)) \in Seq(Replies)
         /\ Elements(Append(ret, Reply(i, s))) = Elements(ret) \cup {Reply(i, s)}
         /\ Reply(i, s).id = i /\ Reply(i, s).status = s
<1>1. Reply(i, s) \in Replies /\ ret \in Seq(Replies)
  BY DEF TypeInv, Reply, Replies
<1> QED
  BY <1>1, AppendElements DEF Reply

(* The collection of one asset. *)
LEMMA CollectStep ==
  ASSUME BulkInv, Collect
  PROVE  BulkInv'
<1> DEFINE i == ids[at]
<1>1. /\ stage = "collect" /\ stage' = "collect" /\ at \in 1..Len(ids) /\ at' = at + 1
      /\ i \in Ids /\ i \in Elements(ids) /\ db' = db /\ ids' = ids /\ Stored' = Stored
      /\ licensed' = licensed /\ inserts' = inserts
  <2>1. ids \in Seq(Ids) /\ at \in 1..Len(ids) + 1
    BY DEF BulkInv, TypeInv, Collect
  <2>2. at \in 1..Len(ids)
    BY <2>1 DEF Collect
  <2>3. i \in Ids /\ i \in Elements(ids)
    BY <2>1, <2>2 DEF Elements
  <2> QED
    BY <2>2, <2>3 DEF Collect, Stored
<1>2. failures' \in 0..MaxFailures
  <2>1. failures \in 0..MaxFailures
    BY DEF BulkInv, TypeInv, TypeOK
  <2>2. CASE MayFail
    BY <2>1, <2>2, BulkConstants DEF MayFail
  <2>3. CASE failures' = failures
    BY <2>1, <2>3
  <2> QED
    BY <2>2, <2>3 DEF Collect
<1>3. /\ element_info' \in Seq(Ids)
      /\ \/ Elements(element_info') = Elements(element_info)
         \/ i \in Stored /\ Elements(element_info') = Elements(element_info) \cup {i}
  <2>1. element_info \in Seq(Ids)
    BY DEF BulkInv, TypeInv
  <2>2. \/ element_info' = element_info
        \/ i \in Stored /\ element_info' = Append(element_info, i)
    BY DEF Collect
  <2>3. Append(element_info, i) \in Seq(Ids)
        /\ Elements(Append(element_info, i)) = Elements(element_info) \cup {i}
    BY <1>1, <2>1, AppendElements
  <2> QED
    BY <2>1, <2>2, <2>3
<1>4. \/ /\ ret' = ret
         /\ \E k \in 1..Len(toDel') : toDel'[k].id = i
      \/ /\ ret' = Append(ret, Reply(i, 0))
         /\ i \in Stored \/ i \notin Elements(element_info')
  <2>1. CASE i \notin Stored /\ ret' = Append(ret, Reply(i, 0)) /\ element_info' = element_info
    BY <1>1, <2>1 DEF BulkInv, WorkInv
  <2>2. CASE MayFail /\ ret' = Append(ret, Reply(i, 0)) /\ element_info' = element_info
    BY <1>1, <2>2 DEF BulkInv, WorkInv
  <2>3. CASE i \in Stored /\ ret' = Append(ret, Reply(i, 0))
    BY <2>3
  <2>4. CASE toDel' = checkAndAddInfo(toDel, ElementInfo(i)) /\ ret' = ret
    <3>1. toDel \in Seq(Info) /\ ElementInfo(i).id = i
      BY DEF BulkInv, TypeInv, ElementInfo
    <3>2. CASE \E e \in Elements(toDel) : e.id = i
      <4>1. toDel' = toDel
        BY <2>4, <3>1, <3>2 DEF checkAndAddInfo
      <4>2. \E k \in 1..Len(toDel) : toDel[k].id = i
        BY <3>1, <3>2 DEF Elements
      <4> QED
        BY <2>4, <4>1, <4>2
    <3>3. CASE ~\E e \in Elements(toDel) : e.id = i
      <4>1. toDel' = Append(toDel, ElementInfo(i))
        BY <2>4, <3>1, <3>3 DEF checkAndAddInfo
      <4>2. Len(toDel) + 1 \in 1..Len(toDel') /\ toDel'[Len(toDel) + 1] = ElementInfo(i)
        BY <3>1, <4>1
      <4> QED
        BY <2>4, <3>1, <4>2
    <3> QED
      BY <3>2, <3>3
  <2> QED
    BY <2>1, <2>2, <2>3, <2>4 DEF Collect
<1>5. \/ toDel' = toDel
      \/ /\ toDel' = Append(toDel, ElementInfo(i)) /\ i \in Stored /\ i \in Elements(element_info')
         /\ ElementInfo(i) \in Info /\ ElementInfo(i).id = i
         /\ \A k \in 1..Len(toDel) : toDel[k].id # i
  <2> SUFFICES ASSUME toDel' # toDel
               PROVE  /\ toDel' = Append(toDel, ElementInfo(i)) /\ i \in Stored
                      /\ i \in Elements(element_info')
                      /\ ElementInfo(i) \in Info /\ ElementInfo(i).id = i
                      /\ \A k \in 1..Len(toDel) : toDel[k].id # i
    OBVIOUS
  <2>1. /\ i \in Stored /\ element_info' = Append(element_info, i)
        /\ toDel' = checkAndAddInfo(toDel, ElementInfo(i))
    BY DEF Collect
  <2>2. i \in Elements(element_info')
    BY <1>1, <2>1, AppendElements DEF BulkInv, TypeInv
  <2>3. ElementInfo(i).id = i
    BY DEF ElementInfo
  <2>4. toDel' = Append(toDel, ElementInfo(i)) /\ ~\E e \in Elements(toDel) : e.id = i
    BY <2>1, <2>3 DEF checkAndAddInfo
  <2>5. \A k \in 1..Len(toDel) : toDel[k].id # i
    <3>1. \A k \in 1..Len(toDel) : toDel[k] \in Elements(toDel)
      BY DEF BulkInv, TypeInv, Elements
    <3> QED
      BY <2>4, <3>1
  <2>6. ElementInfo(i) \in Info
    <3>1. db[i] \in Table!Asset /\ db[i].type # "vacant"
      BY <1>1, <2>1 DEF BulkInv, TypeInv, TypeOK, Stored, Table!Stored
    <3>2. Powered(i) \in SUBSET Ids
      BY DEF Powered, Stored, Table!Stored
    <3> QED
      BY <1>1, <3>1, <3>2 DEF ElementInfo, Info, Table!Asset
  <2> QED
    BY <2>1, <2>2, <2>3, <2>4, <2>5, <2>6
<1> HIDE DEF i
<1>6. /\ ret' \in Seq(Replies)
      /\ Elements(ret) \subseteq Elements(ret')
      /\ \A r \in Elements(ret') : r \in Elements(ret)
           \/ (r.id = i /\ r.status = 0 /\ (i \in Stored \/ i \notin Elements(element_info')))
  <2>1. CASE ret' = ret
    BY <2>1 DEF BulkInv, TypeInv
  <2>2. CASE ret' = Append(ret, Reply(i, 0)) /\ (i \in Stored \/ i \notin Elements(element_info'))
    BY <1>1, <2>2, ReplyElements DEF BulkInv
  <2> QED
    BY <1>4, <2>1, <2>2
<1>7. /\ toDel' \in Seq(Info) /\ Len(toDel) <= Len(toDel') /\ Len(toDel) \in Nat /\ Len(toDel') \in Nat
      /\ \A k \in 1..Len(toDel) : toDel'[k] = toDel[k]
      /\ \A k \in 1..Len(toDel') : k \in 1..Len(toDel) \/
           (toDel'[k].id = i /\ i \in Stored /\ i \in Elements(element_info'))
      /\ \A j, k \in 1..Len(toDel') : j # k => toDel'[j].id # toDel'[k].id
  <2>1. /\ toDel \in Seq(Info)
        /\ \A j, k \in 1..Len(toDel) : j # k => toDel[j].id # toDel[k].id
    <3>1. /\ toDel \in Seq(Info)
          /\ \A j, k \in DOMAIN toDel : j # k => toDel[j].id # toDel[k].id
      BY DEF BulkInv, TypeInv, TypeOK
    <3>2. DOMAIN toDel = 1..Len(toDel)
      BY <3>1
    <3> QED
      BY <3>1, <3>2
  <2>2. CASE toDel' = toDel
    BY <2>1, <2>2
  <2>3. CASE /\ toDel' = Append(toDel, ElementInfo(i)) /\ i \in Stored /\ i \in Elements(element_info')
             /\ ElementInfo(i) \in Info /\ ElementInfo(i).id = i
             /\ \A k \in 1..Len(toDel) : toDel[k].id # i
    <3>1. /\ toDel' \in Seq(Info) /\ Len(toDel') = Len(toDel) + 1 /\ Len(toDel) \in Nat
          /\ \A k \in 1..Len(toDel) : toDel'[k] = toDel[k]
          /\ toDel'[Len(toDel) + 1] = ElementInfo(i)
      BY <2>1, <2>3
    <3>2. \A k \in 1..Len(toDel') : k \in 1..Len(toDel) \/ k = Len(toDel) + 1
      BY <3>1
    <3> QED
      BY <2>1, <2>3, <3>1, <3>2
  <2> QED
    BY <1>5, <2>2, <2>3
<1>8. TypeInv'
  <2>1. Elements(toDel') \subseteq Info /\ Elements(element_info') \subseteq Ids
        /\ Elements(ret') \subseteq Replies
    BY <1>3, <1>6, <1>7 DEF Elements
  <2>2. \A j, k \in DOMAIN toDel' : j # k => toDel'[j].id # toDel'[k].id
    BY <1>7
  <2>3. at' \in Nat /\ at' \in 1..Len(ids') + 1
    BY <1>1
  <2>4. TypeOK'
    BY <1>1, <1>2, <2>1, <2>2, <2>3 DEF BulkInv, TypeInv, TypeOK, Info, Replies
  <2> QED
    BY <1>1, <1>3, <1>6, <1>7, <2>3, <2>4 DEF BulkInv, TypeInv
<1>9. WorkInv'
  <2>1. Elements(element_info') \subseteq Stored /\ Elements(element_info) \subseteq Elements(element_info')
    BY <1>1, <1>3 DEF BulkInv, WorkInv
  <2>2. \A k \in 1..Len(toDel') :
          toDel'[k].id \in Elements(ids) \cap Elements(element_info') /\ toDel'[k].id \in Stored
    BY <1>1, <1>7, <2>1 DEF BulkInv, WorkInv
  <2> QED
    BY <1>1, <2>1, <2>2 DEF WorkInv
<1>10. AnswerInv'
  <2>1. ASSUME NEW r \in Elements(ret')
        PROVE  /\ r.id \in Elements(ids)
               /\ r.status = 1 => r.id \notin Stored /\ r.id \in Elements(element_info')
               /\ r.status = 0 => r.id \in Stored \/ r.id \notin Elements(element_info')
    BY <1>1, <1>3, <1>6, <2>1 DEF BulkInv, AnswerInv
  <2>2. ASSUME NEW k \in 1..Len(ids), k < at + 1
        PROVE  Answered(ids[k])' \/ Collected(ids[k])'
    <3>1. CASE k = at
      <4>1. CASE \E j \in 1..Len(toDel') : toDel'[j].id = i
        BY <1>1, <3>1, <4>1 DEF Collected, i
      <4>2. CASE ret' = Append(ret, Reply(i, 0))
        <5>1. Reply(i, 0) \in Elements(ret') /\ Reply(i, 0).id = i
          BY <1>1, <4>2, ReplyElements DEF BulkInv
        <5> QED
          BY <1>1, <3>1, <5>1 DEF Answered, i
      <4> QED
        BY <1>4, <4>1, <4>2
    <3>2. CASE k # at
      <4>1. k < at
        BY <1>1, <2>2, <3>2
      <4>2. Answered(ids[k]) \/ Collected(ids[k])
        BY <1>1, <4>1 DEF BulkInv, AnswerInv
      <4>3. Answered(ids[k]) => Answered(ids[k])'
        BY <1>1, <1>6 DEF Answered
      <4>4. Collected(ids[k]) => Collected(ids[k])'
        BY <1>1, <1>7 DEF Collected
      <4> QED
        BY <4>2, <4>3, <4>4
    <3> QED
      BY <3>1, <3>2
  <2> QED
    BY <1>1, <2>1, <2>2 DEF AnswerInv, Answered, Collected
<1> QED
  BY <1>8, <1>9, <1>10 DEF BulkInv

(* Sorting, and entering and leaving it. *)
LEMMA SortKeeps ==
  ASSUME BulkInv, Sort
  PROVE  BulkInv'
<1>1. /\ db' = db /\ ids' = ids /\ element_info' = element_info /\ ret' = ret /\ Stored' = Stored
      /\ licensed' = licensed /\ inserts' = inserts /\ failures' = failures
  BY DEF Sort, Stored
<1>2. /\ toDel \in Seq(Info) /\ Len(toDel) \in Nat /\ Len(ids) \in Nat
      /\ stage = "collect" => at \in 1..Len(ids) + 1
      /\ stage \in {"sort", "delete"} => at \in 1..Len(toDel) + 1
  BY DEF BulkInv, TypeInv
<1>3. \A j, k \in 1..Len(toDel) : j # k => toDel[j].id # toDel[k].id
  <2>1. \A j, k \in DOMAIN toDel : j # k => toDel[j].id # toDel[k].id
    BY DEF BulkInv, TypeInv, TypeOK
  <2>2. DOMAIN toDel = 1..Len(toDel)
    BY <1>2
  <2> QED
    BY <2>1, <2>2
(* What every step of the sort keeps: the elements, each once. *)
<1>4. ASSUME toDel' \in Seq(Info), stage \in {"collect", "sort"}, stage' \in {"sort", "delete"},
             at' \in 1..Len(toDel') + 1, stage' = "delete" => at' = 1,
             stage = "collect" => at > Len(ids),
             NEW p, Permuted(toDel', toDel, p)
      PROVE  BulkInv'
  <2>1. /\ Len(toDel') = Len(toDel) /\ p \in [1..Len(toDel) -> 1..Len(toDel)]
        /\ \A k \in 1..Len(toDel) : toDel'[k] = toDel[p[k]]
        /\ \A j, k \in 1..Len(toDel) : p[j] = p[k] => j = k
        /\ \A j \in 1..Len(toDel) : \E k \in 1..Len(toDel) : p[k] = j
    BY <1>4 DEF Permuted
  <2>2. \A j, k \in 1..Len(toDel') : j # k => toDel'[j].id # toDel'[k].id
    <3> SUFFICES ASSUME NEW j \in 1..Len(toDel'), NEW k \in 1..Len(toDel'), j # k
                 PROVE  toDel'[j].id # toDel'[k].id
      OBVIOUS
    <3>1. /\ j \in 1..Len(toDel) /\ k \in 1..Len(toDel)
          /\ p[j] \in 1..Len(toDel) /\ p[k] \in 1..Len(toDel)
      BY <2>1
    <3>2. p[j] # p[k]
      BY <2>1, <3>1
    <3>3. toDel[p[j]].id # toDel[p[k]].id
      BY <1>3, <3>1, <3>2
    <3>4. toDel'[j] = toDel[p[j]] /\ toDel'[k] = toDel[p[k]]
      BY <2>1, <3>1
    <3> QED
      BY <3>3, <3>4
  <2>3. DOMAIN toDel' = 1..Len(toDel') /\ Elements(toDel') \subseteq Info /\ at' \in Nat
    BY <1>2, <1>4, <2>1 DEF Elements
  <2>4. TypeOK'
    BY <1>1, <1>4, <2>2, <2>3 DEF BulkInv, TypeInv, TypeOK, Info
  <2>5. TypeInv'
    BY <1>1, <1>4, <2>4 DEF BulkInv, TypeInv
  <2>6. WorkInv'
    <3>1. \A k \in 1..Len(toDel) :
            toDel[k].id \in Elements(ids) \cap Elements(element_info) /\ toDel[k].id \in Stored
      BY <1>4 DEF BulkInv, WorkInv
    <3>2. \A k \in 1..Len(toDel') :
            toDel'[k].id \in Elements(ids) \cap Elements(element_info) /\ toDel'[k].id \in Stored
      BY <2>1, <3>1
    <3> QED
      BY <1>1, <1>4, <3>2 DEF WorkInv
  <2>7. AnswerInv'
    <3>1. ASSUME NEW i, Collected(i) PROVE Collected(i)'
      <4>1. PICK j \in 1..Len(toDel) : toDel[j].id = i
        BY <3>1 DEF Collected
      <4>2. PICK k \in 1..Len(toDel) : p[k] = j
        BY <2>1
      <4>3. k \in 1..Len(toDel') /\ toDel'[k].id = i
        BY <2>1, <4>1, <4>2
      <4> QED
        BY <4>3 DEF Collected
    <3>2. \A k \in 1..Len(ids) : Answered(ids[k]) \/ Collected(ids[k])
      <4>1. \A k \in 1..Len(ids) : stage = "collect" => k < at
        BY <1>2, <1>4
      <4> QED
        BY <4>1 DEF BulkInv, AnswerInv
    <3>3. \A k \in 1..Len(ids) : Answered(ids[k])' \/ Collected(ids[k])'
      <4> SUFFICES ASSUME NEW k \in 1..Len(ids)
                   PROVE  Answered(ids[k])' \/ Collected(ids[k])'
        OBVIOUS
      <4>1. CASE Answered(ids[k])
        BY <1>1, <4>1 DEF Answered
      <4>2. CASE Collected(ids[k])
        BY <1>1, <3>1, <4>2 DEF Collected
      <4> QED
        BY <3>2, <4>1, <4>2
    <3>4. \A k \in 1..Len(toDel') : ~(stage' = "done" \/ (stage' = "delete" /\ k < at'))
      BY <1>4
    <3>5. \A r \in Elements(ret') :
            /\ r.id \in Elements(ids')
            /\ r.status = 1 => r.id \notin Stored' /\ r.id \in Elements(element_info')
            /\ r.status = 0 => r.id \in Stored' \/ r.id \notin Elements(element_info')
      BY <1>1 DEF BulkInv, AnswerInv
    <3> QED
      BY <1>1, <3>3, <3>4, <3>5 DEF AnswerInv, Answered, Collected
  <2> QED
    BY <2>5, <2>6, <2>7 DEF BulkInv
<1>5. CASE toDel' = toDel
  <2>1. Permuted(toDel', toDel, [k \in 1..Len(toDel) |-> k])
    BY <1>2, <1>5 DEF Permuted
  <2>2. /\ stage \in {"collect", "sort"} /\ stage' \in {"sort", "delete"}
        /\ at' \in 1..Len(toDel') + 1 /\ (stage' = "delete" => at' = 1)
        /\ (stage = "collect" => at > Len(ids))
    <3>1. CASE stage = "sort" /\ at <= Len(toDel) /\ at' = at + 1 /\ UNCHANGED stage
      BY <1>2, <1>5, <3>1
    <3>2. CASE stage = "collect" /\ at > Len(ids) /\ stage' = "sort" /\ at' = 1
      BY <1>2, <1>5, <3>2
    <3>3. CASE stage = "sort" /\ stage' = "delete" /\ at' = 1
      BY <1>2, <1>5, <3>3
    <3> QED
      BY <3>1, <3>2, <3>3 DEF Sort
  <2> QED
    BY <1>2, <1>4, <1>5, <2>1, <2>2
<1>6. CASE /\ stage = "sort" /\ at <= Len(toDel) /\ at' = at + 1 /\ stage' = stage
           /\ toDel' = Inserted(SubSeq(toDel, 1, at - 1), toDel[at]) \o SubSeq(toDel, at + 1, Len(toDel))
  <2>1. at \in 1..Len(toDel) /\ toDel' = SortedTo(toDel, at)
    BY <1>2, <1>6 DEF SortedTo
  <2>2. toDel' \in Seq(Info) /\ \E p : Permuted(toDel', toDel, p)
    BY <1>2, <2>1, SortStep
  <2>3. PICK p : Permuted(toDel', toDel, p)
    BY <2>2
  <2>4. at' \in 1..Len(toDel') + 1
    <3>1. Len(toDel') = Len(toDel)
      BY <2>3 DEF Permuted
    <3>2. at \in 1..Len(toDel) /\ at' = at + 1
      BY <1>6, <2>1
    <3>3. at + 1 \in 1..Len(toDel) + 1
      BY <1>2, <3>2
    <3> QED
      BY <3>1, <3>2, <3>3
  <2> QED
    BY <1>4, <1>6, <2>2, <2>3, <2>4
<1> QED
  BY <1>5, <1>6 DEF Sort

(* A deletion removes its asset only. *)
LEMMA ApplyDeletion ==
  ASSUME db \in [Ids -> Table!Asset], NEW e \in Info, db' = Table!Apply(db, Deletion(e))
  PROVE  db' \in [Ids -> Table!Asset] /\ Stored' = Stored \ {e.id}
<1>1. db' = [i \in Ids |-> IF i = e.id THEN Table!Vacant
                          ELSE IF e.type = "group" THEN [db[i] EXCEPT !.groups = @ \ {e.id}]
                          ELSE db[i]]
  BY DEF Table!Apply, Deletion
<1>2. Table!Vacant \in Table!Asset /\ Table!Vacant.type = "vacant"
  BY DEF Table!Vacant, Table!Asset, Table!Statuses
<1>3. ASSUME NEW i \in Ids
      PROVE  db'[i] \in Table!Asset /\ (i # e.id => db'[i].type = db[i].type)
  <2> DEFINE r == db[i]
  <2>1. r \in Table!Asset
    OBVIOUS
  <2>2. \/ db'[i] = r
        \/ db'[i] = [r EXCEPT !.groups = @ \ {e.id}]
        \/ i = e.id /\ db'[i] = Table!Vacant
    BY <1>1
  <2> HIDE DEF r
  <2>3. [r EXCEPT !.groups = @ \ {e.id}] \in Table!Asset
        /\ [r EXCEPT !.groups = @ \ {e.id}].type = r.type
    BY <2>1 DEF Table!Asset
  <2>4. db'[i] \in Table!Asset /\ (i # e.id => db'[i].type = r.type)
    BY <1>2, <2>1, <2>2, <2>3
  <2> QED
    BY <2>4 DEF r
<1>4. e.id \in Ids /\ db'[e.id] = Table!Vacant
  BY <1>1 DEF Info
<1>5. db' \in [Ids -> Table!Asset]
  BY <1>1, <1>3
<1>6. Stored' = Stored \ {e.id}
  BY <1>2, <1>3, <1>4 DEF Stored, Table!Stored
<1> QED
  BY <1>5, <1>6

(* A deletion, a refusal, or what was refused before left alone. *)
LEMMA DeleteKeeps ==
  ASSUME BulkInv, Delete
  PROVE  BulkInv'
<1> DEFINE e == toDel[at]
<1>1. /\ stage = "delete" /\ stage' = "delete" /\ at \in 1..Len(toDel) /\ at' = at + 1
      /\ ids' = ids /\ toDel' = toDel /\ element_info' = element_info /\ inserts' = inserts
      /\ toDel \in Seq(Info) /\ e \in Info /\ e.id \in Ids
      /\ db \in [Ids -> Table!Asset]
  <2>1. toDel \in Seq(Info) /\ at \in 1..Len(toDel) + 1 /\ db \in [Ids -> Table!Asset]
    BY DEF BulkInv, TypeInv, TypeOK, Delete
  <2>2. at \in 1..Len(toDel)
    BY <2>1 DEF Delete
  <2>3. e \in Info
    BY <2>1, <2>2
  <2>4. e.id \in Ids
    BY <2>3 DEF Info
  <2> QED
    BY <2>1, <2>2, <2>3, <2>4 DEF Delete
<1>2. e.id \in Elements(ids) /\ e.id \in Elements(element_info) /\ e.id \in Stored
  BY <1>1 DEF BulkInv, WorkInv
<1>3. \A k \in 1..Len(toDel) : k # at => toDel[k].id # e.id
  <2>1. \A j, k \in DOMAIN toDel : j # k => toDel[j].id # toDel[k].id
    BY DEF BulkInv, TypeInv, TypeOK
  <2>2. DOMAIN toDel = 1..Len(toDel)
    BY <1>1
  <2> QED
    BY <1>1, <2>1, <2>2
<1>4. failures' \in 0..MaxFailures /\ licensed' \subseteq Ids
  <2>1. failures \in 0..MaxFailures /\ licensed \subseteq Ids
    BY DEF BulkInv, TypeInv, TypeOK
  <2>2. CASE MayFail /\ licensed' = licensed
    BY <2>1, <2>2, BulkConstants DEF MayFail
  <2>3. CASE failures' = failures /\ licensed' \subseteq licensed
    BY <2>1, <2>3
  <2> QED
    BY <2>2, <2>3 DEF Delete
(* The three outcomes: left alone, deleted, refused. *)
<1>5. \/ ret' = ret /\ db' = db /\ Answered(e.id)
      \/ /\ ~Refused(e.id) /\ ret' = Append(ret, Reply(e.id, 1))
         /\ db' = Table!Apply(db, Deletion(e))
      \/ ret' = Append(ret, Reply(e.id, 0)) /\ db' = db
  BY DEF Delete, Wanted, Refused, Answered
<1> HIDE DEF e
<1>6. /\ db' \in [Ids -> Table!Asset] /\ Stored \ {e.id} \subseteq Stored' /\ Stored' \subseteq Stored
      /\ ret' \in Seq(Replies) /\ Elements(ret) \subseteq Elements(ret')
      /\ \E r \in Elements(ret') : r.id = e.id
      /\ \A r \in Elements(ret') :
           /\ r \in Elements(ret) \/ r.id = e.id
           /\ r.id = e.id /\ r.status = 1 => e.id \notin Stored'
           /\ r.id = e.id /\ r.status = 0 => e.id \in Stored'
  <2>1. ret \in Seq(Replies) /\ \A r \in Elements(ret) : r.id = e.id => r.status # 1
    BY <1>2 DEF BulkInv, TypeInv, AnswerInv
  <2>2. CASE ret' = ret /\ db' = db /\ Answered(e.id)
    <3>1. Stored' = Stored
      BY <2>2 DEF Stored
    <3> QED
      BY <1>1, <1>2, <2>1, <2>2, <3>1 DEF Answered
  <2>3. CASE /\ ~Refused(e.id) /\ ret' = Append(ret, Reply(e.id, 1))
             /\ db' = Table!Apply(db, Deletion(e))
    <3>1. db' \in [Ids -> Table!Asset] /\ Stored' = Stored \ {e.id}
      BY <1>1, <2>3, ApplyDeletion
    <3>2. /\ ret' \in Seq(Replies) /\ Elements(ret') = Elements(ret) \cup {Reply(e.id, 1)}
          /\ Reply(e.id, 1).id = e.id /\ Reply(e.id, 1).status = 1
      BY <1>1, <2>3, ReplyElements DEF BulkInv
    <3>3. \A r \in Elements(ret) : r.id = e.id => r.status # 0
      BY <2>3 DEF Refused
    <3> QED
      BY <1>2, <2>1, <3>1, <3>2, <3>3
  <2>4. CASE ret' = Append(ret, Reply(e.id, 0)) /\ db' = db
    <3>1. Stored' = Stored
      BY <2>4 DEF Stored
    <3>2. /\ ret' \in Seq(Replies) /\ Elements(ret') = Elements(ret) \cup {Reply(e.id, 0)}
          /\ Reply(e.id, 0).id = e.id /\ Reply(e.id, 0).status = 0
      BY <1>1, <2>4, ReplyElements DEF BulkInv
    <3> QED
      BY <1>1, <1>2, <2>1, <2>4, <3>1, <3>2
  <2> QED
    BY <1>5, <2>2, <2>3, <2>4
<1>7. TypeInv'
  <2>1. Elements(ret') \subseteq Replies
    BY <1>6 DEF Elements
  <2>2. at' \in Nat /\ at' \in 1..Len(toDel') + 1
    BY <1>1
  <2>3. TypeOK'
    BY <1>1, <1>4, <1>6, <2>1, <2>2 DEF BulkInv, TypeInv, TypeOK, Replies
  <2> QED
    BY <1>1, <1>6, <2>2, <2>3 DEF BulkInv, TypeInv
<1>8. WorkInv'
  <2>1. \A k \in 1..Len(toDel) : at + 1 <= k => toDel[k].id \in Stored /\ k # at
    BY <1>1 DEF BulkInv, WorkInv
  <2>2. \A k \in 1..Len(toDel) : at + 1 <= k => toDel[k].id \in Stored'
    BY <1>3, <1>6, <2>1
  <2> QED
    BY <1>1, <2>2 DEF BulkInv, WorkInv
<1>9. AnswerInv'
  <2>1. ASSUME NEW r \in Elements(ret')
        PROVE  /\ r.id \in Elements(ids)
               /\ r.status = 1 => r.id \notin Stored' /\ r.id \in Elements(element_info)
               /\ r.status = 0 => r.id \in Stored' \/ r.id \notin Elements(element_info)
    <3>1. CASE r.id = e.id
      BY <1>2, <1>6, <3>1
    <3>2. CASE r.id # e.id
      <4>1. r \in Elements(ret)
        BY <1>6, <3>2
      <4> QED
        BY <1>6, <3>2, <4>1 DEF BulkInv, AnswerInv
    <3> QED
      BY <3>1, <3>2
  <2>2. \A i : Answered(i) => Answered(i)'
    BY <1>6 DEF Answered
  <2>3. \A k \in 1..Len(ids) : Answered(ids[k])' \/ Collected(ids[k])'
    BY <1>1, <2>2 DEF BulkInv, AnswerInv, Collected
  <2>4. ASSUME NEW k \in 1..Len(toDel), k < at + 1
        PROVE  Answered(toDel[k].id)'
    <3>1. CASE k = at
      BY <1>1, <1>6, <3>1 DEF Answered, e
    <3>2. CASE k # at
      <4>1. k < at
        BY <1>1, <2>4, <3>2
      <4> QED
        BY <1>1, <2>2, <4>1 DEF BulkInv, AnswerInv
    <3> QED
      BY <3>1, <3>2
  <2> QED
    BY <1>1, <2>1, <2>3, <2>4 DEF AnswerInv, Answered, Collected
<1> QED
  BY <1>7, <1>8, <1>9 DEF BulkInv

(* The end of the request. *)
LEMMA FinishKeeps ==
  ASSUME BulkInv, Finish
  PROVE  BulkInv'
<1>1. /\ stage = "delete" /\ at > Len(toDel) /\ stage' = "done"
      /\ UNCHANGED <<db, ids, at, toDel, element_info, ret, licensed, inserts, failures>>
      /\ Stored' = Stored
  BY DEF Finish, Stored
<1>2. TypeInv'
  BY <1>1 DEF BulkInv, TypeInv, TypeOK
<1>3. WorkInv'
  BY <1>1 DEF BulkInv, WorkInv
<1>4. \A k \in 1..Len(toDel) : k < at
  BY <1>1 DEF BulkInv, TypeInv
<1>5. AnswerInv'
  BY <1>1, <1>4 DEF BulkInv, AnswerInv, Answered, Collected
<1> QED
  BY <1>2, <1>3, <1>5 DEF BulkInv

(* Nobody inserts an asset under an id that was asked for. *)
LEMMA InsertKeeps ==
  ASSUME BulkInv, NEW i \in Ids, Insert(i)
  PROVE  BulkInv'
<1>1. /\ UNCHANGED <<ids, stage, at, toDel, element_info, ret, licensed, failures>>
      /\ inserts < MaxInserts /\ inserts' = inserts + 1
      /\ i \notin Stored /\ i \notin Elements(ids) /\ db \in [Ids -> Table!Asset]
  BY DEF Insert, BulkInv, TypeInv, TypeOK
<1>2. PICK j \in Stored :
        db' = [db EXCEPT ![i] = [Table!Vacant EXCEPT
                 !.type = "device", !.monitored = TRUE,
                 !.parent = IF db[j].type \in Places THEN j ELSE None,
                 !.sources = IF db[j].type = "device" THEN {j} ELSE {}]]
  BY DEF Insert
<1>3. j \in Ids
  BY DEF Stored, Table!Stored
<1>4. db' \in [Ids -> Table!Asset] /\ db'[i].type = "device"
      /\ \A k \in Ids \ {i} : db'[k] = db[k]
  <2> DEFINE q == [Table!Vacant EXCEPT
                 !.type = "device", !.monitored = TRUE,
                 !.parent = IF db[j].type \in Places THEN j ELSE None,
                 !.sources = IF db[j].type = "device" THEN {j} ELSE {}]
  <2>1. q \in Table!Asset /\ q.type = "device"
    BY <1>3 DEF Table!Vacant, Table!Asset, Table!Types, Table!Statuses
  <2>2. db' = [db EXCEPT ![i] = q]
    BY <1>2
  <2> HIDE DEF q
  <2> QED
    BY <1>1, <2>1, <2>2
<1>5. Stored' = Stored \cup {i}
  BY <1>4 DEF Stored, Table!Stored
<1>6. inserts' \in 0..MaxInserts
  <2>1. inserts \in 0..MaxInserts
    BY DEF BulkInv, TypeInv, TypeOK
  <2> QED
    BY <1>1, <2>1, BulkConstants
<1>7. TypeInv'
  BY <1>1, <1>4, <1>6 DEF BulkInv, TypeInv, TypeOK
<1>8. WorkInv'
  BY <1>1, <1>5 DEF BulkInv, WorkInv
<1>9. AnswerInv'
  <2>1. \A r \in Elements(ret) : r.id # i
    BY <1>1 DEF BulkInv, AnswerInv
  <2> QED
    BY <1>1, <1>5, <2>1 DEF BulkInv, AnswerInv, Answered, Collected
<1> QED
  BY <1>7, <1>8, <1>9 DEF BulkInv

(* Every step keeps the invariant. *)
LEMMA BulkStep == BulkInv /\ [Next]_vars => BulkInv'
<1> SUFFICES ASSUME BulkInv, [Next]_vars PROVE BulkInv'
  OBVIOUS
<1>1. CASE UNCHANGED vars
  BY <1>1 DEF vars, BulkInv, TypeInv, TypeOK, WorkInv, AnswerInv, Answered, Collected, Stored
<1>2. CASE Collect
  BY <1>2, CollectStep
<1>3. CASE Sort
  BY <1>3, SortKeeps
<1>4. CASE Delete
  BY <1>4, DeleteKeeps
<1>5. CASE Finish
  BY <1>5, FinishKeeps
<1>6. ASSUME NEW i \in Ids, Insert(i) PROVE BulkInv'
  BY <1>6, InsertKeeps
<1> QED
  BY <1>1, <1>2, <1>3, <1>4, <1>5, <1>6 DEF Next, delete_item, Done

(* And it holds at first. *)
LEMMA BulkInit == Init => BulkInv
<1> SUFFICES ASSUME Init PROVE BulkInv
  OBVIOUS
<1>1. /\ db \in [Ids -> Table!Asset] /\ ids \in Selections /\ ids \in Seq(Ids)
      /\ stage = "collect" /\ at = 1 /\ toDel = <<>> /\ element_info = <<>> /\ ret = <<>>
      /\ licensed \subseteq Ids /\ inserts = 0 /\ failures = 0
  BY BulkConstants DEF Init, Stored, Table!Stored
<1>2. Elements(<<>>) = {} /\ Len(<<>>) = 0 /\ DOMAIN <<>> = {}
  BY DEF Elements
<1>3. TypeInv
  <2>1. toDel \in Seq(Info) /\ element_info \in Seq(Ids) /\ ret \in Seq(Replies) /\ Len(ids) \in Nat
    BY <1>1
  <2>2. inserts \in 0..MaxInserts /\ failures \in 0..MaxFailures /\ at \in Nat /\ at \in 1..Len(ids) + 1
    BY <1>1, <2>1, BulkConstants
  <2>3. Elements(toDel) = {} /\ Elements(element_info) = {} /\ Elements(ret) = {} /\ DOMAIN toDel = {}
    BY <1>1, <1>2
  <2>4. TypeOK
    BY <1>1, <2>2, <2>3 DEF TypeOK
  <2> QED
    BY <1>1, <2>1, <2>2, <2>4 DEF TypeInv
<1>4. WorkInv /\ AnswerInv
  BY <1>1, <1>2 DEF WorkInv, AnswerInv
<1> QED
  BY <1>3, <1>4 DEF BulkInv

------------------------------------------------------------------------------
(* Theorems *)

(* The variables have their types, and no asset is collected twice.          *)
THEOREM BulkTypeCorrect == Spec => []TypeOK
<1>1. BulkInv => TypeOK
  BY DEF BulkInv, TypeInv
<1> QED
  BY <1>1, BulkInit, BulkStep, PTL DEF Spec

(* Every asset asked for has an answer and all its answers are true, whatever *)
(* the order of the deletions, whatever fails, and whoever inserts meanwhile. *)
THEOREM BulkRepliesAreTrue == Spec => []RepliesAreTrue
<1>1. BulkInv => RepliesAreTrue
  <2> SUFFICES ASSUME BulkInv, stage = "done", NEW i \in Elements(ids)
               PROVE  /\ {r \in Elements(ret) : r.id = i} # {}
                      /\ \A r \in {r \in Elements(ret) : r.id = i} :
                           (r.status = 1) <=> (i \in Elements(element_info) /\ i \notin Stored)
    BY DEF RepliesAreTrue
  <2>1. PICK k \in 1..Len(ids) : ids[k] = i
    BY DEF BulkInv, TypeInv, Elements
  <2>2. Answered(i) \/ Collected(i)
    BY <2>1 DEF BulkInv, AnswerInv
  <2>3. Collected(i) => Answered(i)
    BY DEF BulkInv, AnswerInv, Collected
  <2>4. {r \in Elements(ret) : r.id = i} # {}
    BY <2>2, <2>3 DEF Answered
  <2>5. \A r \in Elements(ret) : r.status \in {0, 1}
    BY DEF BulkInv, TypeInv, TypeOK
  <2> QED
    BY <2>4, <2>5 DEF BulkInv, AnswerInv
<1> QED
  BY <1>1, BulkInit, BulkStep, PTL DEF Spec

------------------------------------------------------------------------------
(* What depends on an asset, and what is deleted of a family *)

(* What is below an asset of a table t, by its first value and the step.    *)
Depth == Cardinality(Ids)

Descends(t, i, f) ==
  /\ f \in [0..Depth -> SUBSET Ids] /\ f[0] = {i}
  /\ \A n \in 1..Depth : f[n] = f[n - 1] \cup {j \in Table!Stored(t) : t[j].parent \in f[n - 1]}

BelowIn(t, i) ==
  LET down[n \in 0..Depth] ==
        IF n = 0 THEN {i}
        ELSE LET above == down[n - 1] IN above \cup {j \in Table!Stored(t) : t[j].parent \in above}
  IN down[Depth] \ {i}

PoweredIn(t, i) == {j \in Table!Stored(t) : i \in t[j].sources}

(* There are as many levels as ids, at least one. *)
LEMMA DepthType == Depth \in Nat \ {0}
<1>1. IsFiniteSet(Ids) /\ Ids # {}
  BY BulkDeleteAssumption
<1> QED
  BY <1>1, FS_CardinalityType, FS_EmptySet DEF Depth

(* collectChildren descends level by level, and no further than Depth levels. *)
LEMMA BelowFacts ==
  ASSUME NEW t, NEW i \in Ids
  PROVE  \E f : Descends(t, i, f) /\ BelowIn(t, i) = f[Depth] \ {i}
<1> DEFINE S == SUBSET Ids
           inside(A) == A \cup {j \in Table!Stored(t) : t[j].parent \in A}
           step == [x \in (1..Depth) \X S |-> inside(x[2])]
           eq(f) == f = [n \in 0..Depth |-> IF n = 0 THEN {i} ELSE inside(f[n - 1])]
           down == CHOOSE f : eq(f)
<1>1. Depth \in Nat /\ {i} \in S
  BY DepthType
<1>2. \A A \in S : inside(A) \in S
  BY DEF Table!Stored
<1>3. step \in Steps(Depth, S) /\ \A n \in 1..Depth, A \in S : step[<<n, A>>] = inside(A)
  BY <1>2 DEF Steps
<1> HIDE DEF step, S
<1>4. PICK f : Recurses(f, Depth, S, {i}, step)
  BY <1>1, <1>3, Recursion
<1>5. /\ f \in [0..Depth -> S] /\ f[0] = {i}
      /\ \A n \in 1..Depth : f[n] = inside(f[n - 1])
  <2>1. f \in [0..Depth -> S] /\ f[0] = {i} /\ \A n \in 1..Depth : f[n] = step[<<n, f[n - 1]>>]
    BY <1>4 DEF Recurses
  <2> SUFFICES ASSUME NEW n \in 1..Depth PROVE f[n] = inside(f[n - 1])
    BY <2>1
  <2>2. f[n - 1] \in S
    BY <1>1, <2>1
  <2>3. step[<<n, f[n - 1]>>] = inside(f[n - 1])
    BY <1>3, <2>2
  <2> QED
    BY <2>1, <2>3
<1> HIDE DEF inside
<1>6. eq(f)
  BY <1>1, <1>5
<1>7. eq(down)
  BY <1>6
<1>8. BelowIn(t, i) = down[Depth] \ {i}
  BY DEF BelowIn, inside
<1> HIDE DEF down
<1>9. down[0] = {i} /\ \A n \in 1..Depth : down[n] = inside(down[n - 1])
  <2>1. \A n \in 0..Depth : down[n] = IF n = 0 THEN {i} ELSE inside(down[n - 1])
    BY <1>7, Zenon
  <2>2. 0 \in 0..Depth /\ \A n \in 1..Depth : n \in 0..Depth /\ n # 0
    BY <1>1
  <2> QED
    BY <2>1, <2>2
<1>10. down \in [0..Depth -> S]
  <2> DEFINE T == {n \in 0..Depth : down[n] \in S}
  <2>1. 0 \in T
    BY <1>1, <1>9
  <2>2. ASSUME NEW k \in 0..(Depth - 1), k \in T PROVE k + 1 \in T
    <3>1. k + 1 \in 1..Depth /\ (k + 1) - 1 = k /\ k + 1 \in 0..Depth
      BY <1>1
    <3>2. down[k + 1] = inside(down[k])
      BY <1>9, <3>1
    <3> QED
      BY <1>2, <2>2, <3>1, <3>2 DEF inside
  <2> HIDE DEF T
  <2>3. 0..Depth \subseteq T
    BY <1>1, <2>1, <2>2, UpTo
  <2>4. \A n \in 0..Depth : down[n] \in S
    BY <2>3 DEF T
  <2> QED
    BY <1>7, <2>4
<1> QED
  BY <1>8, <1>9, <1>10 DEF Descends, inside, S

(* What is directly inside an asset is below it.                             *)
LEMMA ChildrenBelow ==
  ASSUME NEW t, NEW i \in Ids, NEW j \in Table!Stored(t), t[j].parent = i, j # i
  PROVE  j \in BelowIn(t, i)
<1>1. PICK f : Descends(t, i, f) /\ BelowIn(t, i) = f[Depth] \ {i}
  BY BelowFacts
<1>2. /\ f[0] = {i} /\ Depth \in Nat \ {0}
      /\ \A n \in 1..Depth : f[n] = f[n - 1] \cup {k \in Table!Stored(t) : t[k].parent \in f[n - 1]}
  BY <1>1, DepthType DEF Descends
<1>3. j \in f[1]
  <2>1. 1 \in 1..Depth /\ 1 - 1 = 0
    BY <1>2
  <2> QED
    BY <1>2, <2>1
<1> DEFINE T == {n \in 0..Depth : n = 0 \/ j \in f[n]}
<1>4. 0 \in T
  BY <1>2
<1>5. ASSUME NEW k \in 0..(Depth - 1), k \in T PROVE k + 1 \in T
  <2>1. k + 1 \in 1..Depth /\ (k + 1) - 1 = k /\ k + 1 \in 0..Depth
    BY <1>2
  <2> QED
    BY <1>2, <1>3, <1>5, <2>1
<1> HIDE DEF T
<1>6. 0..Depth \subseteq T
  BY <1>2, <1>4, <1>5, UpTo
<1>7. j \in f[Depth]
  BY <1>2, <1>6 DEF T
<1> QED
  BY <1>1, <1>7

(* Only what is stored is below an asset. *)
LEMMA BelowStored ==
  ASSUME NEW t, NEW i \in Ids
  PROVE  BelowIn(t, i) \subseteq Table!Stored(t)
<1>1. PICK f : Descends(t, i, f) /\ BelowIn(t, i) = f[Depth] \ {i}
  BY BelowFacts
<1>2. /\ f[0] = {i} /\ Depth \in Nat \ {0}
      /\ \A n \in 1..Depth : f[n] = f[n - 1] \cup {k \in Table!Stored(t) : t[k].parent \in f[n - 1]}
  BY <1>1, DepthType DEF Descends
<1> DEFINE T == {n \in 0..Depth : f[n] \subseteq Table!Stored(t) \cup {i}}
<1>3. 0 \in T
  BY <1>2
<1>4. ASSUME NEW k \in 0..(Depth - 1), k \in T PROVE k + 1 \in T
  <2>1. k + 1 \in 1..Depth /\ (k + 1) - 1 = k /\ k + 1 \in 0..Depth
    BY <1>2
  <2>2. f[k + 1] = f[k] \cup {j \in Table!Stored(t) : t[j].parent \in f[k]}
    BY <1>2, <2>1
  <2> QED
    BY <1>4, <2>1, <2>2
<1> HIDE DEF T
<1>5. 0..Depth \subseteq T
  BY <1>2, <1>3, <1>4, UpTo
<1>6. f[Depth] \subseteq Table!Stored(t) \cup {i}
  BY <1>2, <1>5 DEF T
<1> QED
  BY <1>1, <1>6

(* u is t without d, on which nothing depended. *)
Without(u, t, d) ==
  /\ Table!Stored(u) = Table!Stored(t) \ {d}
  /\ \A j \in Table!Stored(u) : u[j].parent = t[j].parent /\ u[j].sources = t[j].sources
  /\ \A j \in Table!Stored(t) \ {d} : t[j].parent # d /\ d \notin t[j].sources

(* Below and beside the others, all else stays.                              *)
LEMMA BelowAfter ==
  ASSUME NEW t, NEW u, NEW d \in Ids, Without(u, t, d), NEW i \in Ids, i # d
  PROVE  BelowIn(u, i) = BelowIn(t, i) \ {d} /\ PoweredIn(u, i) = PoweredIn(t, i) \ {d}
<1>1. PICK f : Descends(t, i, f) /\ BelowIn(t, i) = f[Depth] \ {i}
  BY BelowFacts
<1>2. PICK g : Descends(u, i, g) /\ BelowIn(u, i) = g[Depth] \ {i}
  BY BelowFacts
<1>3. /\ f[0] = {i} /\ Depth \in Nat \ {0}
      /\ \A n \in 1..Depth : f[n] = f[n - 1] \cup {k \in Table!Stored(t) : t[k].parent \in f[n - 1]}
  BY <1>1, DepthType DEF Descends
<1>4. /\ g[0] = {i}
      /\ \A n \in 1..Depth : g[n] = g[n - 1] \cup {k \in Table!Stored(u) : u[k].parent \in g[n - 1]}
  BY <1>2 DEF Descends
<1> DEFINE T == {n \in 0..Depth : g[n] = f[n] \ {d}}
<1>5. 0 \in T
  BY <1>3, <1>4
<1>6. ASSUME NEW k \in 0..(Depth - 1), k \in T PROVE k + 1 \in T
  <2>1. k + 1 \in 1..Depth /\ (k + 1) - 1 = k /\ k + 1 \in 0..Depth
    BY <1>3
  <2>2. f[k + 1] = f[k] \cup {j \in Table!Stored(t) : t[j].parent \in f[k]}
    BY <1>3, <2>1
  <2>3. g[k + 1] = g[k] \cup {j \in Table!Stored(u) : u[j].parent \in g[k]}
    BY <1>4, <2>1
  <2>4. g[k] = f[k] \ {d}
    BY <1>6
  <2>5. {j \in Table!Stored(u) : u[j].parent \in g[k]}
          = {j \in Table!Stored(t) : t[j].parent \in f[k]} \ {d}
    BY <2>4 DEF Without
  <2>6. g[k + 1] = f[k + 1] \ {d}
    BY <2>2, <2>3, <2>4, <2>5
  <2> QED
    BY <2>1, <2>6
<1> HIDE DEF T
<1>7. 0..Depth \subseteq T
  BY <1>3, <1>5, <1>6, UpTo
<1>8. g[Depth] = f[Depth] \ {d}
  BY <1>3, <1>7 DEF T
<1>9. PoweredIn(u, i) = PoweredIn(t, i) \ {d}
  BY DEF Without, PoweredIn
<1> QED
  BY <1>1, <1>2, <1>8, <1>9

(* The comparison: up to something that can be found, and at least to the    *)
(* other itself.                                                             *)
LEMMA AnyParentFacts ==
  ASSUME NEW x, NEW p, NEW among, Len(toDel) \in Nat
  PROVE  /\ isAnyParent(x, p, among) => \E q \in among \cup {p} : x.parent = q.id
         /\ x.parent = p.id => isAnyParent(x, p, among)
<1> DEFINE L == Len(toDel)
           S == SUBSET (among \cup {p})
           over(A) == A \cup {e \in among : \E q \in A : e.id = q.parent}
           step == [y \in (1..L) \X S |-> over(y[2])]
           eq(f) == f = [n \in 0..L |-> IF n = 0 THEN {p} ELSE over(f[n - 1])]
           up == CHOOSE f : eq(f)
<1>1. L \in Nat /\ {p} \in S
  OBVIOUS
<1>2. \A A \in S : over(A) \in S
  OBVIOUS
<1>3. step \in Steps(L, S) /\ \A n \in 1..L, A \in S : step[<<n, A>>] = over(A)
  BY <1>2 DEF Steps
<1> HIDE DEF step, S, L
<1>4. PICK f : Recurses(f, L, S, {p}, step)
  BY <1>1, <1>3, Recursion
<1>5. /\ f \in [0..L -> S] /\ f[0] = {p}
      /\ \A n \in 1..L : f[n] = over(f[n - 1])
  <2>1. f \in [0..L -> S] /\ f[0] = {p} /\ \A n \in 1..L : f[n] = step[<<n, f[n - 1]>>]
    BY <1>4 DEF Recurses
  <2> SUFFICES ASSUME NEW n \in 1..L PROVE f[n] = over(f[n - 1])
    BY <2>1
  <2>2. f[n - 1] \in S
    BY <1>1, <2>1
  <2>3. step[<<n, f[n - 1]>>] = over(f[n - 1])
    BY <1>3, <2>2
  <2> QED
    BY <2>1, <2>3
<1> HIDE DEF over
<1>6. eq(f)
  BY <1>1, <1>5
<1>7. eq(up)
  BY <1>6
<1>8. isAnyParent(x, p, among) <=> \E q \in up[L] : x.parent = q.id
  BY DEF isAnyParent, over, L
<1> HIDE DEF up
<1>9. up[0] = {p} /\ \A n \in 1..L : up[n] = over(up[n - 1])
  <2>1. \A n \in 0..L : up[n] = IF n = 0 THEN {p} ELSE over(up[n - 1])
    BY <1>7, Zenon
  <2>2. 0 \in 0..L /\ \A n \in 1..L : n \in 0..L /\ n # 0
    BY <1>1
  <2> QED
    BY <2>1, <2>2
<1> DEFINE T == {n \in 0..L : up[n] \in S /\ p \in up[n]}
<1>10. 0 \in T
  <2>1. up[0] \in S /\ p \in up[0]
    BY <1>1, <1>9, Zenon
  <2> QED
    BY <1>1, <2>1
<1>11. ASSUME NEW k \in 0..(L - 1), k \in T PROVE k + 1 \in T
  <2>1. k + 1 \in 1..L /\ (k + 1) - 1 = k /\ k + 1 \in 0..L
    BY <1>1
  <2>2. up[k + 1] = over(up[k])
    BY <1>9, <2>1
  <2>3. up[k] \subseteq over(up[k])
    BY DEF over
  <2> QED
    BY <1>2, <1>11, <2>1, <2>2, <2>3
<1> HIDE DEF T
<1>12. 0..L \subseteq T
  BY <1>1, <1>10, <1>11, UpTo
<1>13. up[L] \in S /\ p \in up[L]
  BY <1>1, <1>12 DEF T
<1> QED
  BY <1>8, <1>13 DEF S

(* A permutation has the same elements. *)
LEMMA PermutedElements ==
  ASSUME NEW S, NEW s \in Seq(S), NEW q \in Seq(S), NEW p, Permuted(q, s, p)
  PROVE  Elements(q) = Elements(s)
<1>1. /\ Len(q) = Len(s) /\ p \in [1..Len(s) -> 1..Len(s)] /\ DOMAIN q = 1..Len(s)
      /\ DOMAIN s = 1..Len(s)
      /\ \A k \in 1..Len(s) : q[k] = s[p[k]]
      /\ \A j \in 1..Len(s) : \E k \in 1..Len(s) : p[k] = j
  BY DEF Permuted
<1>2. ASSUME NEW k \in 1..Len(s) PROVE q[k] \in Elements(s)
  BY <1>1 DEF Elements
<1>3. ASSUME NEW j \in 1..Len(s) PROVE s[j] \in Elements(q)
  <2>1. PICK k \in 1..Len(s) : p[k] = j
    BY <1>1
  <2> QED
    BY <1>1, <2>1 DEF Elements
<1> QED
  BY <1>1, <1>2, <1>3 DEF Elements

(* The head of a family is before nobody, and everybody is before the head.  *)
LEMMA HeadIsAfter ==
  ASSUME Len(toDel) \in Nat, NEW h \in Elements(toDel), Family(h), NEW x \in Elements(toDel), x # h
  PROVE  /\ \A A \in SUBSET Elements(toDel) : ~Before(h, x, A)
         /\ Before(x, h, Elements(toDel))
<1>1. /\ x.parent = h.id \/ x.id \in h.links
      /\ x.links = {}
      /\ \A e \in Elements(toDel) : h.parent # e.id
  BY DEF Family
<1>2. ASSUME NEW A \in SUBSET Elements(toDel) PROVE ~Before(h, x, A)
  <2>1. ~isLinked(h, x)
    BY <1>1 DEF isLinked
  <2>2. ~isAnyParent(h, x, A)
    <3>1. \A q \in A \cup {x} : h.parent # q.id
      BY <1>1
    <3> QED
      BY <3>1, AnyParentFacts
  <2> QED
    BY <2>1, <2>2 DEF Before
<1>3. Before(x, h, Elements(toDel))
  <2>1. CASE x.parent = h.id
    BY <2>1, AnyParentFacts DEF Before
  <2>2. CASE x.id \in h.links
    BY <1>1, <2>2 DEF Before, isLinked
  <2> QED
    BY <1>1, <2>1, <2>2
<1> QED
  BY <1>2, <1>3

(* The head, once sorted in, stays last of what is sorted.                   *)
HeadInv ==
  /\ stage = "sort" =>
       \A k \in 1..Len(toDel) : k < at /\ Family(toDel[k]) => k = at - 1
  /\ stage = "delete" =>
       \A k \in 1..Len(toDel) : Family(toDel[k]) => k = Len(toDel)

(* Sorting puts the head of a family last, as later elements go before it. *)
LEMMA HeadStep ==
  ASSUME BulkInv, BulkInv', HeadInv, Next
  PROVE  HeadInv'
<1>1. /\ toDel \in Seq(Info) /\ Len(toDel) \in Nat /\ DOMAIN toDel = 1..Len(toDel)
      /\ stage = "sort" => at \in 1..Len(toDel) + 1
  BY DEF BulkInv, TypeInv
<1>2. ASSUME toDel' = toDel, stage' = stage, at' = at PROVE HeadInv'
  BY <1>2 DEF HeadInv, Family
<1>3. CASE Collect
  BY <1>3 DEF Collect, HeadInv
<1>4. CASE Delete
  BY <1>4 DEF Delete, HeadInv, Family
<1>5. CASE Finish
  BY <1>5 DEF Finish, HeadInv
<1>6. ASSUME NEW i \in Ids, Insert(i) PROVE HeadInv'
  BY <1>2, <1>6 DEF Insert
<1>7. CASE Sort
  <2>1. CASE stage' = "sort" /\ at' = 1 /\ UNCHANGED toDel
    <3>1. \A k \in 1..Len(toDel) : ~(k < 1)
      BY <1>1
    <3> QED
      BY <2>1, <3>1 DEF HeadInv
  <2>2. CASE stage = "sort" /\ at > Len(toDel) /\ stage' = "delete" /\ at' = 1 /\ UNCHANGED toDel
    <3>1. at - 1 = Len(toDel) /\ \A k \in 1..Len(toDel) : k < at
      BY <1>1, <2>2
    <3> QED
      BY <2>2, <3>1 DEF HeadInv, Family
  <2>3. CASE /\ stage = "sort" /\ at <= Len(toDel) /\ at' = at + 1 /\ UNCHANGED stage
             /\ toDel' = Inserted(SubSeq(toDel, 1, at - 1), toDel[at]) \o SubSeq(toDel, at + 1, Len(toDel))
    <3> DEFINE q == SortedTo(toDel, at)
    <3>1. at \in 1..Len(toDel) /\ toDel' = q
      BY <1>1, <2>3 DEF SortedTo
    <3>2. q \in Seq(Info) /\ LastOf(q, toDel, at) /\ \E p : Permuted(q, toDel, p)
      BY <1>1, <3>1, SortStep
    <3> HIDE DEF q
    <3>3. Elements(q) = Elements(toDel) /\ Len(q) = Len(toDel) /\ DOMAIN q = 1..Len(toDel)
      <4>1. PICK p : Permuted(q, toDel, p)
        BY <3>2
      <4>2. Elements(q) = Elements(toDel)
        BY <1>1, <3>2, <4>1, PermutedElements
      <4> QED
        BY <3>2, <4>1, <4>2 DEF Permuted
    <3>4. \A j, k \in 1..Len(toDel) : j # k => q[j].id # q[k].id
      <4>1. \A j, k \in DOMAIN toDel' : j # k => toDel'[j].id # toDel'[k].id
        BY DEF BulkInv, TypeInv, TypeOK
      <4> QED
        BY <3>1, <3>3, <4>1
    <3> SUFFICES ASSUME NEW k \in 1..Len(toDel), k < at + 1, Family(q[k]) PROVE k = at
      <4>1. stage' = "sort" /\ at' = at + 1
        BY <2>3
      <4>2. \A i \in 1..Len(toDel) : Family(toDel[i])' <=> Family(q[i])
        BY <3>1, <3>3 DEF Family
      <4>3. Len(toDel') = Len(toDel)
        BY <3>1, <3>3
      <4>4. \A i \in 1..Len(toDel) : i < at + 1 /\ Family(q[i]) => i = at
        OBVIOUS
      <4>5. at \in Nat /\ (at + 1) - 1 = at
        BY <1>1, <3>1
      <4>6. \A i \in 1..Len(toDel) : i < at' /\ Family(toDel[i])' => i = at' - 1
        BY <4>1, <4>2, <4>4, <4>5
      <4> QED
        BY <4>1, <4>3, <4>6 DEF HeadInv
    <3> DEFINE h == q[k]
    <3>5. h \in Elements(toDel)
      BY <3>3 DEF Elements
    <3>6. PICK j \in 1..Len(toDel) : toDel[j] = h
      BY <1>1, <3>5 DEF Elements
    <3>7. j <= at
      <4>1. CASE j > at
        <5>1. j \in at + 1..Len(toDel)
          BY <1>1, <3>1, <4>1
        <5>2. q[j] = toDel[j]
          BY <3>2, <5>1 DEF LastOf
        <5> QED
          BY <3>1, <3>4, <3>6, <4>1, <5>2
      <4> QED
        BY <3>1, <4>1
    <3>8. q[at] = h
      <4>1. CASE j = at
        <5>1. ASSUME NEW i \in 1..at - 1, NEW A \in SUBSET Elements(toDel)
              PROVE  ~Before(toDel[at], toDel[i], A)
          <6>1. i \in 1..Len(toDel) /\ i # at
            BY <1>1, <3>1
          <6>2. toDel[i] \in Elements(toDel) /\ toDel[i] # toDel[at]
            BY <1>1, <3>1, <6>1 DEF Elements, BulkInv, TypeInv, TypeOK
          <6> QED
            BY <1>1, <3>5, <3>6, <4>1, <6>2, HeadIsAfter
        <5> QED
          BY <3>2, <3>6, <4>1, <5>1 DEF LastOf
      <4>2. CASE j < at
        <5>1. j = at - 1
          BY <2>3, <3>6, <4>2 DEF HeadInv
        <5>2. at > 1
          BY <3>1, <4>2
        <5>a. j # at
          BY <4>2
        <5>3. toDel[at] \in Elements(toDel) /\ toDel[at] # toDel[j]
          BY <1>1, <3>1, <5>a DEF Elements, BulkInv, TypeInv, TypeOK
        <5>4. Before(toDel[at], h, Elements(toDel))
          BY <1>1, <3>5, <3>6, <5>3, HeadIsAfter
        <5> QED
          BY <3>2, <3>6, <5>1, <5>2, <5>4 DEF LastOf
      <4> QED
        BY <3>1, <3>7, <4>1, <4>2
    <3> QED
      BY <3>1, <3>4, <3>8
  <2> QED
    BY <1>7, <2>1, <2>2, <2>3 DEF Sort
<1> QED
  BY <1>2, <1>3, <1>4, <1>5, <1>6, <1>7 DEF Next, delete_item, Done, vars

(* Nobody else has inserted an asset, and no statement has failed.           *)
Quiet == inserts = 0 /\ failures = 0

(* Memberships come from the database there was at first. *)
GroupsInv ==
  \E d \in Databases : \A i \in Stored : db[i].type = d[i].type /\ db[i].groups \subseteq d[i].groups

(* What is stored is as it was when it was collected; what it powers can     *)
(* only have become less.                                                    *)
Seen(e) == e.type = db[e.id].type /\ e.parent = db[e.id].parent /\ Powered(e.id) \subseteq e.links
SeenInv == \A e \in Elements(toDel) : e.id # RC0 /\ (e.id \in Stored => Seen(e))

(* What is stored and not collected has RC-0 below, or is RC-0. *)
CollectedInv ==
  \A k \in 1..Len(ids), i \in Stored :
    ids[k] = i /\ (stage = "collect" => k < at) => Collected(i) \/ RC0 \in Below(i) \cup {i}

(* What is collected and refused has something below or beside it that was   *)
(* not asked for.                                                            *)
RefusedInv ==
  /\ stage \in {"collect", "sort"} =>
       /\ \A e \in Elements(toDel) : RC0 \notin Below(e.id)
       /\ \A r \in Elements(ret) :
            r.id \notin Stored \/ RC0 \in Below(r.id) \cup {r.id} \/ ~MayGo(r.id)
  /\ stage = "delete" =>
       \A k \in 1..Len(toDel), i \in Ids :
         toDel[k].id = i /\ at <= k /\ Refused(i) => ~MayGo(i)

(* What is left of a family after its turn. *)
Excused(h, e) ==
  Kept(e) \/ (e = h /\ \E d \in Elements(toDel) \ {h} :
                          d.id \in Stored /\ (d.parent = h.id \/ d.id \in h.links))
OutcomeInv ==
  stage \in {"delete", "done"} =>
    \A h, e \in Elements(toDel), k \in 1..Len(toDel) :
      Family(h) /\ toDel[k] = e /\ (stage = "delete" => k < at) /\ e.id \in Stored => Excused(h, e)

FamilyParts == GroupsInv /\ SeenInv /\ CollectedInv /\ RefusedInv /\ OutcomeInv
FamilyInv == Quiet => FamilyParts

(* The operators of the model are those of the present table. *)
LEMMA BelowIsIn ==
  ASSUME NEW i
  PROVE  /\ Below(i) = BelowIn(db, i) /\ Powered(i) = PoweredIn(db, i)
         /\ Below(i)' = BelowIn(db', i) /\ Powered(i)' = PoweredIn(db', i)
         /\ Stored = Table!Stored(db) /\ Stored' = Table!Stored(db')
BY DEF Below, BelowIn, Depth, Powered, PoweredIn, Stored

(* What Legal says of a deletion: what is inside, what is powered, what are members. *)
LEMMA LegalDeletion ==
  ASSUME NEW e \in Info
  PROVE  Table!Legal(db, Deletion(e)) <=>
           \A j \in Stored \ {e.id} :
             /\ db[j].parent # e.id /\ e.id \notin db[j].sources
             /\ e.id \in db[j].groups => e.type = "group"
<1>1. Deletion(e).op = "delete" /\ Deletion(e).id = e.id /\ Deletion(e).type = e.type
  BY DEF Deletion
<1>2. Table!Legal(db, Deletion(e)) <=>
        \A j \in Table!Dependants(db, e.id) \ {e.id} :
          e.type = "group" /\ db[j].parent # e.id /\ e.id \notin db[j].sources
  BY <1>1 DEF Table!Legal
<1> QED
  BY <1>2 DEF Table!Dependants, Stored

(* A legal deletion takes its asset away from below the others.              *)
LEMMA DeletionIsWithout ==
  ASSUME db \in [Ids -> Table!Asset], NEW e \in Info, e.id \in Stored,
         db' = Table!Apply(db, Deletion(e)), Table!Legal(db, Deletion(e))
  PROVE  /\ Without(db', db, e.id)
         /\ \A j \in Stored' : db'[j].type = db[j].type /\ db'[j].groups \subseteq db[j].groups
<1>1. db' = [i \in Ids |-> IF i = e.id THEN Table!Vacant
                          ELSE IF e.type = "group" THEN [db[i] EXCEPT !.groups = @ \ {e.id}]
                          ELSE db[i]]
  BY DEF Table!Apply, Deletion
<1>2. Stored' = Stored \ {e.id} /\ Stored \subseteq Ids
  BY ApplyDeletion DEF Stored, Table!Stored
<1>3. ASSUME NEW j \in Stored'
      PROVE  /\ db'[j].type = db[j].type /\ db'[j].groups \subseteq db[j].groups
             /\ db'[j].parent = db[j].parent /\ db'[j].sources = db[j].sources
  <2> DEFINE r == db[j]
  <2>1. j \in Ids /\ j # e.id /\ r \in Table!Asset
    BY <1>2
  <2>2. db'[j] = r \/ db'[j] = [r EXCEPT !.groups = @ \ {e.id}]
    BY <1>1, <2>1
  <2> HIDE DEF r
  <2>3. /\ [r EXCEPT !.groups = @ \ {e.id}].type = r.type
        /\ [r EXCEPT !.groups = @ \ {e.id}].groups = r.groups \ {e.id}
        /\ [r EXCEPT !.groups = @ \ {e.id}].parent = r.parent
        /\ [r EXCEPT !.groups = @ \ {e.id}].sources = r.sources
    BY <2>1 DEF Table!Asset
  <2>4. /\ db'[j].type = r.type /\ db'[j].groups \subseteq r.groups
        /\ db'[j].parent = r.parent /\ db'[j].sources = r.sources
    BY <2>2, <2>3
  <2> QED
    BY <2>4 DEF r
<1>4. \A j \in Stored \ {e.id} : db[j].parent # e.id /\ e.id \notin db[j].sources
  BY LegalDeletion
<1> QED
  BY <1>2, <1>3, <1>4 DEF Without, Stored

(* What keeps an asset goes on keeping it.                                   *)
LEMMA KeptStays ==
  ASSUME BulkInv, NEW e \in Info, e.id \in Elements(ids), e.id # RC0,
         Without(db', db, e.id), ids' = ids,
         \A j \in Stored' : db'[j].type = db[j].type
  PROVE  \A i \in Ids \ {e.id} :
           /\ RC0 \in Below(i) \cup {i} => RC0 \in Below(i)' \cup {i}
           /\ Powered(i)' \subseteq Powered(i)
           /\ MayGo(i)' <=> MayGo(i)
           /\ \A x \in Info : x.id = i /\ i \in Stored' /\ Kept(x) => Kept(x)'
<1> SUFFICES ASSUME NEW i \in Ids \ {e.id}
             PROVE  /\ RC0 \in Below(i) \cup {i} => RC0 \in Below(i)' \cup {i}
                    /\ Powered(i)' \subseteq Powered(i)
                    /\ MayGo(i)' <=> MayGo(i)
                    /\ \A x \in Info : x.id = i /\ i \in Stored' /\ Kept(x) => Kept(x)'
  OBVIOUS
<1>1. e.id \in Ids /\ RC0 \in Ids
  BY BulkDeleteAssumption DEF Info, RC0
<1>2. \A j \in Ids \ {e.id} : Below(j)' = Below(j) \ {e.id} /\ Powered(j)' = Powered(j) \ {e.id}
  BY <1>1, BelowAfter, BelowIsIn
<1>3. Stored' = Stored \ {e.id}
  BY DEF Without, Stored
<1>4. MayGo(i)' <=> MayGo(i)
  BY <1>2 DEF MayGo
<1>5. \A j \in Ids : RC0 \in Below(j) => j # e.id
  <2> SUFFICES ASSUME RC0 \in Below(e.id) PROVE FALSE
    OBVIOUS
  <2>1. PICK f : Descends(db, e.id, f) /\ BelowIn(db, e.id) = f[Depth] \ {e.id}
    BY <1>1, BelowFacts
  <2>2. /\ f[0] = {e.id} /\ Depth \in Nat \ {0}
        /\ \A n \in 1..Depth :
             f[n] = f[n - 1] \cup {k \in Table!Stored(db) : db[k].parent \in f[n - 1]}
    BY <2>1, DepthType DEF Descends
  <2> DEFINE T == {n \in 0..Depth : f[n] = {e.id}}
  <2>3. 0 \in T
    BY <2>2
  <2>4. ASSUME NEW k \in 0..(Depth - 1), k \in T PROVE k + 1 \in T
    <3>1. k + 1 \in 1..Depth /\ (k + 1) - 1 = k /\ k + 1 \in 0..Depth
      BY <2>2
    <3>2. f[k + 1] = f[k] \cup {j \in Table!Stored(db) : db[j].parent \in f[k]}
      BY <2>2, <3>1
    <3>3. f[k] = {e.id}
      BY <2>4
    <3>4. \A j \in Table!Stored(db) : db[j].parent = e.id => j = e.id
      BY DEF Without
    <3>5. f[k + 1] = {e.id}
      BY <3>2, <3>3, <3>4
    <3> QED
      BY <3>1, <3>5
  <2> HIDE DEF T
  <2>5. 0..Depth \subseteq T
    BY <2>2, <2>3, <2>4, UpTo
  <2>6. f[Depth] = {e.id}
    BY <2>2, <2>5 DEF T
  <2> QED
    BY <1>1, <2>1, <2>6, BelowIsIn
<1>6. \A j \in Ids : RC0 \in Below(j) \cup {j} => j # e.id /\ RC0 \in Below(j)' \cup {j}
  BY <1>2, <1>5
<1>7. Below(i) \subseteq Ids /\ Powered(i) \subseteq Ids
  BY BelowStored, BelowIsIn DEF Powered, Stored, Table!Stored
<1>8. ASSUME NEW x \in Info, x.id = i, i \in Stored', Kept(x) PROVE Kept(x)'
  <2>1. CASE i \in Sensors \cup NoGroups \/ ~MayGo(i)
    BY <1>4, <1>8, <2>1 DEF Kept, NoGroups
  <2>2. CASE \E j \in Below(i) \cup Powered(i) : RC0 \in Below(j) \cup {j}
    <3>1. PICK j \in Below(i) \cup Powered(i) : RC0 \in Below(j) \cup {j}
      BY <2>2
    <3>2. j # e.id /\ RC0 \in Below(j)' \cup {j}
      BY <1>6, <1>7, <3>1
    <3>3. j \in Below(i)' \cup Powered(i)'
      BY <1>2, <3>1, <3>2
    <3> QED
      BY <1>8, <3>2, <3>3 DEF Kept
  <2>3. CASE x.type \in Places /\ ~\E j \in Stored \ {i} : db[j].type = "datacenter"
    <3>1. ~\E j \in Stored' \ {i} : db'[j].type = "datacenter"
      BY <1>3, <2>3
    <3> QED
      BY <1>8, <2>3, <3>1 DEF Kept
  <2> QED
    BY <1>8, <2>1, <2>2, <2>3 DEF Kept
<1> QED
  BY <1>2, <1>4, <1>6, <1>8

(* What cannot be deleted at its turn is kept, or is the head and waits for  *)
(* a member of the family that is still there.                               *)
LEMMA UnfreeIsExcused ==
  ASSUME BulkInv, GroupsInv, SeenInv, CollectedInv, stage = "delete",
         NEW h \in Elements(toDel), Family(h), NEW e \in Elements(toDel), e.id \in Stored,
         ~CanDelete(e)
  PROVE  Excused(h, e)
<1>1. /\ toDel \in Seq(Info) /\ e \in Info /\ e.id \in Ids /\ Seen(e) /\ h \in Info
      /\ db \in [Ids -> Table!Asset] /\ ids \in Seq(Ids) /\ Stored \subseteq Ids
  <2>1. toDel \in Seq(Info) /\ db \in [Ids -> Table!Asset] /\ ids \in Seq(Ids)
    BY DEF BulkInv, TypeInv, TypeOK
  <2>2. e \in Info /\ h \in Info
    BY <2>1 DEF Elements
  <2> QED
    BY <2>1, <2>2 DEF Info, SeenInv, Stored, Table!Stored
<1>2. CASE e.id \in Sensors
  BY <1>2 DEF Excused, Kept
<1>3. CASE e.type \in Places /\ ~\E j \in Stored \ {e.id} : db[j].type = "datacenter"
  BY <1>3 DEF Excused, Kept
<1>4. CASE ~Table!Legal(db, Deletion(e))
  <2>1. PICK j \in Stored \ {e.id} :
          \/ db[j].parent = e.id \/ e.id \in db[j].sources
          \/ e.id \in db[j].groups /\ e.type # "group"
    BY <1>1, <1>4, LegalDeletion
  <2>2. CASE e.id \in db[j].groups /\ e.type # "group"
    <3>1. PICK d \in Databases :
            \A i \in Stored : db[i].type = d[i].type /\ db[i].groups \subseteq d[i].groups
      BY DEF GroupsInv
    <3>2. e.id \in d[j].groups /\ d[e.id].type # "group"
      BY <1>1, <2>1, <2>2, <3>1 DEF Seen
    <3> QED
      BY <1>1, <2>1, <3>1, <3>2 DEF Excused, Kept, NoGroups
  <2>3. CASE db[j].parent = e.id \/ e.id \in db[j].sources
    <3>1. j \in Below(e.id) \cup Powered(e.id)
      <4>1. CASE db[j].parent = e.id
        BY <1>1, <2>1, <4>1, ChildrenBelow, BelowIsIn
      <4>2. CASE e.id \in db[j].sources
        BY <2>1, <4>2 DEF Powered
      <4> QED
        BY <2>3, <4>1, <4>2
    <3>2. CASE j \notin Elements(ids)
      BY <3>1, <3>2 DEF Excused, Kept, MayGo
    <3>3. CASE RC0 \in Below(j) \cup {j}
      BY <3>1, <3>3 DEF Excused, Kept
    <3>4. CASE j \in Elements(ids) /\ RC0 \notin Below(j) \cup {j}
      <4>1. PICK k \in 1..Len(ids) : ids[k] = j
        BY <1>1, <3>4 DEF Elements
      <4>2. Collected(j)
        BY <2>1, <3>4, <4>1, stage # "collect" DEF CollectedInv
      <4>3. PICK m \in 1..Len(toDel) : toDel[m].id = j
        BY <4>2 DEF Collected
      <4> DEFINE d == toDel[m]
      <4>4. d \in Elements(toDel) /\ d.id = j
        BY <1>1, <4>3 DEF Elements
      <4> HIDE DEF d
      <4>5. Seen(d) /\ d # e
        BY <2>1, <4>4 DEF SeenInv
      <4>6. CASE db[j].parent = e.id
        <5>1. d.parent = e.id
          BY <4>4, <4>5, <4>6 DEF Seen
        <5>2. e = h /\ d # h
          BY <4>4, <5>1 DEF Family
        <5> QED
          BY <2>1, <4>4, <5>1, <5>2 DEF Excused
      <4>7. CASE e.id \in db[j].sources
        <5>1. j \in e.links
          BY <1>1, <2>1, <4>7 DEF Seen, Powered
        <5>2. e = h
          BY <5>1 DEF Family
        <5> QED
          BY <2>1, <4>4, <4>5, <5>1, <5>2 DEF Excused
      <4> QED
        BY <2>3, <4>6, <4>7
    <3> QED
      BY <3>2, <3>3, <3>4
  <2> QED
    BY <2>1, <2>2, <2>3
<1> QED
  BY <1>2, <1>3, <1>4 DEF CanDelete

(* What depends on an asset is read from the table. *)
LEMMA SameBelow ==
  ASSUME db' = db, ids' = ids
  PROVE  /\ Stored' = Stored
         /\ \A i : Below(i)' = Below(i) /\ Powered(i)' = Powered(i) /\ (MayGo(i)' <=> MayGo(i))
<1>1. \A i : Below(i)' = Below(i) /\ Powered(i)' = Powered(i)
  BY BelowIsIn
<1> QED
  BY <1>1 DEF Stored, MayGo

(* A deletion, or what comes of it instead. *)
LEMMA DeleteFamily ==
  ASSUME BulkInv, HeadInv, GroupsInv, SeenInv, CollectedInv, RefusedInv, OutcomeInv,
         Delete, failures' = failures
  PROVE  GroupsInv' /\ SeenInv' /\ CollectedInv' /\ RefusedInv' /\ OutcomeInv'
<1> DEFINE e == toDel[at]
<1>1. /\ stage = "delete" /\ stage' = "delete" /\ at \in 1..Len(toDel) /\ at' = at + 1
      /\ ids' = ids /\ toDel' = toDel /\ Elements(toDel') = Elements(toDel)
      /\ toDel \in Seq(Info) /\ e \in Info /\ e \in Elements(toDel) /\ e.id \in Ids
      /\ Len(toDel) \in Nat
      /\ db \in [Ids -> Table!Asset] /\ e.id \in Elements(ids) /\ e.id \in Stored
      /\ Stored \subseteq Ids /\ ids \in Seq(Ids)
  <2>1. toDel \in Seq(Info) /\ at \in 1..Len(toDel) + 1 /\ db \in [Ids -> Table!Asset]
        /\ ids \in Seq(Ids)
    BY DEF BulkInv, TypeInv, TypeOK, Delete
  <2>2. at \in 1..Len(toDel)
    BY <2>1 DEF Delete
  <2>3. e \in Info /\ e \in Elements(toDel)
    BY <2>1, <2>2 DEF Elements
  <2>4. e.id \in Ids /\ Stored \subseteq Ids
    BY <2>3 DEF Info, Stored, Table!Stored
  <2>5. e.id \in Elements(ids) /\ e.id \in Stored
    BY <2>2 DEF BulkInv, WorkInv, Delete
  <2> QED
    BY <2>1, <2>2, <2>3, <2>4, <2>5 DEF Delete
<1>2. \A k \in 1..Len(toDel) :
        /\ toDel[k] \in Elements(toDel) /\ toDel[k] \in Info /\ toDel[k].id \in Ids
        /\ toDel[k].id = e.id => k = at
  <2>1. DOMAIN toDel = 1..Len(toDel)
    BY <1>1
  <2>4. \A j, k \in DOMAIN toDel : j # k => toDel[j].id # toDel[k].id
    BY DEF BulkInv, TypeInv, TypeOK
  <2> SUFFICES ASSUME NEW k \in 1..Len(toDel)
               PROVE  /\ toDel[k] \in Elements(toDel) /\ toDel[k] \in Info /\ toDel[k].id \in Ids
                      /\ toDel[k].id = e.id => k = at
    OBVIOUS
  <2>2. toDel[k] \in Elements(toDel) /\ toDel[k] \in Info
    BY <1>1, <2>1 DEF Elements
  <2>3. toDel[k].id = e.id => k = at
    BY <1>1, <2>1, <2>4 DEF e
  <2> QED
    BY <2>2, <2>3 DEF Info
<1>3. \A i : Refused(i)' => Refused(i) \/ i = e.id
  <2>1. \/ ret' = ret \/ ret' = Append(ret, Reply(e.id, 0)) \/ ret' = Append(ret, Reply(e.id, 1))
    BY DEF Delete
  <2>2. ASSUME NEW s \in {0, 1}
        PROVE  Elements(Append(ret, Reply(e.id, s))) = Elements(ret) \cup {Reply(e.id, s)}
    BY <1>1, ReplyElements DEF BulkInv
  <2>3. Elements(ret') \subseteq Elements(ret) \cup {Reply(e.id, 0), Reply(e.id, 1)}
    BY <2>1, <2>2
  <2> QED
    BY <2>3 DEF Refused, Reply
<1>4. \A h : Family(h)' <=> Family(h)
  BY <1>1 DEF Family
<1>5. \A i \in Ids : Collected(i)' <=> Collected(i)
  BY <1>1 DEF Collected
<1>6. \/ /\ CanDelete(e) /\ db' = Table!Apply(db, Deletion(e))
      \/ /\ db' = db
         /\ Refused(e.id) \/ ~CanDelete(e)
  <2>1. ~MayFail
    <3>0. failures \in 0..MaxFailures
      BY DEF BulkInv, TypeInv, TypeOK
    <3>1. failures \in Nat
      BY <3>0, BulkConstants
    <3> QED
      BY <3>1 DEF MayFail
  <2> QED
    BY <2>1 DEF Delete, Wanted
<1> HIDE DEF e
<1>7. CASE db' = db /\ (Refused(e.id) \/ ~CanDelete(e))
  <2>1. /\ Stored' = Stored
        /\ \A i : Below(i)' = Below(i) /\ Powered(i)' = Powered(i) /\ (MayGo(i)' <=> MayGo(i))
    BY <1>1, <1>7, SameBelow
  <2>2. ASSUME NEW x PROVE Kept(x)' <=> Kept(x)
    <3>1. /\ MayGo(x.id)' <=> MayGo(x.id)
          /\ Below(x.id)' = Below(x.id) /\ Powered(x.id)' = Powered(x.id)
          /\ \A j : Below(j)' = Below(j)
      BY <2>1, Zenon
    <3> QED
      BY <1>7, <2>1, <3>1 DEF Kept, NoGroups
  <2>3. GroupsInv'
    BY <1>7, <2>1 DEF GroupsInv
  <2>4. SeenInv'
    <3>1. ASSUME NEW x \in Elements(toDel), x.id \in Stored PROVE Seen(x)'
      <4>1. Seen(x)
        BY <2>1, <3>1 DEF SeenInv
      <4>2. Powered(x.id)' = Powered(x.id)
        BY <2>1, Zenon
      <4> QED
        BY <1>7, <4>1, <4>2 DEF Seen
    <3> QED
      BY <1>1, <2>1, <3>1 DEF SeenInv
  <2>5. CollectedInv'
    <3>1. ASSUME NEW k \in 1..Len(ids), NEW i \in Stored, ids[k] = i
          PROVE  Collected(i)' \/ RC0 \in Below(i)' \cup {i}
      <4>1. Collected(i) \/ RC0 \in Below(i) \cup {i}
        BY <1>1, <3>1 DEF CollectedInv
      <4>2. Below(i)' = Below(i)
        BY <2>1, Zenon
      <4>3. Collected(i)' <=> Collected(i)
        BY <1>1, <1>5
      <4> QED
        BY <4>1, <4>2, <4>3
    <3> QED
      BY <1>1, <2>1, <3>1 DEF CollectedInv
  <2>6. RefusedInv'
    <3>1. ASSUME NEW k \in 1..Len(toDel), NEW i \in Ids, toDel[k].id = i, at + 1 <= k, Refused(i)'
          PROVE  ~MayGo(i)'
      <4>1. at <= k /\ k # at
        BY <1>1, <3>1
      <4>2. i # e.id
        BY <1>2, <3>1, <4>1
      <4>3. Refused(i)
        BY <1>3, <3>1, <4>2
      <4>4. ~MayGo(i)
        BY <1>1, <3>1, <4>1, <4>3 DEF RefusedInv
      <4>5. MayGo(i)' <=> MayGo(i)
        BY <2>1, Zenon
      <4> QED
        BY <4>4, <4>5
    <3> QED
      BY <1>1, <3>1 DEF RefusedInv
  <2>7. OutcomeInv'
    <3>1. ASSUME NEW h \in Elements(toDel), NEW x \in Elements(toDel), NEW k \in 1..Len(toDel),
                 Family(h), toDel[k] = x, k < at + 1, x.id \in Stored
          PROVE  Excused(h, x)
      <4>1. CASE k < at
        BY <1>1, <3>1, <4>1 DEF OutcomeInv
      <4>2. CASE k = at /\ Refused(e.id)
        <5>1. ~MayGo(e.id)
          BY <1>1, <4>2 DEF RefusedInv, e
        <5>2. x = e
          BY <3>1, <4>2 DEF e
        <5> QED
          BY <5>1, <5>2 DEF Excused, Kept
      <4>3. CASE k = at /\ ~CanDelete(e)
        <5>1. x = e
          BY <3>1, <4>3 DEF e
        <5> QED
          BY <1>1, <3>1, <4>3, <5>1, UnfreeIsExcused
      <4> QED
        BY <1>1, <1>7, <3>1, <4>1, <4>2, <4>3
    <3>2. ASSUME NEW h, NEW x PROVE Excused(h, x)' <=> Excused(h, x)
      <4>1. Kept(x)' <=> Kept(x)
        BY <2>2
      <4> QED
        BY <1>1, <2>1, <4>1 DEF Excused
    <3> QED
      BY <1>1, <1>4, <2>1, <3>1, <3>2 DEF OutcomeInv
  <2> QED
    BY <2>3, <2>4, <2>5, <2>6, <2>7
<1>8. CASE CanDelete(e) /\ db' = Table!Apply(db, Deletion(e))
  <2>1. /\ Without(db', db, e.id) /\ e.id # RC0
        /\ \A j \in Stored' : db'[j].type = db[j].type /\ db'[j].groups \subseteq db[j].groups
    BY <1>1, <1>8, DeletionIsWithout DEF CanDelete, SeenInv
  <2>2. Stored' = Stored \ {e.id} /\ \A j \in Stored' : db'[j].parent = db[j].parent
    BY <2>1 DEF Without, Stored
  <2>3. \A i \in Ids \ {e.id} :
           /\ RC0 \in Below(i) \cup {i} => RC0 \in Below(i)' \cup {i}
           /\ Powered(i)' \subseteq Powered(i)
           /\ MayGo(i)' <=> MayGo(i)
           /\ \A x \in Info : x.id = i /\ i \in Stored' /\ Kept(x) => Kept(x)'
    BY <1>1, <2>1, KeptStays
  <2>4. GroupsInv'
    <3>1. PICK d \in Databases :
            \A i \in Stored : db[i].type = d[i].type /\ db[i].groups \subseteq d[i].groups
      BY DEF GroupsInv
    <3>2. \A i \in Stored' : db'[i].type = d[i].type /\ db'[i].groups \subseteq d[i].groups
      BY <2>1, <2>2, <3>1
    <3> QED
      BY <3>2 DEF GroupsInv
  <2>5. SeenInv'
    <3>1. ASSUME NEW x \in Elements(toDel), x.id \in Stored' PROVE Seen(x)'
      <4>1. x.id \in Stored /\ x.id # e.id /\ x.id \in Ids /\ Seen(x)
        BY <1>1, <2>2, <3>1 DEF SeenInv
      <4>2. Powered(x.id)' \subseteq Powered(x.id)
        BY <2>3, <4>1
      <4> QED
        BY <2>1, <2>2, <3>1, <4>1, <4>2 DEF Seen
    <3> QED
      BY <1>1, <3>1 DEF SeenInv
  <2>6. CollectedInv'
    <3>1. ASSUME NEW k \in 1..Len(ids), NEW i \in Stored', ids[k] = i
          PROVE  Collected(i)' \/ RC0 \in Below(i)' \cup {i}
      <4>1. i \in Ids \ {e.id} /\ i \in Stored
        BY <1>1, <2>2, <3>1
      <4>2. Collected(i) \/ RC0 \in Below(i) \cup {i}
        BY <1>1, <3>1, <4>1 DEF CollectedInv
      <4> QED
        BY <1>5, <2>3, <4>1, <4>2
    <3> QED
      BY <1>1, <3>1 DEF CollectedInv
  <2>7. RefusedInv'
    <3>1. ASSUME NEW k \in 1..Len(toDel), NEW i \in Ids, toDel[k].id = i, at + 1 <= k, Refused(i)'
          PROVE  ~MayGo(i)'
      <4>1. at <= k /\ k # at
        BY <1>1, <3>1
      <4>2. i # e.id
        BY <1>2, <3>1, <4>1
      <4>3. Refused(i)
        BY <1>3, <3>1, <4>2
      <4>4. ~MayGo(i)
        BY <1>1, <3>1, <4>1, <4>3 DEF RefusedInv
      <4> QED
        BY <2>3, <4>2, <4>4
    <3> QED
      BY <1>1, <3>1 DEF RefusedInv
  <2>8. OutcomeInv'
    <3>1. ASSUME NEW h \in Elements(toDel), NEW x \in Elements(toDel), NEW k \in 1..Len(toDel),
                 Family(h), toDel[k] = x, k < at + 1, x.id \in Stored'
          PROVE  Kept(x)'
      <4>1. k # at /\ x.id \in Stored /\ x.id \in Ids \ {e.id} /\ x \in Info
        BY <1>1, <1>2, <2>2, <3>1 DEF e
      <4>2. k < at
        BY <1>1, <3>1, <4>1
      <4>3. Excused(h, x)
        BY <1>1, <3>1, <4>1, <4>2 DEF OutcomeInv
      <4>4. x # h
        <5>1. SUFFICES ASSUME x = h PROVE FALSE
          OBVIOUS
        <5>2. k = Len(toDel)
          BY <1>1, <3>1, <5>1 DEF HeadInv
        <5> QED
          BY <1>1, <4>2, <5>2
      <4>5. Kept(x)
        BY <4>3, <4>4 DEF Excused
      <4> QED
        BY <2>3, <3>1, <4>1, <4>5
    <3>2. ASSUME NEW h \in Elements(toDel), NEW x \in Elements(toDel), NEW k \in 1..Len(toDel),
                 Family(h), toDel[k] = x, k < at + 1, x.id \in Stored'
          PROVE  Excused(h, x)'
      BY <3>1, <3>2 DEF Excused
    <3> QED
      BY <1>1, <1>4, <3>2 DEF OutcomeInv
  <2> QED
    BY <2>4, <2>5, <2>6, <2>7, <2>8
<1> QED
  BY <1>6, <1>7, <1>8

(* What is collected is looked at as it is stored. *)
LEMMA CollectFamily ==
  ASSUME BulkInv, BulkInv', FamilyParts, Collect, failures' = failures
  PROVE  FamilyParts'
<1>1. /\ stage = "collect" /\ stage' = "collect" /\ at \in 1..Len(ids) /\ at' = at + 1
      /\ db' = db /\ ids' = ids /\ ids[at] \in Ids /\ ret \in Seq(Replies)
      /\ toDel \in Seq(Info) /\ toDel' \in Seq(Info) /\ failures \in Nat
      /\ at <= Len(ids) /\ Len(ids) \in Nat
  <2>1. ids \in Seq(Ids) /\ at \in 1..Len(ids) + 1 /\ toDel \in Seq(Info) /\ ret \in Seq(Replies)
    BY DEF BulkInv, TypeInv, Collect
  <2>2. toDel' \in Seq(Info)
    BY DEF BulkInv, TypeInv
  <2>3. failures \in 0..MaxFailures
    BY DEF BulkInv, TypeInv, TypeOK
  <2>4. at \in 1..Len(ids) /\ Len(ids) \in Nat
    BY <2>1 DEF Collect
  <2> QED
    BY <2>1, <2>2, <2>3, <2>4, BulkConstants DEF Collect
<1> SUFFICES ASSUME NEW i \in Ids, ids[at] = i PROVE FamilyParts'
  BY <1>1
<1>2. /\ Stored' = Stored
      /\ \A j : Below(j)' = Below(j) /\ Powered(j)' = Powered(j) /\ (MayGo(j)' <=> MayGo(j))
  BY <1>1, SameBelow
<1>3. \/ i \notin Stored /\ ret' = Append(ret, Reply(i, 0)) /\ toDel' = toDel
      \/ RC0 \in Below(i) \cup {i} /\ ret' = Append(ret, Reply(i, 0)) /\ toDel' = toDel
      \/ /\ i \in Stored /\ RC0 \notin Below(i) \cup {i}
         /\ toDel' = checkAndAddInfo(toDel, ElementInfo(i))
         /\ ret' = ret \/ (~MayGo(i) /\ ret' = Append(ret, Reply(i, 0)))
  <2>1. ~MayFail
    BY <1>1 DEF MayFail
  <2> QED
    BY <1>1, <2>1 DEF Collect
<1>4. \/ Elements(toDel') = Elements(toDel)
      \/ /\ Elements(toDel') = Elements(toDel) \cup {ElementInfo(i)}
         /\ i \in Stored /\ RC0 \notin Below(i) \cup {i}
  <2>1. CASE toDel' = toDel
    BY <2>1
  <2>2. CASE toDel' = Append(toDel, ElementInfo(i)) /\ i \in Stored /\ RC0 \notin Below(i) \cup {i}
    <3>1. ElementInfo(i) \in Info
      <4>1. toDel'[Len(toDel) + 1] = ElementInfo(i) /\ Len(toDel) + 1 \in 1..Len(toDel')
        BY <1>1, <2>2
      <4> QED
        BY <1>1, <4>1
    <3> QED
      BY <1>1, <2>2, <3>1, AppendElements
  <2> QED
    BY <1>3, <2>1, <2>2 DEF checkAndAddInfo
<1>5. ElementInfo(i).id = i /\ ElementInfo(i).type = db[i].type /\ ElementInfo(i).parent = db[i].parent
      /\ ElementInfo(i).links = Powered(i)
  BY DEF ElementInfo
<1>6. \A j : (Collected(j) <=> \E e \in Elements(toDel) : e.id = j)
             /\ (Collected(j)' <=> \E e \in Elements(toDel') : e.id = j)
  BY <1>1 DEF Collected, Elements
<1>7. GroupsInv'
  BY <1>1, <1>2 DEF GroupsInv, FamilyParts
<1>8. SeenInv'
  <2>1. ASSUME NEW e \in Elements(toDel') PROVE e.id # RC0 /\ (e.id \in Stored => Seen(e))
    <3>1. CASE e \in Elements(toDel)
      BY <3>1 DEF FamilyParts, SeenInv
    <3>2. CASE e = ElementInfo(i) /\ RC0 \notin Below(i) \cup {i}
      BY <1>5, <3>2 DEF Seen
    <3> QED
      BY <1>4, <2>1, <3>1, <3>2
  <2>2. ASSUME NEW e PROVE Seen(e)' <=> Seen(e)
    <3>1. Powered(e.id)' = Powered(e.id)
      BY <1>2, Zenon
    <3> QED
      BY <1>1, <3>1 DEF Seen
  <2> QED
    BY <1>2, <2>1, <2>2 DEF SeenInv
<1>9. CollectedInv'
  <2>1. ASSUME NEW k \in 1..Len(ids), NEW j \in Stored, ids[k] = j, k < at + 1
        PROVE  Collected(j)' \/ RC0 \in Below(j) \cup {j}
    <3>1. CASE k < at
      <4>1. Collected(j) \/ RC0 \in Below(j) \cup {j}
        BY <2>1, <3>1 DEF FamilyParts, CollectedInv
      <4>2. Collected(j) => Collected(j)'
        BY <1>4, <1>6
      <4> QED
        BY <4>1, <4>2
    <3>2. CASE k = at
      <4>1. j = i
        BY <1>1, <2>1, <3>2
      <4>2. CASE toDel' = checkAndAddInfo(toDel, ElementInfo(i))
        <5>1. \E e \in Elements(toDel') : e.id = i
          <6>1. CASE \E e \in Elements(toDel) : e.id = i
            BY <1>4, <6>1
          <6>2. CASE ~\E e \in Elements(toDel) : e.id = i
            <7>1. toDel' = Append(toDel, ElementInfo(i))
              BY <1>5, <4>2, <6>2 DEF checkAndAddInfo
            <7>2. toDel'[Len(toDel) + 1] = ElementInfo(i) /\ Len(toDel) + 1 \in DOMAIN toDel'
              BY <1>1, <7>1
            <7> QED
              BY <1>5, <7>2 DEF Elements
          <6> QED
            BY <6>1, <6>2
        <5> QED
          BY <1>6, <4>1, <5>1
      <4> QED
        BY <1>3, <2>1, <4>1, <4>2
    <3> QED
      BY <1>1, <2>1, <3>1, <3>2
  <2>2. ASSUME NEW j PROVE Below(j)' = Below(j)
    BY <1>2, Zenon
  <2> QED
    BY <1>1, <1>2, <2>1, <2>2 DEF CollectedInv
<1>10. RefusedInv'
  <2>1. ASSUME NEW e \in Elements(toDel') PROVE RC0 \notin Below(e.id)
    <3>1. CASE e \in Elements(toDel)
      BY <1>1, <3>1 DEF FamilyParts, RefusedInv
    <3>2. CASE e = ElementInfo(i) /\ RC0 \notin Below(i) \cup {i}
      BY <1>5, <3>2
    <3> QED
      BY <1>4, <2>1, <3>1, <3>2
  <2>2. ASSUME NEW r \in Elements(ret')
        PROVE  r.id \notin Stored \/ RC0 \in Below(r.id) \cup {r.id} \/ ~MayGo(r.id)
    <3>1. CASE r \in Elements(ret)
      BY <1>1, <3>1 DEF FamilyParts, RefusedInv
    <3>2. CASE r \notin Elements(ret)
      <4>1. Reply(i, 0).id = i
            /\ Elements(Append(ret, Reply(i, 0))) = Elements(ret) \cup {Reply(i, 0)}
        BY ReplyElements DEF BulkInv
      <4>2. r = Reply(i, 0) /\ (i \notin Stored \/ RC0 \in Below(i) \cup {i} \/ ~MayGo(i))
        BY <1>3, <2>2, <3>2, <4>1
      <4> QED
        BY <4>1, <4>2
    <3> QED
      BY <3>1, <3>2
  <2>3. ASSUME NEW e PROVE Below(e.id)' = Below(e.id) /\ (MayGo(e.id)' <=> MayGo(e.id))
    BY <1>2, Zenon
  <2> QED
    BY <1>1, <1>2, <2>1, <2>2, <2>3 DEF RefusedInv
<1>11. OutcomeInv'
  BY <1>1 DEF OutcomeInv
<1> QED
  BY <1>7, <1>8, <1>9, <1>10, <1>11 DEF FamilyParts

(* Sorting keeps the elements; what is refused when the sort ends has        *)
(* something below or beside it that was not asked for.                      *)
LEMMA SortFamily ==
  ASSUME BulkInv, BulkInv', FamilyParts, Sort
  PROVE  FamilyParts'
<1>1. /\ db' = db /\ ids' = ids /\ ret' = ret /\ stage \in {"collect", "sort"}
      /\ toDel \in Seq(Info) /\ toDel' \in Seq(Info) /\ ids \in Seq(Ids) /\ Len(ids) \in Nat
      /\ \/ stage' = "sort" /\ (stage = "collect" => at > Len(ids) /\ at \in Nat)
         \/ stage = "sort" /\ stage' = "delete" /\ at' = 1
  <2>1. toDel \in Seq(Info) /\ toDel' \in Seq(Info) /\ ids \in Seq(Ids) /\ Len(ids) \in Nat
    BY DEF BulkInv, TypeInv
  <2>2. at \in Nat
    BY DEF BulkInv, TypeInv, TypeOK
  <2>3. db' = db /\ ids' = ids /\ ret' = ret /\ stage \in {"collect", "sort"}
    BY DEF Sort
  <2>4. \/ stage' = "sort" /\ (stage = "collect" => at > Len(ids))
        \/ stage = "sort" /\ stage' = "delete" /\ at' = 1
    BY DEF Sort
  <2> QED
    BY <2>1, <2>2, <2>3, <2>4
<1>2. /\ Stored' = Stored
      /\ \A j : Below(j)' = Below(j) /\ Powered(j)' = Powered(j) /\ (MayGo(j)' <=> MayGo(j))
  BY <1>1, SameBelow
<1>3. Elements(toDel') = Elements(toDel)
  <2>1. CASE toDel' = toDel
    BY <2>1
  <2>2. CASE /\ stage = "sort" /\ at <= Len(toDel)
             /\ toDel' = Inserted(SubSeq(toDel, 1, at - 1), toDel[at]) \o SubSeq(toDel, at + 1, Len(toDel))
    <3>1. at \in 1..Len(toDel) /\ toDel' = SortedTo(toDel, at)
      <4>1. at \in 1..Len(toDel) + 1 /\ Len(toDel) \in Nat
        BY <2>2 DEF BulkInv, TypeInv
      <4> QED
        BY <2>2, <4>1 DEF SortedTo
    <3>2. PICK p : Permuted(toDel', toDel, p)
      BY <1>1, <3>1, SortStep
    <3> QED
      BY <1>1, <3>2, PermutedElements
  <2> QED
    BY <2>1, <2>2 DEF Sort
<1>4. \A j : (Collected(j) <=> \E e \in Elements(toDel) : e.id = j)
             /\ (Collected(j)' <=> \E e \in Elements(toDel') : e.id = j)
  BY <1>1 DEF Collected, Elements
<1>5. GroupsInv'
  BY <1>1, <1>2 DEF GroupsInv, FamilyParts
<1>6. SeenInv'
  <2>1. ASSUME NEW e PROVE Seen(e)' <=> Seen(e)
    <3>1. Powered(e.id)' = Powered(e.id)
      BY <1>2, Zenon
    <3> QED
      BY <1>1, <3>1 DEF Seen
  <2> QED
    BY <1>2, <1>3, <2>1 DEF FamilyParts, SeenInv
<1>7. CollectedInv'
  <2>1. ASSUME NEW k \in 1..Len(ids), NEW j \in Stored, ids[k] = j
        PROVE  Collected(j)' \/ RC0 \in Below(j)' \cup {j}
    <3>1. stage = "collect" => k < at
      BY <1>1
    <3>2. Collected(j) \/ RC0 \in Below(j) \cup {j}
      BY <2>1, <3>1 DEF FamilyParts, CollectedInv
    <3>3. Collected(j) <=> Collected(j)'
      BY <1>3, <1>4
    <3>4. Below(j)' = Below(j)
      BY <1>2, Zenon
    <3> QED
      BY <3>2, <3>3, <3>4
  <2> QED
    BY <1>1, <1>2, <2>1 DEF CollectedInv
<1>8. RefusedInv'
  <2>1. /\ \A e \in Elements(toDel) : RC0 \notin Below(e.id)
        /\ \A r \in Elements(ret) :
             r.id \notin Stored \/ RC0 \in Below(r.id) \cup {r.id} \/ ~MayGo(r.id)
    BY <1>1 DEF FamilyParts, RefusedInv
  <2>2. ASSUME NEW j PROVE Below(j)' = Below(j) /\ (MayGo(j)' <=> MayGo(j))
    BY <1>2, Zenon
  <2>3. CASE stage' = "sort"
    <3>1. ASSUME NEW e PROVE Below(e.id)' = Below(e.id) /\ (MayGo(e.id)' <=> MayGo(e.id))
      BY <1>2, Zenon
    <3> QED
      BY <1>1, <1>2, <1>3, <2>1, <2>3, <3>1 DEF RefusedInv
  <2>4. CASE stage = "sort" /\ stage' = "delete"
    <3>1. ASSUME NEW k \in 1..Len(toDel'), NEW i \in Ids, toDel'[k].id = i, Refused(i)
          PROVE  ~MayGo(i)
      <4> DEFINE e == toDel'[k]
      <4>1. e \in Elements(toDel) /\ e.id = i
        <5>1. e \in Elements(toDel')
          BY <1>1 DEF Elements
        <5> QED
          BY <1>3, <3>1, <5>1
      <4> HIDE DEF e
      <4>2. PICK m \in 1..Len(toDel) : toDel[m] = e
        BY <1>1, <4>1 DEF Elements
      <4>3. i \in Stored
        BY <2>4, <4>1, <4>2 DEF BulkInv, WorkInv
      <4>4. i # RC0 /\ RC0 \notin Below(i)
        BY <2>1, <4>1 DEF FamilyParts, SeenInv
      <4>5. PICK r \in Elements(ret) : r.id = i
        BY <3>1 DEF Refused
      <4> QED
        BY <2>1, <4>3, <4>4, <4>5
    <3>2. \A i : Refused(i)' <=> Refused(i)
      BY <1>1 DEF Refused
    <3> QED
      BY <1>1, <2>2, <2>4, <3>1, <3>2 DEF RefusedInv
  <2> QED
    BY <1>1, <2>3, <2>4
<1>9. OutcomeInv'
  <2>1. stage' = "delete" => \A k \in 1..Len(toDel') : ~(k < at')
    BY <1>1
  <2>2. stage' \in {"sort", "delete"}
    BY <1>1
  <2> QED
    BY <2>1, <2>2 DEF OutcomeInv
<1> QED
  BY <1>5, <1>6, <1>7, <1>8, <1>9 DEF FamilyParts

(* What a step that touches neither the database nor the work keeps.         *)
LEMMA SameWork ==
  ASSUME GroupsInv, SeenInv, db' = db, ids' = ids, toDel' = toDel
  PROVE  /\ GroupsInv' /\ SeenInv' /\ Stored' = Stored
         /\ \A j : Below(j)' = Below(j) /\ (Collected(j)' <=> Collected(j))
         /\ \A h, x : (Excused(h, x)' <=> Excused(h, x)) /\ (Family(h)' <=> Family(h))
<1>1. /\ Stored' = Stored
      /\ \A j : Below(j)' = Below(j) /\ Powered(j)' = Powered(j) /\ (MayGo(j)' <=> MayGo(j))
  BY SameBelow
<1>2. GroupsInv'
  BY <1>1 DEF GroupsInv
<1>3. SeenInv'
  <2>1. ASSUME NEW e PROVE Seen(e)' <=> Seen(e)
    <3>1. Powered(e.id)' = Powered(e.id)
      BY <1>1, Zenon
    <3> QED
      BY <3>1 DEF Seen
  <2> QED
    BY <1>1, <2>1 DEF SeenInv
<1>4. \A j : Collected(j)' <=> Collected(j)
  BY DEF Collected
<1>5. ASSUME NEW x PROVE Kept(x)' <=> Kept(x)
  <2>1. /\ MayGo(x.id)' <=> MayGo(x.id)
        /\ Below(x.id)' = Below(x.id) /\ Powered(x.id)' = Powered(x.id)
        /\ \A j : Below(j)' = Below(j)
    BY <1>1, Zenon
  <2> QED
    BY <1>1, <2>1 DEF Kept, NoGroups
<1>6. ASSUME NEW h, NEW x PROVE (Excused(h, x)' <=> Excused(h, x)) /\ (Family(h)' <=> Family(h))
  <2>1. Kept(x)' <=> Kept(x)
    BY <1>5
  <2> QED
    BY <1>1, <2>1 DEF Excused, Family
<1> QED
  BY <1>1, <1>2, <1>3, <1>4, <1>6

(* At the end everything has had its turn. *)
LEMMA FinishFamily ==
  ASSUME BulkInv, FamilyParts, Finish
  PROVE  FamilyParts'
<1>1. /\ stage = "delete" /\ stage' = "done" /\ db' = db /\ ids' = ids /\ toDel' = toDel /\ ret' = ret
      /\ \A k \in 1..Len(toDel) : k < at
  <2>1. Len(toDel) \in Nat /\ at \in Nat
    <3>1. toDel \in Seq(Info) /\ at \in Nat
      BY DEF BulkInv, TypeInv, TypeOK
    <3> QED
      BY <3>1
  <2> QED
    BY <2>1 DEF Finish
<1>2. /\ GroupsInv' /\ SeenInv' /\ Stored' = Stored
      /\ \A j : Below(j)' = Below(j) /\ (Collected(j)' <=> Collected(j))
      /\ \A h, x : (Excused(h, x)' <=> Excused(h, x)) /\ (Family(h)' <=> Family(h))
  BY <1>1, SameWork DEF FamilyParts
<1>3. CollectedInv'
  BY <1>1, <1>2 DEF FamilyParts, CollectedInv
<1>4. RefusedInv'
  BY <1>1 DEF RefusedInv
<1>5. OutcomeInv'
  BY <1>1, <1>2 DEF FamilyParts, OutcomeInv
<1> QED
  BY <1>2, <1>3, <1>4, <1>5 DEF FamilyParts

(* Nothing changes. *)
LEMMA RestFamily ==
  ASSUME FamilyParts, db' = db, ids' = ids, toDel' = toDel, ret' = ret, stage' = stage, at' = at
  PROVE  FamilyParts'
<1>1. /\ GroupsInv' /\ SeenInv' /\ Stored' = Stored
      /\ \A j : Below(j)' = Below(j) /\ (Collected(j)' <=> Collected(j))
      /\ \A h, x : (Excused(h, x)' <=> Excused(h, x)) /\ (Family(h)' <=> Family(h))
  BY SameWork DEF FamilyParts
<1>2. CollectedInv'
  BY <1>1 DEF FamilyParts, CollectedInv
<1>3. RefusedInv'
  <2>1. ASSUME NEW j PROVE (MayGo(j)' <=> MayGo(j)) /\ (Refused(j)' <=> Refused(j))
    BY SameBelow DEF Refused
  <2>2. ASSUME NEW e PROVE Below(e.id)' = Below(e.id) /\ (MayGo(e.id)' <=> MayGo(e.id))
    BY SameBelow, Zenon
  <2> QED
    BY <1>1, <2>1, <2>2 DEF FamilyParts, RefusedInv
<1>4. OutcomeInv'
  BY <1>1 DEF FamilyParts, OutcomeInv
<1> QED
  BY <1>1, <1>2, <1>3, <1>4 DEF FamilyParts

FamiliesInv == BulkInv /\ HeadInv /\ FamilyInv

(* Every step keeps the invariant, whoever inserts and whatever fails. *)
LEMMA FamiliesStep == FamiliesInv /\ [Next]_vars => FamiliesInv'
<1> SUFFICES ASSUME FamiliesInv, [Next]_vars PROVE FamiliesInv'
  OBVIOUS
<1>1. BulkInv /\ BulkInv'
  BY BulkStep DEF FamiliesInv
<1>2. CASE UNCHANGED vars
  <2>1. db' = db /\ ids' = ids /\ stage' = stage /\ at' = at /\ toDel' = toDel /\ ret' = ret
        /\ inserts' = inserts /\ failures' = failures
    BY <1>2 DEF vars
  <2>2. HeadInv'
    BY <2>1 DEF FamiliesInv, HeadInv, Family
  <2>3. Quiet' => Quiet
    BY <2>1 DEF Quiet
  <2>4. FamilyInv'
    BY <2>1, <2>3, RestFamily DEF FamiliesInv, FamilyInv, FamilyParts
  <2> QED
    BY <1>1, <2>2, <2>4 DEF FamiliesInv
<1>3. CASE Next
  <2>1. HeadInv'
    BY <1>1, <1>3, HeadStep DEF FamiliesInv
  <2>2. FamilyInv'
    <3> SUFFICES ASSUME Quiet' PROVE FamilyParts'
      BY DEF FamilyInv, FamilyParts
    <3>1. inserts \in Nat /\ failures \in Nat
      <4>1. inserts \in 0..MaxInserts /\ failures \in 0..MaxFailures
        BY <1>1 DEF BulkInv, TypeInv, TypeOK
      <4> QED
        BY <4>1, BulkConstants
    <3>2. \A i \in Ids : ~Insert(i)
      <4> SUFFICES ASSUME NEW i \in Ids, Insert(i) PROVE FALSE
        OBVIOUS
      <4>1. inserts' = inserts + 1 /\ inserts' = 0
        BY DEF Insert, Quiet
      <4> QED
        BY <3>1, <4>1
    <3>3. Quiet /\ failures' = failures
      <4>1. ~MayFail
        BY <3>1 DEF MayFail, Quiet
      <4>2. inserts' = inserts /\ failures' = failures
        BY <1>3, <3>2, <4>1 DEF Next, delete_item, Collect, Sort, Delete, Finish, Done, vars
      <4> QED
        BY <4>2 DEF Quiet
    <3>4. FamilyParts /\ HeadInv
      BY <3>3 DEF FamiliesInv, FamilyInv, FamilyParts
    <3>5. CASE Collect
      BY <1>1, <3>3, <3>4, <3>5, CollectFamily
    <3>6. CASE Sort
      BY <1>1, <3>4, <3>6, SortFamily
    <3>7. CASE Delete
      BY <1>1, <3>3, <3>4, <3>7, DeleteFamily DEF FamilyParts
    <3>8. CASE Finish
      BY <1>1, <3>4, <3>8, FinishFamily
    <3>9. CASE Done
      <4>1. db' = db /\ ids' = ids /\ stage' = stage /\ at' = at /\ toDel' = toDel /\ ret' = ret
        BY <3>9 DEF Done, vars
      <4> QED
        BY <3>4, <4>1, RestFamily
    <3> QED
      BY <1>3, <3>2, <3>5, <3>6, <3>7, <3>8, <3>9 DEF Next, delete_item
  <2> QED
    BY <1>1, <2>1, <2>2 DEF FamiliesInv
<1> QED
  BY <1>2, <1>3

(* And it holds at first. *)
LEMMA FamiliesInit == Init => FamiliesInv
<1> SUFFICES ASSUME Init PROVE FamiliesInv
  OBVIOUS
<1>1. BulkInv
  BY BulkInit
<1>2. /\ db \in Databases /\ stage = "collect" /\ at = 1 /\ toDel = <<>> /\ ret = <<>>
      /\ Elements(<<>>) = {}
  BY DEF Init, Elements
<1>3. HeadInv
  BY <1>2 DEF HeadInv
<1>4. GroupsInv /\ SeenInv /\ CollectedInv /\ RefusedInv /\ OutcomeInv
  BY <1>2 DEF GroupsInv, SeenInv, CollectedInv, RefusedInv, OutcomeInv
<1> QED
  BY <1>1, <1>3, <1>4 DEF FamiliesInv, FamilyInv, FamilyParts

(* Without insertions and failures, an asset goes together with what is      *)
(* directly inside it or powered by it, in whatever order they were asked    *)
(* for: what is left is kept, or waits for what is kept.                     *)
THEOREM BulkFamiliesDeleted == Spec => []FamiliesDeleted
<1>1. FamiliesInv => FamiliesDeleted
  <2> SUFFICES ASSUME FamiliesInv, stage = "done", NEW h \in Elements(toDel), Family(h),
                      inserts = 0, failures = 0, NEW e \in Elements(toDel), e.id \in Stored
               PROVE  Kept(e) \/ \E d \in Elements(toDel) \ {e} :
                                   d.id \in Stored /\ Kept(d) /\ (d.parent = e.id \/ d.id \in e.links)
    BY DEF FamiliesDeleted
  <2>1. OutcomeInv /\ toDel \in Seq(Info)
    BY DEF FamiliesInv, FamilyInv, FamilyParts, Quiet, BulkInv, TypeInv
  <2>2. ASSUME NEW x \in Elements(toDel), x.id \in Stored PROVE Excused(h, x)
    <3>1. PICK k \in 1..Len(toDel) : toDel[k] = x
      BY <2>1 DEF Elements
    <3> QED
      BY <2>1, <2>2, <3>1 DEF OutcomeInv
  <2>3. Excused(h, e)
    BY <2>2
  <2> SUFFICES ASSUME e = h, NEW d \in Elements(toDel) \ {h}, d.id \in Stored,
                      d.parent = h.id \/ d.id \in h.links
               PROVE  Kept(d)
    BY <2>3 DEF Excused
  <2> QED
    BY <2>2 DEF Excused
<1> QED
  BY <1>1, FamiliesInit, FamiliesStep, PTL DEF Spec
==============================================================================
