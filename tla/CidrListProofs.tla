----------------------------- MODULE CidrListProofs ----------------------------
(***************************************************************************)
(* Theorems of CidrList for addresses of any number of bits and any lists: *)
(* what next() returns is meant, what is meant is returned but for the two *)
(* kinds of network WalkIsComplete names, and each turn of the loop goes   *)
(* up or ends.                                                             *)
(*                                                                         *)
(* The argument is the invariant WalkInv: while the loop runs, every       *)
(* address up to the one it has reached is Covered, that is returned, not  *)
(* meant, or passed over by skipToExcludeEnd.  Below it stand lemmas about *)
(* the operators, in four groups: powers of two (recursive functions are   *)
(* the subject of NaturalRecursion); the range of a network (NetworkRange: *)
(* it is a block of 2^(W-prefix) addresses that starts at a multiple of    *)
(* its length, so that OneNetwork: two networks of one prefix that share   *)
(* an address are the same); the most specific entry (BestForFacts,        *)
(* PrefixIsBest); and what the two skips pass over (NextPool, ExcludeEnd). *)
(***************************************************************************)
EXTENDS CidrList, NaturalRecursion, FiniteSetTheorems, TLAPS

LEMMA TwoToThe == ASSUME NEW n \in Nat PROVE 2 ^ n \in Nat \ {0}
<1>1. IsFiniteSet(1..n) /\ Cardinality(1..n) = n
  BY FS_Interval
<1>2. IsFiniteSet(SUBSET (1..n)) /\ Cardinality(SUBSET (1..n)) = 2 ^ n
  BY <1>1, FS_SUBSET
<1>3. SUBSET (1..n) # {}
  OBVIOUS
<1> QED
  BY <1>2, <1>3, FS_CardinalityType, FS_EmptySet

(* A subset of 1..m + n is one of its first m numbers and one of the others. *)
LEMMA TwoToTheSum ==
  ASSUME NEW m \in Nat, NEW n \in Nat
  PROVE  2 ^ (m + n) = 2 ^ m * 2 ^ n
<1> DEFINE A == 1..m
           B == (m + 1)..(m + n)
           C == 1..(m + n)
           f == [s \in SUBSET C |-> <<s \cap A, s \cap B>>]
<1>1. /\ IsFiniteSet(A) /\ Cardinality(A) = m
      /\ IsFiniteSet(B) /\ Cardinality(B) = n
      /\ IsFiniteSet(C) /\ Cardinality(C) = m + n
  <2>1. \A i, j \in Int : /\ IsFiniteSet(i..j)
                         /\ Cardinality(i..j) = IF i > j THEN 0 ELSE j - i + 1
    BY FS_Interval
  <2>2. IsFiniteSet(A) /\ Cardinality(A) = m
    BY <2>1
  <2>3. IsFiniteSet(B) /\ Cardinality(B) = n
    <3>1. m + 1 \in Int /\ m + n \in Int
      OBVIOUS
    <3> QED
      BY <2>1, <3>1
  <2>4. IsFiniteSet(C) /\ Cardinality(C) = m + n
    <3>1. m + n \in Int /\ 1 \in Int
      OBVIOUS
    <3>2. /\ IsFiniteSet(1..(m + n))
          /\ Cardinality(1..(m + n)) = IF 1 > m + n THEN 0 ELSE (m + n) - 1 + 1
      BY ONLY <2>1, <3>1, Zenon
    <3> QED
      BY <3>2
  <2> QED
    BY <2>2, <2>3, <2>4
<1>2. /\ IsFiniteSet(SUBSET A) /\ Cardinality(SUBSET A) = 2 ^ m
      /\ IsFiniteSet(SUBSET B) /\ Cardinality(SUBSET B) = 2 ^ n
      /\ IsFiniteSet(SUBSET C) /\ Cardinality(SUBSET C) = 2 ^ (m + n)
  BY <1>1, FS_SUBSET
<1>3. A \cup B = C /\ A \cap B = {}
  OBVIOUS
<1> HIDE DEF A, B, C
<1>4. f \in Bijection(SUBSET C, (SUBSET A) \X (SUBSET B))
  <2>1. f \in [SUBSET C -> (SUBSET A) \X (SUBSET B)]
    OBVIOUS
  <2>2. ASSUME NEW s \in SUBSET C, NEW t \in SUBSET C, f[s] = f[t] PROVE s = t
    <3>1. s \cap A = t \cap A /\ s \cap B = t \cap B
      BY <2>2
    <3> QED
      BY <1>3, <3>1
  <2>3. ASSUME NEW p \in (SUBSET A) \X (SUBSET B) PROVE \E s \in SUBSET C : f[s] = p
    <3>1. p = <<p[1], p[2]>> /\ p[1] \subseteq A /\ p[2] \subseteq B
      BY <2>3
    <3>2. p[1] \cup p[2] \in SUBSET C
      BY <1>3, <3>1
    <3>3. (p[1] \cup p[2]) \cap A = p[1] /\ (p[1] \cup p[2]) \cap B = p[2]
      BY <1>3, <3>1
    <3> QED
      BY <3>1, <3>2, <3>3
  <2> HIDE DEF f
  <2> QED
    BY <2>1, <2>2, <2>3 DEF Bijection, Injection, Surjection, IsInjective
<1>5. Cardinality((SUBSET A) \X (SUBSET B)) = Cardinality(SUBSET C)
  BY <1>2, <1>4, FS_Bijection DEF ExistsBijection
<1>6. Cardinality((SUBSET A) \X (SUBSET B)) = Cardinality(SUBSET A) * Cardinality(SUBSET B)
  BY <1>2, FS_Product
<1> QED
  BY <1>2, <1>5, <1>6
------------------------------------------------------------------------------
(* Extremes of bounded sets *)

LEMMA LeastOf ==
  ASSUME NEW S, S \subseteq Nat, S # {}
  PROVE  Least(S) \in S /\ \A x \in S : Least(S) <= x
BY LeastNat DEF Least

LEMMA GreatestOf ==
  ASSUME NEW S, NEW b \in Int, S \subseteq Int, S # {}, \A x \in S : x <= b
  PROVE  Greatest(S) \in S /\ \A x \in S : x <= Greatest(S)
<1> DEFINE T == {b - x : x \in S}
<1>1. T \subseteq Nat /\ T # {}
  <2>1. \A x \in S : b - x \in Nat
    OBVIOUS
  <2> QED
    BY <2>1
<1> HIDE DEF T
<1>2. PICK t \in T : \A y \in T : t <= y
  BY <1>1, LeastNat
<1>3. PICK g \in S : t = b - g
  BY DEF T
<1>4. ASSUME NEW x \in S PROVE x <= g
  <2>1. b - x \in T
    BY DEF T
  <2>2. b - g <= b - x
    BY <1>2, <1>3, <2>1
  <2> QED
    BY <2>2
<1> QED
  BY <1>4 DEF Greatest

------------------------------------------------------------------------------
(* Networks *)

LEMMA Quotient ==
  ASSUME NEW a \in Nat, NEW s \in Nat \ {0}
  PROVE  /\ a \div s \in Nat
         /\ (a \div s) * s <= a
         /\ a < (a \div s) * s + s
OBVIOUS

(* A multiple of s up to a, a no further than s from it: there is only one.  *)
LEMMA OneMultiple ==
  ASSUME NEW s \in Nat \ {0}, NEW p \in Nat, NEW q \in Nat, p * s < q * s + s
  PROVE  p <= q
<1> SUFFICES ASSUME q + 1 <= p PROVE FALSE
  OBVIOUS
<1>1. (q + 1) * s <= p * s
  OBVIOUS
<1>2. (q + 1) * s = q * s + s
  OBVIOUS
<1>3. p * s \in Nat /\ q * s \in Nat
  OBVIOUS
<1> QED
  BY <1>1, <1>2, <1>3

LEMMA NetworkRange ==
  ASSUME NEW net \in Networks
  PROVE  /\ network(net) \in Nat /\ broadcast(net) \in Nat
         /\ network(net) <= net.address /\ net.address <= broadcast(net)
         /\ broadcast(net) <= 2 ^ W - 1
<1> DEFINE s == Size(net)
           d == 2 ^ net.prefix
           q == net.address \div s
<1>1. net.address \in Addresses /\ net.prefix \in 0..W /\ W \in Nat
  BY CidrListAssumption DEF Networks
<1>2. net.prefix \in Nat /\ W - net.prefix \in Nat /\ (W - net.prefix) + net.prefix = W
  BY <1>1
<1>3. s \in Nat \ {0} /\ d \in Nat \ {0}
  BY <1>2, TwoToThe DEF Size
<1>4. 2 ^ W = s * d
  BY <1>2, TwoToTheSum DEF Size
<1>5. net.address \in Nat /\ net.address < s * d
  <2>1. s * d \in Nat
    BY <1>3
  <2> QED
    BY <1>1, <1>4, <2>1 DEF Addresses
<1>6. network(net) = q * s /\ broadcast(net) = q * s + s - 1
  BY DEF network, broadcast
<1> HIDE DEF s, d
<1>7. q \in Nat /\ q * s <= net.address /\ net.address < q * s + s
  BY <1>3, <1>5, Quotient
<1> HIDE DEF q
<1>8. q * s \in Nat /\ d * s = s * d /\ s * d \in Nat
  BY <1>3, <1>7
<1>9. ~ (d <= q)
  <2> SUFFICES ASSUME d <= q PROVE FALSE
    OBVIOUS
  <2>1. d * s <= q * s
    BY <1>3, <1>7
  <2> QED
    BY <1>5, <1>7, <1>8, <2>1
<1>10. q * s + s <= s * d
  <2>1. (q + 1) * s <= d * s
    BY <1>3, <1>7, <1>9
  <2>2. (q + 1) * s = q * s + s
    BY <1>3, <1>7
  <2> QED
    BY <1>8, <2>1, <2>2
<1>11. network(net) \in Nat /\ network(net) <= net.address
  BY <1>6, <1>7, <1>8
<1>12. /\ broadcast(net) \in Nat /\ net.address <= broadcast(net)
       /\ broadcast(net) <= s * d - 1
  BY <1>3, <1>5, <1>6, <1>7, <1>8, <1>10
<1> QED
  BY <1>4, <1>11, <1>12

(* An address lies in one network of each size at most.                      *)
LEMMA OneNetwork ==
  ASSUME NEW m \in Networks, NEW n \in Networks, NEW a \in Addresses, m.prefix = n.prefix,
         contains(m, a), contains(n, a)
  PROVE  network(m) = network(n) /\ broadcast(m) = broadcast(n)
<1> DEFINE s == Size(m)
           p == m.address \div s
           q == n.address \div s
<1>1. Size(n) = s /\ s \in Nat \ {0} /\ m.address \in Nat /\ n.address \in Nat
  <2>1. W - m.prefix \in Nat
    BY CidrListAssumption DEF Networks
  <2> QED
    BY <2>1, TwoToThe DEF Size, Networks, Addresses
<1>2. /\ network(m) = p * s /\ broadcast(m) = p * s + s - 1
      /\ network(n) = q * s /\ broadcast(n) = q * s + s - 1
  BY <1>1 DEF network, broadcast
<1> HIDE DEF s
<1>3. p \in Nat /\ q \in Nat
  BY <1>1, Quotient
<1> HIDE DEF p, q
<1>4. p * s <= a /\ a <= p * s + s - 1 /\ q * s <= a /\ a <= q * s + s - 1
  BY <1>2 DEF contains
<1>5. p * s \in Nat /\ q * s \in Nat /\ a \in Nat
  BY <1>1, <1>3 DEF Addresses
<1>6. p * s < q * s + s /\ q * s < p * s + s
  BY <1>1, <1>4, <1>5
<1>7. p <= q /\ q <= p
  BY <1>1, <1>3, <1>6, OneMultiple
<1> QED
  BY <1>2, <1>3, <1>7

(* The network found for an address is one of those with the longest prefix. *)
LEMMA BestForFacts ==
  ASSUME NEW list \in Seq(Networks), NEW a,
         \E net \in Elements(list) : contains(net, a)
  PROVE  LET b == BestFor(list, a) IN
         /\ b \in Elements(list) /\ b \in Networks /\ contains(b, a)
         /\ \A net \in Elements(list) : contains(net, a) => net.prefix <= b.prefix
<1> DEFINE fits == {k \in DOMAIN list : contains(list[k], a)}
           Best(k) == \A j \in fits :
             list[j].prefix < list[k].prefix \/ (list[j].prefix = list[k].prefix /\ k <= j)
<1>1. fits # {} /\ fits \subseteq Nat /\ \A k \in fits : list[k] \in Networks
  BY DEF Elements
<1>2. \A k \in fits : list[k].prefix \in 0..W
  BY <1>1 DEF Networks
<1>3. \E k \in fits : Best(k)
  <2> DEFINE P == {list[k].prefix : k \in fits}
  <2>1. W \in Int /\ P \subseteq Int /\ P # {} /\ \A x \in P : x <= W
    BY <1>1, <1>2, CidrListAssumption
  <2> HIDE DEF P
  <2>2. Greatest(P) \in P /\ \A x \in P : x <= Greatest(P)
    BY <2>1, GreatestOf
  <2> DEFINE F == {k \in fits : list[k].prefix = Greatest(P)}
  <2>3. F \subseteq Nat /\ F # {}
    BY <1>1, <2>2 DEF P
  <2>4. Least(F) \in F /\ \A k \in F : Least(F) <= k
    <3> HIDE DEF F
    <3> QED
      BY <2>3, LeastOf
  <2>5. ASSUME NEW j \in fits
        PROVE  \/ list[j].prefix < list[Least(F)].prefix
               \/ list[j].prefix = list[Least(F)].prefix /\ Least(F) <= j
    <3>1. list[j].prefix \in P /\ list[j].prefix <= Greatest(P) /\ list[Least(F)].prefix = Greatest(P)
      BY <2>2, <2>4 DEF P
    <3>2. list[j].prefix \in Int /\ Greatest(P) \in Int
      BY <2>1, <2>2, <3>1
    <3>3. CASE list[j].prefix = Greatest(P)
      BY <2>4, <3>1, <3>3
    <3>4. CASE list[j].prefix # Greatest(P)
      BY <3>1, <3>2, <3>4
    <3> QED
      BY <3>3, <3>4
  <2> QED
    BY <2>4, <2>5
<1>4. PICK k \in fits : BestFor(list, a) = list[k] /\ Best(k)
  <2> DEFINE c == CHOOSE k \in fits : Best(k)
  <2>1. c \in fits /\ Best(c)
    BY <1>3
  <2>2. BestFor(list, a) = list[c]
    BY DEF BestFor
  <2> HIDE DEF c
  <2> QED
    BY <2>1, <2>2
<1>5. \A j \in fits : list[j].prefix <= list[k].prefix
  BY <1>2, <1>4
<1>6. list[k] \in Elements(list) /\ list[k] \in Networks /\ contains(list[k], a)
  BY <1>1, <1>4 DEF Elements
<1>7. ASSUME NEW net \in Elements(list), contains(net, a) PROVE net.prefix <= list[k].prefix
  BY <1>5, <1>7 DEF Elements
<1> QED
  BY <1>4, <1>6, <1>7

LEMMA PrefixForFacts ==
  ASSUME NEW list \in Seq(Networks), NEW a
  PROVE  /\ PrefixFor(list, a) \in -1..W
         /\ \A net \in Elements(list) : contains(net, a) => net.prefix <= PrefixFor(list, a)
         /\ PrefixFor(list, a) # -1 =>
              /\ BestFor(list, a) \in Elements(list) /\ BestFor(list, a) \in Networks
              /\ contains(BestFor(list, a), a) /\ PrefixFor(list, a) = BestFor(list, a).prefix
         /\ PrefixFor(list, a) = -1 => \A net \in Elements(list) : ~contains(net, a)
<1>1. W \in Nat
  BY CidrListAssumption
<1>2. CASE \E net \in Elements(list) : contains(net, a)
  <2>1. PrefixFor(list, a) = BestFor(list, a).prefix
    BY <1>2 DEF PrefixFor
  <2>2. /\ BestFor(list, a) \in Elements(list) /\ BestFor(list, a) \in Networks
        /\ contains(BestFor(list, a), a)
        /\ \A net \in Elements(list) : contains(net, a) => net.prefix <= BestFor(list, a).prefix
    BY <1>2, BestForFacts
  <2>3. BestFor(list, a).prefix \in 0..W
    BY <2>2 DEF Networks
  <2> QED
    BY <1>1, <2>1, <2>2, <2>3
<1>3. CASE ~ \E net \in Elements(list) : contains(net, a)
  BY <1>1, <1>3 DEF PrefixFor
<1> QED
  BY <1>2, <1>3

(* ... which is the longest of the prefixes of the definition of Meant.      *)
LEMMA PrefixIsBest ==
  ASSUME NEW list \in Seq(Networks), NEW a
  PROVE  Greatest({-1} \cup {net.prefix : net \in {n \in Elements(list) : contains(n, a)}})
           = PrefixFor(list, a)
<1> DEFINE P == {-1} \cup {net.prefix : net \in {n \in Elements(list) : contains(n, a)}}
           p == PrefixFor(list, a)
<1>1. W \in Nat
  BY CidrListAssumption
<1>2. \A net \in Elements(list) : net \in Networks
  BY DEF Elements
<1>3. P \subseteq Int /\ P # {}
  BY <1>2 DEF Networks
<1>4. p \in P /\ p \in Int /\ \A x \in P : x <= p
  BY <1>1, PrefixForFacts
<1> HIDE DEF P, p
<1>5. Greatest(P) \in P /\ \A x \in P : x <= Greatest(P)
  BY <1>3, <1>4, GreatestOf
<1> DEFINE g == Greatest(P)
<1>6. g \in Int /\ g <= p /\ p <= g
  <2> HIDE DEF g
  <2> SUFFICES ASSUME g \in P, \A x \in P : x <= g PROVE g \in Int /\ g <= p /\ p <= g
    BY <1>5 DEF g
  <2> QED
    BY <1>3, <1>4
<1>7. g = p
  BY <1>4, <1>6
<1> QED
  BY <1>7 DEF P, p
------------------------------------------------------------------------------
(* What the lists hold, once added: networks by their own address.           *)

ListsInv ==
  /\ networks \in Seq({net \in Networks : valid(net.address) /\ net.address = network(net)})
  /\ excludedNetworks \in Seq(Networks)

(* Every network kept was given, and is valid.                               *)
LEMMA AllAddedFacts ==
  ASSUME NEW G, NEW nets \in Seq(G), \A net \in G : net \in Networks
  PROVE  AllAdded(nets) \in Seq({net \in G : valid(net.address)})
<1> DEFINE V == {net \in G : valid(net.address)}
           S == Seq(V)
           step == [x \in (1..Len(nets)) \X S |-> Added(x[2], nets[x[1]])]
           n == Len(nets)
<1>1. n \in Nat /\ \A i \in 1..n : nets[i] \in G
  OBVIOUS
<1>2. step \in [(1..n) \X S -> S]
  <2> SUFFICES ASSUME NEW i \in 1..n, NEW list \in S PROVE Added(list, nets[i]) \in S
    OBVIOUS
  <2>1. CASE ~valid(nets[i].address) \/ nets[i] \in Elements(list)
    BY <2>1 DEF Added
  <2>2. CASE ~ (~valid(nets[i].address) \/ nets[i] \in Elements(list))
    <3>1. nets[i] \in V
      BY <1>1, <2>2
    <3>2. Added(list, nets[i]) = Append(list, nets[i])
      BY <2>2 DEF Added
    <3> QED
      BY <3>1, <3>2
  <2> QED
    BY <2>1, <2>2
<1>3. <<>> \in S
  OBVIOUS
<1> DEFINE Defines(f) ==
      f = [k \in 0..n |-> IF k = 0 THEN <<>> ELSE Added(f[k - 1], nets[k])]
<1>4. \E f : Defines(f)
  <2>1. \A i \in 1..n, list \in S : step[<<i, list>>] = Added(list, nets[i])
    OBVIOUS
  <2> HIDE DEF step, n, S
  <2>2. PICK f \in [0..n -> S] : f[0] = <<>> /\ \A i \in 1..n : f[i] = step[<<i, f[i - 1]>>]
    <3>1. n \in Nat
      BY <1>1
    <3>2. step \in Steps(n, S)
      BY <1>2 DEF Steps
    <3>3. \E f : Recurses(f, n, S, <<>>, step)
      BY <1>3, <3>1, <3>2, Recursion
    <3> QED
      BY <3>3 DEF Recurses
  <2>3. ASSUME NEW i \in 0..n PROVE f[i] = IF i = 0 THEN <<>> ELSE Added(f[i - 1], nets[i])
    <3>1. CASE i = 0
      BY <2>2, <3>1
    <3>2. CASE i # 0
      <4>1. i \in 1..n /\ i - 1 \in 0..n
        BY <1>1, <3>2
      <4>2. f[i - 1] \in S
        BY <2>2, <4>1
      <4> QED
        BY <2>1, <2>2, <3>2, <4>1, <4>2
    <3> QED
      BY <3>1, <3>2
  <2>4. Defines(f)
    BY <2>2, <2>3
  <2> HIDE DEF Defines
  <2> QED
    BY <2>4
<1> DEFINE done == CHOOSE f : Defines(f)
<1>5. Defines(done)
  BY <1>4
<1>6. AllAdded(nets) = done[n]
  BY DEF AllAdded
<1> HIDE DEF done
<1>7. 0..n \subseteq {k \in 0..n : done[k] \in S}
  <2> DEFINE K == {k \in 0..n : done[k] \in S}
  <2>1. 0 \in K
    BY <1>1, <1>3, <1>5
  <2>2. ASSUME NEW k \in 0..(n - 1), k \in K PROVE k + 1 \in K
    <3>1. done[k] \in S /\ k + 1 \in 1..n /\ (k + 1) - 1 = k
      BY <1>1, <2>2
    <3>2. done[k + 1] = Added(done[k], nets[k + 1])
      BY <1>5, <3>1
    <3>3. step[<<k + 1, done[k]>>] \in S
      BY <1>2, <3>1
    <3> QED
      BY <3>1, <3>2, <3>3
  <2> HIDE DEF K
  <2> QED
    BY <1>1, <2>1, <2>2, UpTo DEF K
<1> QED
  BY <1>1, <1>6, <1>7
------------------------------------------------------------------------------
(* One turn of the loop.  Passed says which addresses a skip may leave out.  *)

Passed(a) ==
  \E j \in DOMAIN networks, x \in Elements(excludedNetworks) :
    /\ networks[j].address = a /\ contains(x, a)
    /\ a = broadcast(x) \/ \E k \in 1..(j - 1) : networks[k].address = a + 1

LEMMA ListFacts ==
  ASSUME ListsInv
  PROVE  /\ networks \in Seq(Networks) /\ excludedNetworks \in Seq(Networks)
         /\ \A net \in Elements(networks) :
              /\ net \in Networks /\ net.address \in Addresses /\ net.address > 0
              /\ net.address = network(net)
         /\ networks # <<>> => Elements(networks) # {}
         /\ \A k \in DOMAIN networks : k \in Nat /\ networks[k] \in Elements(networks)
<1> DEFINE G == {net \in Networks : valid(net.address) /\ net.address = network(net)}
<1>1. networks \in Seq(G)
  BY DEF ListsInv
<1>2. \A k \in DOMAIN networks : k \in Nat /\ networks[k] \in G
  BY <1>1
<1>3. networks \in Seq(Networks)
  BY <1>1
<1>4. networks # <<>> => 1 \in DOMAIN networks
  BY <1>1
<1>5. \A net \in G : /\ net.address \in Addresses /\ net.address > 0
                    /\ net \in Networks /\ net.address = network(net)
  BY DEF Networks, Addresses, valid, Invalid
<1> HIDE DEF G
<1> QED
  BY <1>2, <1>3, <1>4, <1>5 DEF ListsInv, Elements

(* Meant, in terms of what the loop computes.                                *)
LEMMA MeantFacts ==
  ASSUME ListsInv, NEW a \in Addresses
  PROVE  Meant(a) <=> /\ PrefixFor(networks, a) # -1
                      /\ PrefixFor(excludedNetworks, a) <= PrefixFor(networks, a)
                      /\ ~NetOrBroadcast(a)
<1> DEFINE i == PrefixFor(networks, a)
           e == PrefixFor(excludedNetworks, a)
           b == BestFor(networks, a)
<1>1. i \in -1..W /\ e \in -1..W /\ W \in Nat
  BY ListFacts, PrefixForFacts, CidrListAssumption
<1>2. Meant(a) <=> /\ i >= 0 /\ i >= e
                   /\ i < W - 1 => \A net \in Elements(networks) :
                        net.prefix = i /\ contains(net, a) => a \notin {network(net), broadcast(net)}
  BY ListFacts, PrefixIsBest DEF Meant
<1>3. i # -1 => b \in Elements(networks) /\ contains(b, a) /\ i = b.prefix
  BY ListFacts, PrefixForFacts
<1>4. i # -1 => b.address = network(b) /\ b \in Networks
  BY <1>3, ListFacts
<1>5. ASSUME i # -1, NEW net \in Elements(networks), net.prefix = i, contains(net, a)
      PROVE  network(net) = b.address /\ broadcast(net) = broadcast(b)
  BY <1>3, <1>4, <1>5, ListFacts, OneNetwork
<1>6. NetOrBroadcast(a) <=> b.prefix < W - 1 /\ a \in {b.address, broadcast(b)}
  BY DEF NetOrBroadcast
<1> HIDE DEF i, e, b
<1>7. i # -1 => (NetOrBroadcast(a) <=>
                 ~ (i < W - 1 => \A net \in Elements(networks) :
                      net.prefix = i /\ contains(net, a) => a \notin {network(net), broadcast(net)}))
  BY <1>3, <1>4, <1>5, <1>6
<1>8. i >= 0 <=> i # -1
  BY <1>1
<1>9. i >= e <=> e <= i
  BY <1>1
<1> QED
  BY <1>2, <1>7, <1>8, <1>9 DEF i, e

LEMMA ContainsFacts ==
  ASSUME NEW net \in Networks, NEW a \in Addresses, NEW c \in Addresses
  PROVE  /\ contains(net, a) <=> a > 0 /\ network(net) <= a /\ a <= broadcast(net)
         /\ contains(net, c) /\ a <= c /\ network(net) <= a /\ a > 0 => contains(net, a)
<1>1. network(net) \in Nat /\ broadcast(net) \in Nat
  BY NetworkRange
<1>2. a \in Nat /\ c \in Nat
  BY DEF Addresses
<1>3. contains(net, a) <=> a > 0 /\ network(net) <= a /\ a <= broadcast(net)
  BY <1>2 DEF contains, valid, Invalid
<1>4. contains(net, c) => c <= broadcast(net)
  BY DEF contains
<1> QED
  BY <1>1, <1>2, <1>3, <1>4

LEMMA TopAddress == 2 ^ W \in Nat \ {0} /\ \A a \in Int : a \in Addresses <=> 0 <= a /\ a <= 2 ^ W - 1
<1>1. 2 ^ W \in Nat \ {0}
  BY TwoToThe, CidrListAssumption
<1> QED
  BY <1>1 DEF Addresses

(* The last host of a network that is not one or two addresses is the one    *)
(* before the broadcast.                                                     *)
LEMMA HostMaxFacts ==
  ASSUME NEW net \in Networks
  PROVE  /\ hostMax(net) \in Nat /\ network(net) <= hostMax(net)
         /\ hostMax(net) <= broadcast(net) /\ broadcast(net) <= hostMax(net) + 1
         /\ hostMax(net) # broadcast(net) => net.prefix < W - 1
<1>1. network(net) \in Nat /\ broadcast(net) \in Nat /\ network(net) <= broadcast(net)
  <2>1. net.address \in Nat
    BY TopAddress DEF Networks, Addresses
  <2> QED
    BY <2>1, NetworkRange
<1>2. CASE ~ (net.prefix < W - 1)
  BY <1>1, <1>2 DEF hostMax
<1>3. CASE net.prefix < W - 1
  <2>1. hostMax(net) = broadcast(net) - 1
    BY <1>3 DEF hostMax
  <2>2. broadcast(net) = network(net) + Size(net) - 1
    BY DEF broadcast
  <2>3. Size(net) \in Nat /\ Size(net) >= 2
    <3>1. net.prefix \in 0..W /\ W \in Nat
      BY CidrListAssumption DEF Networks
    <3>2. W - net.prefix - 1 \in Nat /\ (W - net.prefix - 1) + 1 = W - net.prefix
      BY <1>3, <3>1
    <3>3. 2 ^ (W - net.prefix) = 2 ^ (W - net.prefix - 1) * 2 ^ 1
      BY <3>2, TwoToTheSum
    <3>4. 2 ^ 1 = 2 /\ 2 ^ (W - net.prefix - 1) \in Nat \ {0}
      BY <3>2, TwoToThe
    <3> QED
      BY <3>3, <3>4 DEF Size
  <2> QED
    BY <1>1, <1>3, <2>1, <2>2, <2>3
<1> QED
  BY <1>2, <1>3

(* No meant address is below the first or above the last of the networks.    *)
LEMMA EndFacts ==
  ASSUME ListsInv, networks # <<>>
  PROVE  /\ firstAddress \in Addresses /\ firstAddress > 0
         /\ lastAddress \in Nat /\ firstAddress <= lastAddress
         /\ \A a \in Addresses : a < firstAddress => PrefixFor(networks, a) = -1
         /\ \A a \in Addresses : a > lastAddress => ~Meant(a)
         /\ \A a \in Addresses : a > 0 /\ a <= lastAddress /\ PrefixFor(networks, a) = -1 =>
              \E net \in Elements(networks) : a < net.address
<1> DEFINE E == Elements(networks)
           F == {net.address : net \in E}
           L == {hostMax(net) : net \in E}
<1>1. E # {} /\ \A net \in E : /\ net \in Networks /\ net.address \in Addresses /\ net.address > 0
                              /\ net.address = network(net)
  BY ListFacts
<1>2. \A net \in E : /\ network(net) \in Nat /\ broadcast(net) \in Nat
                    /\ network(net) <= broadcast(net) /\ broadcast(net) <= 2 ^ W - 1
  BY <1>1, NetworkRange
<1>3. firstAddress = Least(F) /\ lastAddress = Greatest(L)
  BY DEF firstAddress, lastAddress
<1>4. F \subseteq Nat /\ F # {} /\ F \subseteq Addresses /\ \A x \in F : x > 0
  BY <1>1 DEF Addresses
<1>5. \A net \in E : /\ hostMax(net) \in Nat /\ network(net) <= hostMax(net)
                    /\ hostMax(net) <= broadcast(net)
  BY <1>1, HostMaxFacts
<1>6. L \subseteq Int /\ L # {} /\ (\A x \in L : x <= 2 ^ W - 1) /\ 2 ^ W - 1 \in Int
  <2>1. 2 ^ W - 1 \in Int
    BY TopAddress
  <2>2. \A net \in E : hostMax(net) \in Int /\ hostMax(net) <= 2 ^ W - 1
    BY <1>2, <1>5, <2>1
  <2> QED
    BY <1>1, <2>1, <2>2
<1>0. \A a \in Addresses : a \in Nat
  BY TopAddress DEF Addresses
<1> HIDE DEF F, L, E
<1>7. Least(F) \in F /\ \A x \in F : Least(F) <= x
  BY <1>4, LeastOf
<1>8. Greatest(L) \in L /\ \A x \in L : x <= Greatest(L)
  BY <1>6, GreatestOf
<1>9. firstAddress \in Addresses /\ firstAddress > 0
  BY <1>3, <1>4, <1>7
<1>10. PICK top \in E : lastAddress = hostMax(top)
  BY <1>3, <1>8 DEF L
<1>11. \A net \in E : firstAddress <= net.address /\ hostMax(net) <= lastAddress
  BY <1>3, <1>7, <1>8 DEF F, L
<1>12. ASSUME NEW a \in Addresses, a < firstAddress PROVE PrefixFor(networks, a) = -1
  <2> SUFFICES ASSUME PrefixFor(networks, a) # -1 PROVE FALSE
    OBVIOUS
  <2>1. PICK net \in E : contains(net, a)
    BY ListFacts, PrefixForFacts DEF E
  <2>2. net.address <= a
    BY <1>1, <2>1 DEF contains
  <2> QED
    BY <1>0, <1>1, <1>9, <1>11, <1>12, <2>2
<1>13. ASSUME NEW a \in Addresses, a > lastAddress, Meant(a) PROVE FALSE
  <2> DEFINE b == BestFor(networks, a)
  <2>1. PrefixFor(networks, a) # -1 /\ ~NetOrBroadcast(a)
    BY <1>13, MeantFacts
  <2>2. b \in E /\ contains(b, a)
    BY <2>1, ListFacts, PrefixForFacts DEF E
  <2>3. NetOrBroadcast(a) <=> b.prefix < W - 1 /\ a \in {b.address, broadcast(b)}
    BY DEF NetOrBroadcast
  <2> HIDE DEF b
  <2>4. b \in Networks /\ a \in Nat
    BY <1>0, <1>1, <2>2
  <2>5. /\ hostMax(b) \in Nat /\ broadcast(b) \in Nat /\ broadcast(b) <= hostMax(b) + 1
        /\ hostMax(b) # broadcast(b) => b.prefix < W - 1
    BY <2>4, HostMaxFacts, NetworkRange
  <2>6. a <= broadcast(b)
    BY <2>2 DEF contains
  <2>7. lastAddress \in Nat /\ hostMax(b) <= lastAddress
    BY <1>5, <1>10, <1>11, <2>2
  <2>8. a = broadcast(b) /\ hostMax(b) # broadcast(b)
    BY <1>13, <2>4, <2>5, <2>6, <2>7
  <2> QED
    BY <2>1, <2>3, <2>5, <2>8
<1>14. ASSUME NEW a \in Addresses, a > 0, a <= lastAddress, PrefixFor(networks, a) = -1
       PROVE  \E net \in E : a < net.address
  <2>1. ~contains(top, a)
    BY <1>14, ListFacts, PrefixForFacts DEF E
  <2>2. /\ a \in Nat /\ top \in Networks /\ network(top) \in Nat /\ broadcast(top) \in Nat
        /\ hostMax(top) \in Nat /\ hostMax(top) <= broadcast(top)
        /\ top.address = network(top)
    BY <1>0, <1>1, <1>2, <1>5
  <2>3. a <= broadcast(top)
    BY <1>10, <1>14, <2>2
  <2>4. a < network(top)
    BY <1>14, <2>1, <2>2, <2>3, ContainsFacts
  <2> QED
    BY <2>2, <2>4
<1>15. firstAddress <= lastAddress
  <2>1. /\ firstAddress <= top.address /\ top.address = network(top) /\ network(top) <= hostMax(top)
        /\ network(top) \in Nat /\ hostMax(top) \in Nat
    BY <1>1, <1>2, <1>5, <1>11
  <2>2. firstAddress \in Nat
    BY <1>0, <1>9
  <2> QED
    BY <1>10, <2>1, <2>2
<1> QED
  BY <1>5, <1>9, <1>10, <1>12, <1>13, <1>14, <1>15 DEF E

(* The addresses a skip to the next network leaves out are in no network.    *)
LEMMA NextPool ==
  ASSUME ListsInv, NEW a \in Addresses, a > 0, PrefixFor(networks, a) = -1,
         \E net \in Elements(networks) : a < net.address
  PROVE  LET b == skipToNextPool(a) IN
         b \in Addresses /\ a <= b /\ \A c \in Addresses : a <= c /\ c <= b => ~Meant(c)
<1> DEFINE ahead == {net.address : net \in Elements(networks)} \cap (a + 1)..(2 ^ W - 1)
           x == Least(ahead)
<1>1. a \in Nat /\ 2 ^ W - 1 \in Int
  BY TopAddress DEF Addresses
<1>2. ahead \subseteq Nat
  BY <1>1
<1>3. ahead # {}
  <2>1. PICK net \in Elements(networks) : a < net.address
    OBVIOUS
  <2>2. net.address \in Nat /\ net.address <= 2 ^ W - 1
    BY <2>1, ListFacts, TopAddress DEF Addresses
  <2> QED
    BY <1>1, <2>1, <2>2
<1>4. x \in ahead /\ \A y \in ahead : x <= y
  <2> HIDE DEF ahead
  <2> QED
    BY <1>2, <1>3, LeastOf
<1>5. x \in Nat /\ a + 1 <= x /\ x <= 2 ^ W - 1
  <2> HIDE DEF x
  <2> QED
    BY <1>1, <1>4
<1>6. skipToNextPool(a) = Decrement(x)
  BY <1>3 DEF skipToNextPool
<1> HIDE DEF x
<1>7. Decrement(x) = x - 1
  BY <1>1, <1>5 DEF Decrement, valid, Invalid
<1>8. ASSUME NEW c \in Addresses, a <= c, c <= x - 1, Meant(c) PROVE FALSE
  <2>1. PrefixFor(networks, c) # -1
    BY <1>8, MeantFacts
  <2>2. PICK net \in Elements(networks) : contains(net, c)
    BY <2>1, ListFacts, PrefixForFacts
  <2>3. /\ net \in Networks /\ net.address \in Nat /\ net.address <= 2 ^ W - 1
        /\ net.address = network(net)
    BY ListFacts, TopAddress DEF Addresses
  <2>4. c \in Nat /\ net.address <= c
    BY <2>2, <2>3, TopAddress DEF contains, Addresses
  <2>5. ~(a < net.address)
    <3> SUFFICES ASSUME a < net.address PROVE FALSE
      OBVIOUS
    <3>1. net.address \in ahead
      BY <1>1, <2>3
    <3>2. x <= net.address
      BY <1>4, <3>1
    <3> QED
      BY <1>5, <1>8, <2>3, <2>4, <3>2
  <2>6. network(net) <= a
    BY <1>1, <2>3, <2>5
  <2>7. contains(net, a)
    BY <1>8, <2>2, <2>3, <2>6, ContainsFacts
  <2> QED
    BY <2>7, ListFacts, PrefixForFacts
<1>9. x - 1 \in Addresses /\ a <= x - 1
  BY <1>1, <1>5, TopAddress
<1> QED
  BY <1>6, <1>7, <1>8, <1>9

(* The search for the end of an exclusion, as it walks the list.             *)
LEMMA SelectedFacts ==
  ASSUME ListsInv, NEW a \in Addresses, NEW end \in Addresses
  PROVE  LET inside == NetworksInside(a, end)
             Defines(f) == f = [n \in 0..Len(networks) |->
               IF n = 0 THEN end
               ELSE LET s == f[n - 1]
                    IN IF n \in inside /\ (networks[n].address < s \/ ~valid(s))
                       THEN Decrement(networks[n].address) ELSE s]
         IN \E f : Defines(f)
<1> DEFINE inside == NetworksInside(a, end)
           n == Len(networks)
           Next1(i, s) == IF i \in inside /\ (networks[i].address < s \/ ~valid(s))
                         THEN Decrement(networks[i].address) ELSE s
           step == [x \in (1..n) \X Addresses |-> Next1(x[1], x[2])]
<1>1. n \in Nat
  BY ListFacts
<1>2. \A i \in 1..n : networks[i].address \in Addresses /\ networks[i].address > 0
  BY ListFacts DEF Elements
<1>3. \A i \in 1..n, s \in Addresses : Next1(i, s) \in Addresses
  <2>1. ASSUME NEW i \in 1..n PROVE Decrement(networks[i].address) \in Addresses
    BY <1>2, TopAddress DEF Addresses, Decrement, valid, Invalid
  <2> QED
    BY <2>1
<1> HIDE DEF Next1, n
<1>4. step \in Steps(n, Addresses) /\ \A i \in 1..n, s \in Addresses : step[<<i, s>>] = Next1(i, s)
  BY <1>3 DEF Steps
<1> HIDE DEF step
<1>5. PICK f : Recurses(f, n, Addresses, end, step)
  BY <1>1, <1>4, Recursion
<1>6. ASSUME NEW i \in 0..n PROVE f[i] = IF i = 0 THEN end ELSE Next1(i, f[i - 1])
  <2>1. CASE i = 0
    BY <1>5, <2>1 DEF Recurses
  <2>2. CASE i # 0
    <3>1. i \in 1..n /\ i - 1 \in 0..n
      BY <1>1, <2>2
    <3>2. f[i - 1] \in Addresses
      BY <1>5, <3>1 DEF Recurses
    <3> QED
      BY <1>4, <1>5, <2>2, <3>1, <3>2 DEF Recurses
  <2> QED
    BY <2>1, <2>2
<1>7. f = [i \in 0..n |-> IF i = 0 THEN end ELSE Next1(i, f[i - 1])]
  BY <1>5, <1>6 DEF Recurses
<1> QED
  BY <1>7 DEF Next1, n

(* The addresses a skip over an exclusion leaves out are excluded, or Passed. *)
LEMMA ExcludeEnd ==
  ASSUME ListsInv, NEW a \in Addresses, a > 0, PrefixFor(networks, a) # -1,
         PrefixFor(excludedNetworks, a) > PrefixFor(networks, a)
  PROVE  LET b == skipToExcludeEnd(a) IN
         b \in Addresses /\ a <= b
         /\ \A c \in Addresses : a <= c /\ c <= b /\ Meant(c) => Passed(c)
<1> DEFINE x == BestFor(excludedNetworks, a)
           end == broadcast(x)
           inside == NetworksInside(a, end)
           n == Len(networks)
           Defines(f) == f = [k \in 0..n |->
             IF k = 0 THEN end
             ELSE LET s == f[k - 1]
                  IN IF k \in inside /\ (networks[k].address < s \/ ~valid(s))
                     THEN Decrement(networks[k].address) ELSE s]
           selected == CHOOSE f : Defines(f)
           b == selected[n]
<1>1. /\ x \in Networks /\ x \in Elements(excludedNetworks) /\ contains(x, a)
      /\ PrefixFor(excludedNetworks, a) = x.prefix
      /\ PrefixFor(networks, a) \in -1..W /\ W \in Nat /\ x.prefix \in 0..W
  <2>1. PrefixFor(networks, a) \in -1..W /\ PrefixFor(excludedNetworks, a) \in -1..W /\ W \in Nat
    BY ListFacts, PrefixForFacts, CidrListAssumption
  <2>2. PrefixFor(excludedNetworks, a) # -1
    BY <2>1
  <2>3. /\ x \in Networks /\ x \in Elements(excludedNetworks) /\ contains(x, a)
        /\ PrefixFor(excludedNetworks, a) = x.prefix
    BY <2>2, ListFacts, PrefixForFacts
  <2> QED
    BY <2>1, <2>3 DEF Networks
<1>2. end \in Addresses /\ end \in Nat /\ a \in Nat /\ a <= end /\ network(x) <= a /\ network(x) \in Nat
  <2>1. end \in Nat /\ end <= 2 ^ W - 1 /\ network(x) \in Nat
    BY <1>1, NetworkRange
  <2>2. a \in Nat /\ a <= end /\ network(x) <= a
    BY <1>1, TopAddress DEF contains, Addresses
  <2> QED
    BY <2>1, <2>2, TopAddress
<1>3. skipToExcludeEnd(a) = b
  BY DEF skipToExcludeEnd
<1>4. Defines(selected)
  <2>1. \E f : Defines(f)
    BY <1>2, SelectedFacts
  <2> QED
    BY <2>1
<1>5. n \in Nat /\ \A k \in 1..n : /\ networks[k] \in Elements(networks)
                                  /\ networks[k].address \in Nat /\ networks[k].address > 0
  <2>1. n \in Nat /\ DOMAIN networks = 1..n
    BY ListFacts
  <2> QED
    BY <2>1, ListFacts, TopAddress DEF Addresses
<1>6. inside = {k \in 1..n : a < networks[k].address /\ networks[k].address < end}
  BY ListFacts DEF NetworksInside
<1> HIDE DEF selected, x, end, inside, n
<1>7. selected[0] = end
  BY <1>4, <1>5
<1>8. \A k \in 1..n :
        selected[k] = IF k \in inside /\ (networks[k].address < selected[k - 1] \/ ~valid(selected[k - 1]))
                      THEN Decrement(networks[k].address) ELSE selected[k - 1]
  BY <1>4, <1>5
(* Where the search stands after k networks. *)
<1> DEFINE Stands(k) ==
      /\ selected[k] \in Nat /\ a <= selected[k] /\ selected[k] <= end
      /\ selected[k] = end \/ \E j \in 1..k : networks[j].address = selected[k] + 1
<1>9. ASSUME NEW k \in 0..(n - 1), Stands(k)
      PROVE  /\ Stands(k + 1) /\ selected[k + 1] <= selected[k]
             /\ k + 1 \in inside /\ networks[k + 1].address < selected[k] =>
                  selected[k + 1] = networks[k + 1].address - 1
  <2> DEFINE m == networks[k + 1].address
             s == selected[k]
  <2>1. k + 1 \in 1..n /\ (k + 1) - 1 = k /\ k \in Nat /\ m \in Nat /\ m > 0
    BY <1>5
  <2>2. s \in Nat /\ a <= s /\ s <= end
    BY <1>9
  <2>3. valid(s) /\ Decrement(m) = m - 1
    BY <1>2, <2>1, <2>2 DEF valid, Invalid, Decrement
  <2>4. selected[k + 1] = IF k + 1 \in inside /\ m < s THEN m - 1 ELSE s
    BY <1>8, <2>1, <2>3
  <2>5. CASE k + 1 \in inside /\ m < s
    <3>1. a < m /\ selected[k + 1] = m - 1
      BY <1>6, <2>4, <2>5
    <3>2. m - 1 \in Nat /\ a <= m - 1 /\ m - 1 <= s /\ m - 1 <= end /\ m = (m - 1) + 1
      BY <1>2, <2>1, <2>2, <2>5, <3>1
    <3>3. k + 1 \in 1..(k + 1)
      BY <2>1
    <3> QED
      BY <3>1, <3>2, <3>3
  <2>6. CASE ~ (k + 1 \in inside /\ m < s)
    <3>1. selected[k + 1] = s
      BY <2>4, <2>6
    <3>2. 1..k \subseteq 1..(k + 1)
      BY <2>1
    <3> QED
      BY <1>2, <1>9, <2>2, <2>6, <3>1, <3>2
  <2> QED
    BY <2>5, <2>6
<1>10. \A k \in 0..n : Stands(k)
  <2> DEFINE K == {k \in 0..n : Stands(k)}
  <2>1. 0 \in K
    BY <1>2, <1>5, <1>7
  <2>2. \A k \in 0..(n - 1) : k \in K => k + 1 \in K
    <3> SUFFICES ASSUME NEW k \in 0..(n - 1), k \in K PROVE k + 1 \in K
      OBVIOUS
    <3>1. Stands(k + 1) /\ k + 1 \in 0..n
      BY <1>5, <1>9
    <3> QED
      BY <3>1
  <2>3. 0..n \subseteq K
    <3> HIDE DEF K
    <3> QED
      BY <1>5, <2>1, <2>2, UpTo
  <2> QED
    BY <2>3
(* It only goes down. *)
<1>11. ASSUME NEW j \in 0..n PROVE b <= selected[j]
  <2> DEFINE K == {k \in 0..n : \A i \in 0..k : selected[k] <= selected[i]}
  <2> HIDE DEF Stands
  <2>0. \A k \in 0..n : selected[k] \in Nat
    BY <1>10 DEF Stands
  <2>1. 0 \in K
    BY <1>5, <2>0
  <2>2. ASSUME NEW k \in 0..(n - 1), k \in K PROVE k + 1 \in K
    <3>1. k \in 0..n /\ k + 1 \in 0..n /\ selected[k + 1] <= selected[k]
      BY <1>5, <1>9, <1>10
    <3>2. ASSUME NEW i \in 0..(k + 1) PROVE selected[k + 1] <= selected[i]
      <4>1. CASE i = k + 1
        BY <2>0, <3>1, <4>1
      <4>2. CASE i # k + 1
        <5>1. i \in 0..k /\ i \in 0..n
          BY <1>5, <4>2
        <5>2. selected[k] <= selected[i]
          BY <2>2, <5>1
        <5> QED
          BY <2>0, <3>1, <5>1, <5>2
      <4> QED
        BY <4>1, <4>2
    <3> QED
      BY <3>1, <3>2
  <2>3. 0..n \subseteq K
    <3> HIDE DEF K
    <3> QED
      BY <1>5, <2>1, <2>2, UpTo
  <2> QED
    BY <1>5, <2>3
<1>12. b \in Nat /\ a <= b /\ b <= end
  BY <1>5, <1>10
<1>13. ASSUME NEW c \in Addresses, a <= c, c <= b, Meant(c)
       PROVE  Passed(c)
  <2> DEFINE m == BestFor(networks, c)
  <2> HIDE DEF Stands
  <2>1. c \in Nat /\ c > 0
    BY <1>2, <1>13, TopAddress DEF Addresses
  <2>2. /\ PrefixFor(networks, c) # -1
        /\ PrefixFor(excludedNetworks, c) <= PrefixFor(networks, c)
    BY <1>13, MeantFacts
  <2>3. m \in Elements(networks) /\ m \in Networks /\ contains(m, c) /\ PrefixFor(networks, c) = m.prefix
    BY <2>2, ListFacts, PrefixForFacts
  <2>4. m.address = network(m) /\ m.address \in Nat
    BY <2>3, ListFacts, TopAddress DEF Addresses
  <2> HIDE DEF m
  <2>5. contains(x, c)
    <3>1. c <= end /\ network(x) <= c
      <4> HIDE DEF b
      <4> QED
        BY <1>2, <1>12, <1>13, <2>1
    <3> QED
      BY <2>1, <3>1 DEF end, contains, valid, Invalid
  <2>6. x.prefix <= PrefixFor(excludedNetworks, c) /\ PrefixFor(excludedNetworks, c) \in -1..W
    BY <1>1, <2>5, ListFacts, PrefixForFacts
  <2>7. m.prefix > PrefixFor(networks, a)
    BY <1>1, <2>2, <2>3, <2>6 DEF Networks
  <2>8. ~contains(m, a)
    <3>1. contains(m, a) => m.prefix <= PrefixFor(networks, a)
      BY <2>3, ListFacts, PrefixForFacts
    <3> QED
      BY <1>1, <2>3, <2>7, <3>1 DEF Networks
  <2>9. a < m.address
    <3>1. network(m) <= a => contains(m, a)
      BY <1>13, <2>3, ContainsFacts
    <3> QED
      BY <1>2, <2>4, <2>8, <3>1
  <2>10. m.address <= c
    BY <2>3, <2>4 DEF contains
  <2>11. PICK j \in 1..n : networks[j] = m
    BY <2>3, ListFacts DEF Elements, n
  <2>12. j \in DOMAIN networks /\ j - 1 \in 0..(n - 1) /\ (j - 1) + 1 = j /\ j - 1 \in 0..n /\ j \in 0..n
    BY <1>5, <2>11, ListFacts DEF n
  <2>13. b <= selected[j] /\ b <= selected[j - 1] /\ selected[j - 1] \in Nat /\ Stands(j - 1)
    BY <1>10, <1>11, <2>12 DEF Stands
  <2>14. CASE m.address = end
    <3>1. c = m.address /\ c = broadcast(x)
      BY <1>2, <1>12, <1>13, <2>1, <2>4, <2>10, <2>14 DEF end
    <3> QED
      BY <1>1, <2>5, <2>11, <2>12, <3>1 DEF Passed
  <2>15. CASE m.address # end
    <3>1. m.address < end
      BY <1>2, <1>12, <1>13, <2>1, <2>4, <2>10, <2>15
    <3>2. j \in inside
      BY <1>6, <2>9, <2>11, <3>1
    <3>3. ~ (m.address < selected[j - 1])
      <4> SUFFICES ASSUME m.address < selected[j - 1] PROVE FALSE
        OBVIOUS
      <4>1. selected[j] = m.address - 1
        BY <1>9, <2>11, <2>12, <2>13, <3>2
      <4> QED
        BY <1>12, <1>13, <2>1, <2>4, <2>10, <2>13, <4>1
    <3>4. c = m.address /\ selected[j - 1] = c
      BY <1>12, <1>13, <2>1, <2>4, <2>10, <2>13, <3>3
    <3>5. PICK k \in 1..(j - 1) : networks[k].address = c + 1
      BY <2>13, <2>15, <3>4 DEF Stands
    <3> QED
      BY <1>1, <2>5, <2>11, <2>12, <3>4, <3>5 DEF Passed
  <2> QED
    BY <2>14, <2>15
<1>14. b \in Addresses
  BY <1>2, <1>12, TopAddress
<1> QED
  BY <1>3, <1>12, <1>13, <1>14
------------------------------------------------------------------------------
(* The walk *)

(* Addresses up to the one the walk has reached: each was returned, is not    *)
(* meant, or was passed over.                                                 *)
Covered(a) == a \in Elements(given) \/ ~valid(a) \/ ~Meant(a) \/ Passed(a)

Walked ==
  /\ given \in Seq(Addresses)
  /\ \A k \in DOMAIN given : Meant(given[k])
  /\ \A j, k \in DOMAIN given : j < k => given[j] < given[k]

WalkInv ==
  /\ ListsInv /\ Walked
  /\ stage = "next" =>
       /\ address \in Addresses
       /\ \A k \in DOMAIN given : given[k] <= address
       /\ \A a \in Addresses : a <= address => Covered(a)
       /\ valid(address) => networks # <<>> /\ last = lastAddress
  /\ stage # "next" => \A a \in Addresses : Covered(a)

LEMMA IncrementFacts ==
  ASSUME NEW a \in Addresses, a > 0
  PROVE  /\ a = 2 ^ W - 1 => Increment(a) = 0
         /\ a # 2 ^ W - 1 => Increment(a) = a + 1 /\ a + 1 \in Addresses
<1> DEFINE m == 2 ^ W
<1>1. m \in Nat \ {0} /\ a \in Nat /\ a <= m - 1
  BY TopAddress DEF Addresses
<1>2. Increment(a) = (a + 1) % m
  BY DEF Increment, valid, Invalid
<1>3. a # m - 1 => a + 1 \in Addresses
  BY <1>1, TopAddress
<1> HIDE DEF m
<1>4. a = m - 1 => (a + 1) % m = 0
  BY <1>1
<1>5. a # m - 1 => (a + 1) % m = a + 1
  BY <1>1
<1> QED
  BY <1>2, <1>3, <1>4, <1>5 DEF m

LEMMA NotMeant ==
  ASSUME ListsInv, NEW a \in Addresses, networks = <<>>
  PROVE  ~Meant(a)
<1>1. Elements(networks) = {}
  BY DEF Elements
<1>2. PrefixFor(networks, a) = -1
  BY <1>1 DEF PrefixFor
<1> QED
  BY <1>2, MeantFacts

(* Where the next turn of the loop looks: at no address once nothing is left, *)
(* else at the first one that is not known to be covered.                     *)
LEMMA NextSimpleFacts ==
  ASSUME WalkInv, stage = "next"
  PROVE  /\ ~valid(NextSimple) => \A a \in Addresses : Covered(a)
         /\ valid(NextSimple) =>
              /\ NextSimple \in Addresses /\ NextSimple > 0 /\ address < NextSimple
              /\ networks # <<>> /\ NextSimple <= lastAddress
              /\ \A a \in Addresses : a < NextSimple => Covered(a)
<1> DEFINE n == NextSimple
<1>1. address \in Addresses /\ address \in Nat /\ ListsInv
  BY TopAddress DEF WalkInv, Addresses
<1>2. CASE valid(address)
  <2> DEFINE i == Increment(address)
  <2>1. networks # <<>> /\ last = lastAddress /\ address > 0
    BY <1>1, <1>2 DEF WalkInv, valid, Invalid
  <2>2. n = IF i > lastAddress THEN Invalid ELSE i
    BY <1>2, <2>1 DEF NextSimple
  <2>3. lastAddress \in Nat /\ \A a \in Addresses : a > lastAddress => ~Meant(a)
    BY <1>1, <2>1, EndFacts
  <2>4. CASE address = 2 ^ W - 1
    <3>1. i = 0
      BY <1>1, <2>1, <2>4, IncrementFacts
    <3>2. ~valid(n)
      BY <2>2, <3>1 DEF valid, Invalid
    <3>3. \A a \in Addresses : a <= address
      BY <2>4, TopAddress DEF Addresses
    <3> QED
      BY <3>2, <3>3 DEF WalkInv
  <2>5. CASE address # 2 ^ W - 1
    <3>1. i = address + 1 /\ i \in Addresses
      BY <1>1, <2>1, <2>5, IncrementFacts
    <3> HIDE DEF i
    <3>2. CASE i > lastAddress
      <4>1. ~valid(n)
        BY <2>2, <3>2 DEF valid
      <4>2. ASSUME NEW a \in Addresses PROVE Covered(a)
        <5>1. a \in Nat
          BY TopAddress DEF Addresses
        <5>2. a <= address \/ a > lastAddress
          BY <1>1, <2>3, <3>1, <3>2, <5>1
        <5> QED
          BY <2>3, <5>2 DEF WalkInv, Covered
      <4> QED
        BY <4>1, <4>2
    <3>3. CASE ~ (i > lastAddress)
      <4>1. n = i /\ i <= lastAddress
        BY <1>1, <2>2, <2>3, <3>1, <3>3
      <4>2. \A a \in Addresses : a < i => a <= address
        BY <1>1, <3>1, TopAddress DEF Addresses
      <4>3. i > 0 /\ address < i
        BY <1>1, <3>1
      <4>4. \A a \in Addresses : a < i => Covered(a)
        BY <4>2 DEF WalkInv
      <4> HIDE DEF n
      <4>5. /\ n \in Addresses /\ n > 0 /\ address < n
            /\ networks # <<>> /\ n <= lastAddress /\ \A a \in Addresses : a < n => Covered(a)
        BY <2>1, <3>1, <4>1, <4>3, <4>4
      <4>6. valid(n)
        BY <4>5 DEF valid, Invalid
      <4> QED
        BY <4>5, <4>6 DEF n
    <3> QED
      BY <3>2, <3>3
  <2> QED
    BY <2>4, <2>5
<1>3. CASE ~valid(address)
  <2>1. n = firstAddress /\ address = 0
    BY <1>3 DEF NextSimple, valid, Invalid
  <2>2. CASE networks = <<>>
    BY <1>1, <2>1, <2>2, NotMeant DEF Covered, firstAddress, valid
  <2>3. CASE networks # <<>>
    <3>1. /\ firstAddress \in Addresses /\ firstAddress > 0 /\ firstAddress <= lastAddress
          /\ \A a \in Addresses : a < firstAddress => PrefixFor(networks, a) = -1
      BY <1>1, <2>3, EndFacts
    <3>2. \A a \in Addresses : a < firstAddress => Covered(a)
      BY <1>1, <3>1, MeantFacts DEF Covered
    <3> HIDE DEF n
    <3>3. /\ n \in Addresses /\ n > 0 /\ address < n
          /\ networks # <<>> /\ n <= lastAddress /\ \A a \in Addresses : a < n => Covered(a)
      BY <2>1, <2>3, <3>1, <3>2
    <3>4. valid(n)
      BY <3>3 DEF valid, Invalid
    <3> QED
      BY <3>3, <3>4 DEF n
  <2> QED
    BY <2>2, <2>3
<1> QED
  BY <1>2, <1>3

(* A skip from a, the address looked at, to b. *)
LEMMA SkipStep ==
  ASSUME WalkInv, stage = "next", NEW a \in Addresses, a > 0, address < a, networks # <<>>,
         \A c \in Addresses : c < a => Covered(c),
         NEW b \in Addresses, a <= b,
         \A c \in Addresses : a <= c /\ c <= b /\ Meant(c) => Passed(c),
         address' = b, last' = lastAddress,
         UNCHANGED <<networks, excludedNetworks, given, stage>>
  PROVE  WalkInv' /\ address < address'
<1>1. a \in Nat /\ b \in Nat /\ address \in Nat /\ address < b
  BY TopAddress DEF WalkInv, Addresses
<1>2. \A c \in Addresses : (Meant(c)' <=> Meant(c)) /\ (Passed(c)' <=> Passed(c))
  BY DEF Meant, Passed
<1>3. \A c \in Addresses : c <= b => Covered(c)
  <2> SUFFICES ASSUME NEW c \in Addresses, c <= b, ~Covered(c) PROVE FALSE
    OBVIOUS
  <2>1. c \in Nat /\ ~(c < a)
    BY TopAddress DEF Addresses
  <2>2. a <= c
    BY <1>1, <2>1
  <2> QED
    BY <2>2 DEF Covered
<1>4. \A c \in Addresses : Covered(c)' <=> Covered(c)
  BY <1>2 DEF Covered
<1>5. given \in Seq(Addresses) /\ \A k \in DOMAIN given : given[k] <= address
  BY DEF WalkInv, Walked
<1>6. \A k \in DOMAIN given : given[k] \in Nat /\ given[k] <= b
  BY <1>1, <1>5, TopAddress DEF Addresses
<1>7. lastAddress' = lastAddress
  BY DEF lastAddress
<1>8. Walked'
  <2>1. Walked /\ given' = given
    BY DEF WalkInv
  <2>2. \A k \in DOMAIN given : given[k] \in Addresses
    BY <1>5
  <2> QED
    BY <1>2, <2>1, <2>2 DEF Walked
<1>9. ListsInv'
  BY DEF WalkInv, ListsInv
<1> QED
  BY <1>1, <1>3, <1>4, <1>6, <1>7, <1>8, <1>9 DEF WalkInv

LEMMA IterateStep ==
  ASSUME WalkInv, Iterate
  PROVE  WalkInv' /\ (stage' = "done" \/ address < address')
<1> DEFINE a == NextSimple
           i == PrefixFor(networks, a)
           e == PrefixFor(excludedNetworks, a)
<1>1. stage = "next" /\ ListsInv
  BY DEF Iterate, WalkInv
<1>2. /\ ~valid(a) => \A c \in Addresses : Covered(c)
      /\ valid(a) =>
           /\ a \in Addresses /\ a > 0 /\ address < a
           /\ networks # <<>> /\ a <= lastAddress
           /\ \A c \in Addresses : c < a => Covered(c)
  BY <1>1, NextSimpleFacts
<1>3. UNCHANGED <<networks, excludedNetworks>> /\ last' = IF valid(address) THEN last ELSE lastAddress
  BY DEF Iterate
<1>4. \A c : (Meant(c)' <=> Meant(c)) /\ (Passed(c)' <=> Passed(c))
  BY <1>3 DEF Meant, Passed
<1>5. last' = lastAddress \/ ~valid(a)
  <2>1. valid(address) => last = lastAddress
    BY <1>1 DEF WalkInv
  <2> QED
    BY <1>3, <2>1
<1>6. i \in -1..W /\ e \in -1..W
  BY <1>1, ListFacts, PrefixForFacts
<1>7. CASE ~valid(a) /\ stage' = "done" /\ address' = a /\ UNCHANGED given
  <2>1. \A c : Covered(c)' <=> Covered(c)
    BY <1>4, <1>7 DEF Covered
  <2>2. Walked'
    BY <1>4, <1>7 DEF WalkInv, Walked
  <2>3. ListsInv'
    BY <1>1, <1>3 DEF ListsInv
  <2> QED
    BY <1>2, <1>7, <2>1, <2>2, <2>3 DEF WalkInv
<1>8. CASE valid(a) /\ i = -1 /\ address' = skipToNextPool(a) /\ UNCHANGED <<given, stage>>
  <2>1. \E net \in Elements(networks) : a < net.address
    BY <1>1, <1>2, <1>8, EndFacts
  <2> HIDE DEF a
  <2>2. /\ skipToNextPool(a) \in Addresses /\ a <= skipToNextPool(a)
        /\ \A c \in Addresses : a <= c /\ c <= skipToNextPool(a) => ~Meant(c)
    BY <1>1, <1>2, <1>8, <2>1, NextPool
  <2> QED
    BY <1>1, <1>2, <1>3, <1>5, <1>8, <2>2, SkipStep
<1>9. CASE valid(a) /\ i # -1 /\ e > i /\ address' = skipToExcludeEnd(a) /\ UNCHANGED <<given, stage>>
  <2> HIDE DEF a
  <2>1. /\ skipToExcludeEnd(a) \in Addresses /\ a <= skipToExcludeEnd(a)
        /\ \A c \in Addresses : a <= c /\ c <= skipToExcludeEnd(a) /\ Meant(c) => Passed(c)
    BY <1>1, <1>2, <1>9, ExcludeEnd
  <2> QED
    BY <1>1, <1>2, <1>3, <1>5, <1>9, <2>1, SkipStep
<1>10. CASE /\ valid(a) /\ i # -1 /\ e <= i /\ address' = a
            /\ given' = IF NetOrBroadcast(a) THEN given ELSE Append(given, a)
            /\ UNCHANGED stage
  <2> HIDE DEF a
  <2>1. Meant(a) <=> ~NetOrBroadcast(a)
    BY <1>1, <1>2, <1>10, MeantFacts
  <2>2. a \in Nat /\ address \in Nat /\ a \in Addresses
    BY <1>1, <1>2, <1>10, TopAddress DEF WalkInv, Addresses
  <2>3. /\ given \in Seq(Addresses)
        /\ \A k \in DOMAIN given : given[k] \in Nat /\ given[k] <= address /\ given[k] < a
    <3>1. given \in Seq(Addresses) /\ \A k \in DOMAIN given : given[k] <= address
      BY <1>1 DEF WalkInv, Walked
    <3>2. \A k \in DOMAIN given : given[k] \in Nat
      BY <3>1, TopAddress DEF Addresses
    <3> QED
      BY <1>2, <1>10, <2>2, <3>1, <3>2
  <2>4. lastAddress' = lastAddress
    BY <1>3 DEF lastAddress
  <2>5. ListsInv'
    BY <1>1, <1>3 DEF ListsInv
  <2>6. CASE NetOrBroadcast(a)
    <3>1. given' = given
      BY <1>10, <2>6
    <3>2. Walked'
      BY <1>4, <3>1 DEF WalkInv, Walked
    <3>3. \A c \in Addresses : c <= a => Covered(c)'
      <4>1. \A c \in Addresses : c <= a => c < a \/ c = a
        BY <2>2, TopAddress DEF Addresses
      <4> QED
        BY <1>2, <1>4, <1>10, <2>1, <2>6, <3>1, <4>1 DEF Covered
    <3>4. \A k \in DOMAIN given : given[k] <= a
      BY <2>2, <2>3
    <3> QED
      BY <1>1, <1>2, <1>3, <1>5, <1>10, <2>2, <2>4, <2>5, <3>1, <3>2, <3>3, <3>4 DEF WalkInv
  <2>7. CASE ~NetOrBroadcast(a)
    <3> DEFINE n == Len(given)
    <3>1. given' = Append(given, a)
      BY <1>10, <2>7
    <3>2. /\ n \in Nat /\ DOMAIN given = 1..n /\ given' \in Seq(Addresses)
          /\ DOMAIN given' = 1..(n + 1) /\ given'[n + 1] = a
          /\ \A k \in 1..n : given'[k] = given[k]
      BY <2>2, <2>3, <3>1
    <3> HIDE DEF n
    <3>3. \A k \in 1..(n + 1) : k \in 1..n \/ k = n + 1
      BY <3>2
    <3>4. \A k \in DOMAIN given' : Meant(given'[k]) /\ given'[k] <= a
      <4>1. \A k \in DOMAIN given : Meant(given[k])
        BY DEF WalkInv, Walked
      <4> QED
        BY <2>1, <2>2, <2>3, <2>7, <3>2, <3>3, <4>1
    <3>5. ASSUME NEW j \in DOMAIN given', NEW k \in DOMAIN given', j < k
          PROVE  given'[j] < given'[k]
      <4>1. CASE k \in 1..n
        <5>1. j \in 1..n
          BY <3>2, <3>5, <4>1
        <5>2. given[j] < given[k]
          BY <3>2, <3>5, <4>1, <5>1 DEF WalkInv, Walked
        <5> QED
          BY <3>2, <4>1, <5>1, <5>2
      <4>2. CASE k = n + 1
        <5>1. j \in 1..n
          BY <3>2, <3>5, <4>2
        <5> QED
          BY <2>3, <3>2, <4>2, <5>1
      <4> QED
        BY <3>2, <3>3, <4>1, <4>2
    <3>6. Walked'
      BY <1>4, <3>2, <3>4, <3>5 DEF Walked
    <3>7. \A c \in Addresses : c <= a => Covered(c)'
      <4>1. \A c \in Addresses : c <= a => c < a \/ c = a
        BY <2>2, TopAddress DEF Addresses
      <4>2. Elements(given)' = Elements(given) \cup {a}
        BY <3>2, <3>3 DEF Elements
      <4> QED
        BY <1>2, <1>4, <1>10, <4>1, <4>2 DEF Covered
    <3> QED
      BY <1>1, <1>2, <1>3, <1>5, <1>10, <2>2, <2>4, <2>5, <3>4, <3>6, <3>7 DEF WalkInv
  <2> QED
    BY <2>6, <2>7
<1> QED
  BY <1>7, <1>8, <1>9, <1>10 DEF Iterate

LEMMA InitWalk == Init => WalkInv
<1> SUFFICES ASSUME Init PROVE WalkInv
  OBVIOUS
<1>1. PICK nets \in NetworkLists, excluded \in ExcludeLists :
        networks = AllAdded(nets) /\ excludedNetworks = AllAdded(excluded)
  BY DEF Init
<1> DEFINE G == {net \in Networks : net.address = network(net)}
<1>2. nets \in Seq(G) /\ excluded \in Seq(Networks)
  <2>1. nets \in Seq(Networks) /\ \A k \in DOMAIN nets : nets[k].address = network(nets[k])
    BY CidrListAssumption, NetworksAssumption
  <2>2. \A k \in DOMAIN nets : nets[k] \in G
    BY <2>1
  <2>3. nets \in Seq(G)
    <3> HIDE DEF G
    <3> QED
      BY <2>1, <2>2
  <2> QED
    BY <2>3, CidrListAssumption
<1>3. AllAdded(nets) \in Seq({net \in G : valid(net.address)})
  BY <1>2, AllAddedFacts
<1>4. AllAdded(excluded) \in Seq({net \in Networks : valid(net.address)})
  BY <1>2, AllAddedFacts
<1>5. ListsInv
  <2>1. {net \in G : valid(net.address)} =
        {net \in Networks : valid(net.address) /\ net.address = network(net)}
    OBVIOUS
  <2>2. excludedNetworks \in Seq(Networks)
    BY <1>1, <1>4
  <2> QED
    BY <1>1, <1>3, <2>1, <2>2 DEF ListsInv
<1>6. /\ given = <<>> /\ address = 0 /\ stage = "next" /\ ~valid(address)
  BY DEF Init, valid, Invalid
<1>7. Walked
  BY <1>6 DEF Walked
<1>8. \A a \in Addresses : a <= 0 => Covered(a)
  BY TopAddress DEF Addresses, Covered, valid, Invalid
<1>9. 0 \in Addresses
  BY TopAddress
<1> QED
  BY <1>5, <1>6, <1>7, <1>8, <1>9 DEF WalkInv

LEMMA StepWalk == WalkInv /\ [Next]_vars => WalkInv'
<1> SUFFICES ASSUME WalkInv, [Next]_vars PROVE WalkInv'
  OBVIOUS
<1>1. CASE Iterate
  BY <1>1, IterateStep
<1>2. CASE UNCHANGED vars
  <2>1. UNCHANGED <<networks, excludedNetworks, given, address, last, stage>>
    BY <1>2 DEF vars
  <2>2. ListsInv' /\ (Walked' <=> Walked) /\ lastAddress' = lastAddress
    BY <2>1 DEF WalkInv, ListsInv, Walked, Meant, lastAddress
  <2>3. \A a : Covered(a)' <=> Covered(a)
    BY <2>1 DEF Covered, Meant, Passed
  <2> QED
    BY <2>1, <2>2, <2>3 DEF WalkInv
<1> QED
  BY <1>1, <1>2 DEF Next, Done

(* Whatever networks are added and excluded, and of however many bits: next() *)
(* returns addresses in order, none twice, each in scope and not excluded.    *)
THEOREM ListWalkIsSound == Spec => []WalkIsSound
<1>1. WalkInv => WalkIsSound
  BY DEF WalkInv, Walked, WalkIsSound
<1> QED
  BY <1>1, InitWalk, StepWalk, PTL DEF Spec

(* Once it has returned false, no meant address is left out but the networks  *)
(* inside an exclusion that the property names.                               *)
THEOREM ListWalkIsComplete == Spec => []WalkIsComplete
<1>1. WalkInv => WalkIsComplete
  <2> SUFFICES ASSUME WalkInv, stage = "done", NEW a \in Addresses \ Elements(given),
                      valid(a), Meant(a)
               PROVE  Passed(a)
    BY DEF WalkIsComplete, Passed
  <2> QED
    BY DEF WalkInv, Covered
<1> QED
  BY <1>1, InitWalk, StepWalk, PTL DEF Spec

(* Every turn of the loop in next() leads to a higher address or ends it: as  *)
(* there are 2^W of them, this is what makes the walk come to an end.         *)
THEOREM ListWalkAdvances == Spec => WalkAdvances
<1>1. WalkInv /\ [Next]_vars => [stage' = "done" \/ address < address']_vars
  BY IterateStep DEF Next, Done
<1> QED
  BY <1>1, InitWalk, StepWalk, PTL DEF Spec, WalkAdvances
==============================================================================
