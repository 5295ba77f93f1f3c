----------------------------- MODULE MapLemmas ------------------------------
(***************************************************************************)
(* What the operations on a shard's list or tree do to its entries, the    *)
(* inductive invariant of the sharded map, and the steps that leave the    *)
(* entries of every shard alone.                                           *)
(***************************************************************************)
EXTENDS ConcurrentMap, FiniteSetTheorems, SequenceTheorems, WellFoundedInduction, TLAPS

(* Lists and trees. What matters of a sequence of entries is the set of its *)
(* entries, that no two have one key, and for a tree their order.           *)

Entries(s) == {s[i] : i \in DOMAIN s}

\* The entries with other keys than k.
Others(s, k) == {x \in Entries(s) : x.key # k}

\* The entries when e is put.
Putting(s, e) == Others(s, e.key) \cup {e}

\* s with e for node n, with e in front of node n, and without node n.
Replaced(s, n, e) == [s EXCEPT ![n] = e]

Inserted(s, n, e) == SubSeq(s, 1, n - 1) \o <<e>> \o SubSeq(s, n, Len(s))

Removed(s, n) == SubSeq(s, 1, n - 1) \o SubSeq(s, n + 1, Len(s))

KeysOf(s) == {s[i].key : i \in DOMAIN s}

Unique(s) == \A i, j \in DOMAIN s : s[i].key = s[j].key => i = j

Ordered(s) == \A i, j \in DOMAIN s : i < j => s[i].key < s[j].key

\* A non-empty set of naturals has a least element.
LEMMA LeastNumber ==
  ASSUME NEW T \in SUBSET Nat, T # {}
  PROVE  \E x \in T : \A y \in T : x <= y
<1> DEFINE R == {ss \in Nat \X Nat : ss[1] < ss[2]}
<1>1. IsWellFoundedOn(R, Nat)
  BY NatLessThanWellFounded, Zenon DEF OpToRel
<1> HIDE DEF R
<1>2. \E x \in T : \A y \in T : ~(<<y, x>> \in R)
  BY <1>1, WFMin, Zenon
<1>3. \A x, y \in T : ~(<<y, x>> \in R) => x <= y
  BY DEF R
<1> QED
  BY <1>2, <1>3, Zenon

\* The keys of the entries can be compared.
LEMMA EntryKeys ==
  ASSUME NEW s \in Seq(Entry), NEW i \in DOMAIN s
  PROVE  s[i] \in Entry /\ s[i].key \in Key /\ s[i].key \in Int
<1>1. s[i] \in Entry
  OBVIOUS
<1>2. s[i].key \in Key
  BY <1>1, Zenon DEF Entry
<1> QED
  BY <1>1, <1>2, MapAssumption, Zenon

\* A sequence behind another.
LEMMA Joined ==
  ASSUME NEW S, NEW a \in Seq(S), NEW b \in Seq(S), NEW t, t = a \o b
  PROVE  /\ t \in Seq(S) /\ Len(t) = Len(a) + Len(b)
         /\ \A i \in 1 .. Len(a) : t[i] = a[i]
         /\ \A i \in 1 .. Len(b) : t[Len(a) + i] = b[i]
OBVIOUS

\* The first node with a key: linkedList.Get goes from the head on.
LEMMA FirstNode ==
  ASSUME NEW s \in Seq(Entry), NEW k, Has(s, k)
  PROVE  NodeOf(s, k) \in DOMAIN s /\ s[NodeOf(s, k)].key = k
<1> DEFINE T == {i \in DOMAIN s : s[i].key = k}
<1>1. T \in SUBSET Nat /\ T # {}
  BY DEF Has
<1>2. PICK i \in T : \A j \in T : i <= j
  BY <1>1, LeastNumber, Zenon
<1>3. \E n \in DOMAIN s : s[n].key = k /\ \A j \in DOMAIN s : s[j].key = k => n <= j
  BY <1>2, Zenon
<1> QED
  BY <1>3, Zenon DEF NodeOf

\* Put finds the key: the node keeps its place and gets the new value.
LEMMA ReplaceNode ==
  ASSUME NEW s \in Seq(Entry), NEW e \in Entry, Has(s, e.key), Unique(s),
         NEW t, t = Replaced(s, NodeOf(s, e.key), e)
  PROVE  /\ t \in Seq(Entry) /\ Len(t) = Len(s) /\ Unique(t) /\ KeysOf(t) = KeysOf(s)
         /\ Ordered(s) => Ordered(t)
         /\ Entries(t) = Putting(s, e)
<1> DEFINE n == NodeOf(s, e.key)
<1>1. n \in DOMAIN s /\ s[n].key = e.key
  BY FirstNode, Zenon
<1> HIDE DEF n
<1>2. t = [s EXCEPT ![n] = e]
  BY Zenon DEF n, Replaced
<1>3. t \in Seq(Entry) /\ Len(t) = Len(s) /\ DOMAIN t = DOMAIN s
  <2>1. n \in 1 .. Len(s)
    BY <1>1
  <2> QED
    BY <1>2, <2>1, ExceptSeq
<1>4. \A i \in DOMAIN s : t[i] = IF i = n THEN e ELSE s[i]
  BY <1>1, <1>2, Zenon
<1>5. \A i \in DOMAIN s : t[i].key = s[i].key
  BY <1>1, <1>4, Zenon
<1>6. Unique(t) /\ (Ordered(s) => Ordered(t)) /\ KeysOf(t) = KeysOf(s)
  BY <1>3, <1>5 DEF Unique, Ordered, KeysOf
<1>7. \A i \in DOMAIN s : s[i].key # e.key <=> i # n
  BY <1>1, Zenon DEF Unique
<1>8. Entries(t) = Putting(s, e)
  BY <1>1, <1>3, <1>4, <1>7 DEF Entries, Others, Putting
<1> QED
  BY <1>3, <1>6, <1>8, Zenon

\* Put does not find the key: the list gets a new head.
LEMMA NewHead ==
  ASSUME NEW s \in Seq(Entry), NEW e \in Entry, ~Has(s, e.key), Unique(s),
         NEW t, t = <<e>> \o s
  PROVE  /\ t \in Seq(Entry) /\ Len(t) = Len(s) + 1 /\ Unique(t)
         /\ Entries(t) = Entries(s) \cup {e}
<1>1. t \in Seq(Entry) /\ Len(t) = Len(s) + 1
  OBVIOUS
<1>2. t[1] = e /\ \A i \in 1 .. Len(s) : t[i + 1] = s[i]
  OBVIOUS
<1>3. \A i \in DOMAIN t : i = 1 \/ (i - 1 \in DOMAIN s /\ t[i] = s[i - 1])
  BY <1>1, <1>2
<1>4. \A i \in DOMAIN s : s[i].key # e.key
  BY Zenon DEF Has
<1>5. Unique(t)
  BY <1>1, <1>2, <1>3, <1>4 DEF Unique
<1>6. Entries(t) = Entries(s) \cup {e}
  <2>1. ASSUME NEW x \in Entries(t) PROVE x \in Entries(s) \cup {e}
    BY <1>2, <1>3 DEF Entries
  <2>2. ASSUME NEW x \in Entries(s) PROVE x \in Entries(t)
    <3>1. PICK i \in DOMAIN s : x = s[i]
      BY Zenon DEF Entries
    <3>2. i + 1 \in DOMAIN t /\ t[i + 1] = x
      BY <1>1, <1>2, <3>1
    <3> QED
      BY <3>2, Zenon DEF Entries
  <2>3. e \in Entries(t)
    BY <1>1, <1>2 DEF Entries
  <2> QED
    BY <2>1, <2>2, <2>3, Zenon
<1> QED
  BY <1>1, <1>5, <1>6, Zenon

\* There is a place for a new key in a tree.
LEMMA Place ==
  ASSUME NEW s \in Seq(Entry), NEW k \in Int
  PROVE  /\ PlaceOf(s, k) \in 1 .. Len(s) + 1
         /\ PlaceOf(s, k) <= Len(s) => s[PlaceOf(s, k)].key >= k
         /\ \A i \in 1 .. PlaceOf(s, k) - 1 : s[i].key < k
<1> DEFINE T == {n \in 1 .. Len(s) + 1 : n <= Len(s) => s[n].key >= k}
<1>0. \A n \in 1 .. Len(s) : s[n].key \in Int
  BY EntryKeys
<1>1. T \in SUBSET Nat /\ T # {}
  <2>1. Len(s) + 1 \in T
    OBVIOUS
  <2> QED
    BY <2>1
<1>2. PICK n \in T : \A m \in T : n <= m
  BY <1>1, LeastNumber, Zenon
<1>3. ASSUME NEW i \in 1 .. n - 1 PROVE s[i].key < k
  <2>1. i \in 1 .. Len(s) /\ i \notin T
    BY <1>2
  <2> QED
    BY <1>0, <2>1
<1>4. \E m \in 1 .. Len(s) + 1 : /\ m <= Len(s) => s[m].key >= k
                                 /\ \A i \in 1 .. m - 1 : s[i].key < k
  BY <1>2, <1>3, Zenon
<1> QED
  BY <1>4, Zenon DEF PlaceOf

\* Put does not find the key: the tree gets it in order.
LEMMA NewLeaf ==
  ASSUME NEW s \in Seq(Entry), NEW e \in Entry, ~Has(s, e.key), Unique(s), Ordered(s),
         NEW t, t = Inserted(s, PlaceOf(s, e.key), e)
  PROVE  /\ t \in Seq(Entry) /\ Len(t) = Len(s) + 1 /\ Unique(t) /\ Ordered(t)
         /\ Entries(t) = Entries(s) \cup {e}
<1> DEFINE n == PlaceOf(s, e.key)
<1>0. e.key \in Int /\ \A i \in DOMAIN s : s[i].key \in Int /\ s[i].key # e.key
  <2>1. e.key \in Key
    BY Zenon DEF Entry
  <2> QED
    BY <2>1, EntryKeys, MapAssumption, Zenon DEF Has
<1>1. /\ n \in 1 .. Len(s) + 1 /\ (n <= Len(s) => s[n].key >= e.key)
      /\ \A i \in 1 .. n - 1 : s[i].key < e.key
  BY <1>0, Place, Zenon
<1> HIDE DEF n
<1>2. t = SubSeq(s, 1, n - 1) \o <<e>> \o SubSeq(s, n, Len(s))
  BY Zenon DEF Inserted, n
<1> DEFINE a == SubSeq(s, 1, n - 1)
           b == SubSeq(s, n, Len(s))
<1>a. a \in Seq(Entry) /\ Len(a) = n - 1 /\ \A i \in 1 .. n - 1 : a[i] = s[i]
  <2>1. n - 1 \in Int /\ \A i \in 1 .. n - 1 : s[i] \in Entry
    BY <1>1
  <2> QED
    BY <1>1, <2>1, SubSeqProperties
<1>b. /\ b \in Seq(Entry) /\ Len(b) = Len(s) - n + 1
      /\ \A i \in 1 .. Len(s) - n + 1 : b[i] = s[n + i - 1]
  <2>1. n \in Int /\ Len(s) \in Int /\ \A i \in n .. Len(s) : s[i] \in Entry
    BY <1>1
  <2> QED
    BY <1>1, <2>1, SubSeqProperties
<1> HIDE DEF a, b
<1> DEFINE c == a \o <<e>>
<1>c. /\ c \in Seq(Entry) /\ Len(c) = n /\ c[n] = e
      /\ \A i \in 1 .. n - 1 : c[i] = s[i]
  <2>1. <<e>> \in Seq(Entry) /\ Len(<<e>>) = 1
    OBVIOUS
  <2>2. c \in Seq(Entry) /\ Len(c) = n
    BY <1>1, <1>a, <2>1
  <2> QED
    BY <1>1, <1>a, <2>2
<1>d. t = c \o b
  BY <1>2, Zenon DEF a, b
<1> HIDE DEF c
<1>e. /\ t \in Seq(Entry) /\ Len(t) = Len(c) + Len(b)
      /\ \A i \in 1 .. Len(c) : t[i] = c[i]
      /\ \A i \in 1 .. Len(b) : t[Len(c) + i] = b[i]
  <2>1. c \in Seq(Entry) /\ b \in Seq(Entry)
    BY <1>b, <1>c, Zenon
  <2> QED
    BY <1>d, <2>1, Joined
<1>3. t \in Seq(Entry) /\ Len(t) = Len(s) + 1
  <2>2. Len(s) \in Nat /\ n \in Int
    BY <1>1
  <2>3. n + (Len(s) - n + 1) = Len(s) + 1
    BY <2>2
  <2> QED
    BY <1>b, <1>c, <1>e, <2>3, Zenon
<1>4. \A i \in 1 .. n - 1 : t[i] = s[i]
  BY <1>1, <1>c, <1>e
<1>5. t[n] = e
  BY <1>1, <1>c, <1>e
<1>6. \A i \in n .. Len(s) : t[i + 1] = s[i]
  <2> SUFFICES ASSUME NEW i \in n .. Len(s) PROVE t[i + 1] = s[i]
    BY Zenon
  <2>0. Len(s) \in Nat /\ n \in Int /\ i \in Int
    BY <1>1
  <2>1. i - n + 1 \in 1 .. Len(b) /\ i + 1 = Len(c) + (i - n + 1)
    <3>1. Len(b) = Len(s) - n + 1 /\ Len(c) = n
      BY <1>b, <1>c, Zenon
    <3> QED
      BY <2>0, <3>1
  <2>2. t[i + 1] = b[i - n + 1]
    BY <1>e, <2>1, Zenon
  <2>3. b[i - n + 1] = s[n + (i - n + 1) - 1] /\ n + (i - n + 1) - 1 = i
    BY <1>1, <1>b
  <2> QED
    BY <2>2, <2>3, Zenon
<1>7. \A i \in n .. Len(s) : s[i].key > e.key
  BY <1>0, <1>1 DEF Ordered
<1>8. \A i \in DOMAIN t : \/ i < n /\ i \in DOMAIN s /\ t[i] = s[i]
                          \/ i = n /\ t[i] = e
                          \/ i > n /\ i - 1 \in DOMAIN s /\ i - 1 >= n /\ t[i] = s[i - 1]
  <2> SUFFICES ASSUME NEW i \in DOMAIN t, i # n
               PROVE  \/ i < n /\ i \in DOMAIN s /\ t[i] = s[i]
                      \/ i > n /\ i - 1 \in DOMAIN s /\ i - 1 >= n /\ t[i] = s[i - 1]
    BY <1>5, Zenon
  <2>1. i \in 1 .. Len(s) + 1 /\ n \in Int
    BY <1>1, <1>3
  <2>2. CASE i < n
    BY <1>1, <1>4, <2>1, <2>2
  <2>3. CASE i > n
    <3>1. i - 1 \in n .. Len(s) /\ (i - 1) + 1 = i
      BY <2>1, <2>3
    <3> QED
      BY <1>1, <1>6, <2>3, <3>1
  <2> QED
    BY <2>1, <2>2, <2>3
<1>9. Ordered(t)
  <2> SUFFICES ASSUME NEW i \in DOMAIN t, NEW j \in DOMAIN t, i < j
               PROVE  t[i].key < t[j].key
    BY Zenon DEF Ordered
  <2>1. i \in Int /\ j \in Int /\ n \in Int
    BY <1>1, <1>3
  <2>2. CASE i < n /\ j < n
    BY <1>8, <2>1, <2>2 DEF Ordered
  <2>3. CASE i < n /\ j = n
    BY <1>1, <1>3, <1>8, <2>1, <2>3
  <2>4. CASE i < n /\ j > n
    <3>1. t[i] = s[i] /\ t[j] = s[j - 1] /\ i < j - 1 /\ i \in DOMAIN s /\ j - 1 \in DOMAIN s
      BY <1>8, <2>1, <2>4
    <3> QED
      BY <3>1, Zenon DEF Ordered
  <2>5. CASE i = n /\ j > n
    <3>1. t[i] = e /\ t[j] = s[j - 1] /\ j - 1 \in n .. Len(s)
      BY <1>8, <2>1, <2>5
    <3> QED
      BY <1>0, <1>7, <3>1, Zenon
  <2>6. CASE i > n /\ j > n
    <3>1. /\ t[i] = s[i - 1] /\ t[j] = s[j - 1] /\ i - 1 < j - 1
          /\ i - 1 \in DOMAIN s /\ j - 1 \in DOMAIN s
      BY <1>8, <2>1, <2>6
    <3> QED
      BY <3>1, Zenon DEF Ordered
  <2> QED
    BY <2>1, <2>2, <2>3, <2>4, <2>5, <2>6
<1>10. Unique(t)
  <2> SUFFICES ASSUME NEW i \in DOMAIN t, NEW j \in DOMAIN t, i # j
               PROVE  t[i].key # t[j].key
    BY Zenon DEF Unique
  <2>1. t[i].key \in Int /\ t[j].key \in Int /\ i \in Int /\ j \in Int
    BY <1>3, EntryKeys
  <2> QED
    BY <1>9, <2>1 DEF Ordered
<1>11. Entries(t) = Entries(s) \cup {e}
  <2>1. ASSUME NEW x \in Entries(t) PROVE x \in Entries(s) \cup {e}
    BY <1>8, Zenon DEF Entries
  <2>2. ASSUME NEW x \in Entries(s) PROVE x \in Entries(t)
    <3>1. PICK i \in DOMAIN s : x = s[i]
      BY Zenon DEF Entries
    <3>2. CASE i < n
      <4>1. i \in DOMAIN t /\ t[i] = x
        BY <1>1, <1>3, <1>4, <3>1, <3>2
      <4> QED
        BY <4>1, Zenon DEF Entries
    <3>3. CASE i >= n
      <4>1. i + 1 \in DOMAIN t /\ t[i + 1] = x
        BY <1>1, <1>3, <1>6, <3>1, <3>3
      <4> QED
        BY <4>1, Zenon DEF Entries
    <3> QED
      BY <1>1, <3>2, <3>3
  <2>3. n \in DOMAIN t /\ t[n] = e
    BY <1>1, <1>3, <1>5
  <2>4. e \in Entries(t)
    BY <2>3, Zenon DEF Entries
  <2> QED
    BY <2>1, <2>2, <2>4, Zenon
<1> QED
  BY <1>3, <1>9, <1>10, <1>11, Zenon

\* Remove of either structure: the other nodes keep their order.
LEMMA NodeRemoved ==
  ASSUME NEW s \in Seq(Entry), NEW k, Has(s, k), Unique(s),
         NEW t, t = Removed(s, NodeOf(s, k))
  PROVE  /\ t \in Seq(Entry) /\ Len(t) = Len(s) - 1 /\ Unique(t)
         /\ Ordered(s) => Ordered(t)
         /\ Entries(t) = Others(s, k)
<1> DEFINE n == NodeOf(s, k)
<1>1. n \in 1 .. Len(s) /\ s[n].key = k
  BY FirstNode
<1> HIDE DEF n
<1>2. t = SubSeq(s, 1, n - 1) \o SubSeq(s, n + 1, Len(s))
  BY Zenon DEF Removed, n
<1> DEFINE a == SubSeq(s, 1, n - 1)
           b == SubSeq(s, n + 1, Len(s))
<1>a. a \in Seq(Entry) /\ Len(a) = n - 1 /\ \A i \in 1 .. n - 1 : a[i] = s[i]
  <2>1. n - 1 \in Int /\ \A i \in 1 .. n - 1 : s[i] \in Entry
    BY <1>1
  <2> QED
    BY <1>1, <2>1, SubSeqProperties
<1>b. /\ b \in Seq(Entry) /\ Len(b) = Len(s) - n
      /\ \A i \in 1 .. Len(s) - n : b[i] = s[n + i]
  <2>1. n + 1 \in Int /\ Len(s) \in Int /\ \A i \in n + 1 .. Len(s) : s[i] \in Entry
    BY <1>1
  <2>2. /\ b \in Seq(Entry) /\ Len(b) = Len(s) - n
        /\ \A i \in 1 .. Len(s) - (n + 1) + 1 : b[i] = s[(n + 1) + i - 1]
    BY <1>1, <2>1, SubSeqProperties
  <2>3. \A i \in 1 .. Len(s) - n : i \in 1 .. Len(s) - (n + 1) + 1 /\ (n + 1) + i - 1 = n + i
    BY <1>1
  <2> QED
    BY <2>2, <2>3, Zenon
<1>c. t = a \o b
  BY <1>2, Zenon
<1> HIDE DEF a, b
<1>3. t \in Seq(Entry) /\ Len(t) = Len(s) - 1
  BY <1>1, <1>a, <1>b, <1>c
<1>4. \A i \in 1 .. n - 1 : t[i] = s[i]
  BY <1>1, <1>a, <1>b, <1>c
<1>5. \A i \in n + 1 .. Len(s) : t[i - 1] = s[i]
  <2> SUFFICES ASSUME NEW i \in n + 1 .. Len(s) PROVE t[i - 1] = s[i]
    BY Zenon
  <2>1. i - n \in 1 .. Len(b) /\ i - 1 = Len(a) + (i - n)
    BY <1>1, <1>a, <1>b
  <2>2. t[i - 1] = b[i - n]
    BY <1>a, <1>b, <1>c, <2>1
  <2>3. b[i - n] = s[n + (i - n)] /\ n + (i - n) = i
    BY <1>1, <1>b
  <2> QED
    BY <2>2, <2>3, Zenon
<1>6. ASSUME NEW i \in DOMAIN t
      PROVE  \/ i < n /\ i \in DOMAIN s /\ t[i] = s[i]
             \/ i >= n /\ i + 1 \in DOMAIN s /\ t[i] = s[i + 1]
  <2>1. i \in 1 .. Len(s) - 1 /\ n \in Int /\ Len(s) \in Nat
    BY <1>1, <1>3
  <2>2. CASE i < n
    BY <1>1, <1>4, <2>1, <2>2
  <2>3. CASE i >= n
    <3>1. i + 1 \in n + 1 .. Len(s) /\ (i + 1) - 1 = i
      BY <2>1, <2>3
    <3>2. t[i] = s[i + 1]
      BY <1>5, <3>1, Zenon
    <3> QED
      BY <1>1, <2>1, <2>3, <3>1, <3>2
  <2> QED
    BY <2>1, <2>2, <2>3
<1>7. Unique(t)
  <2> SUFFICES ASSUME NEW i \in DOMAIN t, NEW j \in DOMAIN t, t[i].key = t[j].key
               PROVE  i = j
    BY Zenon DEF Unique
  <2> DEFINE place(x) == IF x < n THEN x ELSE x + 1
  <2>1. i \in Int /\ j \in Int /\ n \in Int
    BY <1>1, <1>3
  <2>2. place(i) \in DOMAIN s /\ t[i] = s[place(i)] /\ place(j) \in DOMAIN s /\ t[j] = s[place(j)]
    BY <1>6, <2>1
  <2>3. place(i) = place(j)
    BY <2>2, Zenon DEF Unique
  <2> QED
    BY <2>1, <2>3
<1>8. ASSUME Ordered(s) PROVE Ordered(t)
  <2> SUFFICES ASSUME NEW i \in DOMAIN t, NEW j \in DOMAIN t, i < j
               PROVE  t[i].key < t[j].key
    BY Zenon DEF Ordered
  <2>1. i \in Int /\ j \in Int /\ n \in Int
    BY <1>1, <1>3
  <2>2. CASE j < n
    BY <1>6, <1>8, <2>1, <2>2 DEF Ordered
  <2>3. CASE i < n /\ j >= n
    <3>1. t[i] = s[i] /\ t[j] = s[j + 1] /\ i < j + 1 /\ i \in DOMAIN s /\ j + 1 \in DOMAIN s
      BY <1>6, <2>1, <2>3
    <3> QED
      BY <1>8, <3>1, Zenon DEF Ordered
  <2>4. CASE i >= n
    <3>1. /\ t[i] = s[i + 1] /\ t[j] = s[j + 1] /\ i + 1 < j + 1
          /\ i + 1 \in DOMAIN s /\ j + 1 \in DOMAIN s
      BY <1>6, <2>1, <2>4
    <3> QED
      BY <1>8, <3>1, Zenon DEF Ordered
  <2> QED
    BY <2>1, <2>2, <2>3, <2>4
<1>9. Entries(t) = Others(s, k)
  <2>1. ASSUME NEW x \in Entries(t) PROVE x \in Entries(s) /\ x.key # k
    <3>1. PICK i \in DOMAIN t : x = t[i]
      BY Zenon DEF Entries
    <3>2. PICK j \in DOMAIN s : x = s[j] /\ j # n
      BY <1>1, <1>3, <1>6, <3>1
    <3> QED
      BY <1>1, <3>2 DEF Entries, Unique
  <2>2. ASSUME NEW x \in Entries(s), x.key # k PROVE x \in Entries(t)
    <3>1. PICK i \in DOMAIN s : x = s[i]
      BY Zenon DEF Entries
    <3>2. i # n
      BY <1>1, <2>2, <3>1, Zenon
    <3>3. CASE i < n
      <4>1. i \in DOMAIN t /\ t[i] = x
        BY <1>1, <1>3, <1>4, <3>1, <3>3
      <4> QED
        BY <4>1, Zenon DEF Entries
    <3>4. CASE i > n
      <4>1. i - 1 \in DOMAIN t /\ t[i - 1] = x
        BY <1>1, <1>3, <1>5, <3>1, <3>4
      <4> QED
        BY <4>1, Zenon DEF Entries
    <3> QED
      BY <1>1, <3>2, <3>3, <3>4
  <2> QED
    BY <2>1, <2>2, Zenon DEF Others
<1> QED
  BY <1>3, <1>7, <1>8, <1>9, Zenon

LEMMA KeysInEntries ==
  ASSUME NEW s
  PROVE  /\ KeysOf(s) = {x.key : x \in Entries(s)}
         /\ \A k : Has(s, k) <=> k \in KeysOf(s)
BY Zenon DEF KeysOf, Entries, Has

\* Put of either structure.
LEMMA PutKeeps ==
  ASSUME NEW to \in {"list", "tree"}, NEW s \in Seq(Entry), NEW e \in Entry,
         Unique(s), to = "tree" => Ordered(s)
  PROVE  /\ PutInto(to, s, e) \in Seq(Entry) /\ Unique(PutInto(to, s, e))
         /\ to = "tree" => Ordered(PutInto(to, s, e))
         /\ Has(s, e.key) => Len(PutInto(to, s, e)) = Len(s)
         /\ ~Has(s, e.key) => Len(PutInto(to, s, e)) = Len(s) + 1
         /\ Entries(PutInto(to, s, e)) = Putting(s, e)
         /\ KeysOf(PutInto(to, s, e)) = KeysOf(s) \cup {e.key}
<1>0. PICK t : t = PutInto(to, s, e)
  BY Zenon
<1>1. /\ t \in Seq(Entry) /\ Unique(t) /\ (to = "tree" => Ordered(t))
      /\ Has(s, e.key) => Len(t) = Len(s)
      /\ ~Has(s, e.key) => Len(t) = Len(s) + 1
      /\ Entries(t) = Putting(s, e)
  <2>1. CASE Has(s, e.key)
    <3>1. t = Replaced(s, NodeOf(s, e.key), e)
      BY <1>0, <2>1, Zenon DEF PutInto, ListPut, TreePut, Replaced
    <3>2. t \in Seq(Entry) /\ Unique(t)
      BY <2>1, <3>1, ReplaceNode, Zenon
    <3>3. Len(t) = Len(s)
      BY <2>1, <3>1, ReplaceNode, Zenon
    <3>4. Ordered(s) => Ordered(t)
      BY <2>1, <3>1, ReplaceNode
    <3>5. Entries(t) = Putting(s, e)
      BY <2>1, <3>1, ReplaceNode, Zenon
    <3> QED
      BY <2>1, <3>2, <3>3, <3>4, <3>5, Zenon
  <2>2. CASE ~Has(s, e.key)
    <3>1. Putting(s, e) = Entries(s) \cup {e}
      BY <2>2, Zenon DEF Has, Entries, Others, Putting
    <3>2. CASE to = "list"
      <4>1. t = <<e>> \o s
        BY <1>0, <2>2, <3>2, Zenon DEF PutInto, ListPut
      <4> QED
        BY <2>2, <3>1, <3>2, <4>1, NewHead, Zenon
    <3>3. CASE to = "tree"
      <4>1. t = Inserted(s, PlaceOf(s, e.key), e)
        BY <1>0, <2>2, <3>3, Zenon DEF PutInto, TreePut, Inserted
      <4> QED
        BY <2>2, <3>1, <3>3, <4>1, NewLeaf, Zenon
    <3> QED
      BY <3>2, <3>3, Zenon
  <2> QED
    BY <2>1, <2>2, Zenon
<1>2. KeysOf(t) = KeysOf(s) \cup {e.key}
  <2>1. KeysOf(t) = {x.key : x \in Entries(t)} /\ KeysOf(s) = {x.key : x \in Entries(s)}
    BY KeysInEntries, Zenon
  <2> QED
    BY <1>1, <2>1, Zenon DEF Others, Putting
<1> QED
  BY <1>0, <1>1, <1>2, Zenon

\* Put adds a node exactly when the key has none.
LEMMA PutLength ==
  ASSUME NEW to \in {"list", "tree"}, NEW s \in Seq(Entry), NEW e \in Entry,
         Unique(s), to = "tree" => Ordered(s)
  PROVE  /\ Has(s, e.key) => Len(PutInto(to, s, e)) = Len(s)
         /\ ~Has(s, e.key) => Len(PutInto(to, s, e)) = Len(s) + 1
BY PutKeeps, Zenon

\* What the new structure is when n entries of s are put into it.
FilledWith(to, s, n, t) ==
  /\ t \in Seq(Entry) /\ Unique(t) /\ (to = "tree" => Ordered(t)) /\ Len(t) = n
  /\ Entries(t) = {s[i] : i \in 1 .. n}

LEMMA OneMore ==
  ASSUME NEW to \in {"list", "tree"}, NEW s \in Seq(Entry), Unique(s),
         NEW n \in 1 .. Len(s), NEW t, FilledWith(to, s, n - 1, t)
  PROVE  FilledWith(to, s, n, PutInto(to, t, s[n]))
<1> DEFINE u == PutInto(to, t, s[n])
<1>1. s[n] \in Entry /\ n \in Int /\ n - 1 \in Nat
  OBVIOUS
<1>2. \A x \in Entries(t) : x.key # s[n].key
  <2> SUFFICES ASSUME NEW i \in 1 .. n - 1 PROVE s[i].key # s[n].key
    BY Zenon DEF FilledWith
  <2>1. i \in DOMAIN s /\ n \in DOMAIN s /\ i # n
    OBVIOUS
  <2> QED
    BY <2>1, Zenon DEF Unique
<1>3. ~Has(t, s[n].key)
  BY <1>2, Zenon DEF Has, Entries
<1>4. /\ u \in Seq(Entry) /\ Unique(u) /\ (to = "tree" => Ordered(u)) /\ Len(u) = Len(t) + 1
      /\ Entries(u) = Putting(t, s[n])
  <2>1. t \in Seq(Entry) /\ Unique(t) /\ (to = "tree" => Ordered(t))
    BY Zenon DEF FilledWith
  <2>2. u \in Seq(Entry) /\ Unique(u)
    BY <1>1, <2>1, PutKeeps, Zenon
  <2>3. to = "tree" => Ordered(u)
    BY <1>1, <2>1, PutKeeps, Zenon
  <2>4. Len(u) = Len(t) + 1
    BY <1>1, <1>3, <2>1, PutKeeps, Zenon
  <2>5. Entries(u) = Putting(t, s[n])
    BY <1>1, <2>1, PutKeeps, Zenon
  <2> QED
    BY <2>2, <2>3, <2>4, <2>5, Zenon
<1> HIDE DEF u
<1>5. Entries(u) = Entries(t) \cup {s[n]}
  BY <1>2, <1>4, Zenon DEF Others, Putting
<1>6. {s[i] : i \in 1 .. n} = {s[i] : i \in 1 .. n - 1} \cup {s[n]}
  <2>1. 1 .. n = (1 .. n - 1) \cup {n}
    BY <1>1
  <2> QED
    BY <2>1, Zenon
<1>7. Len(t) = n - 1 /\ Entries(t) = {s[i] : i \in 1 .. n - 1}
  BY Zenon DEF FilledWith
<1>8. Len(u) = n /\ Entries(u) = {s[i] : i \in 1 .. n}
  BY <1>1, <1>4, <1>5, <1>6, <1>7
<1>9. FilledWith(to, s, n, u)
  BY <1>4, <1>8, Zenon DEF FilledWith
<1> QED
  BY <1>9, Zenon DEF u

\* g[i] is the new structure with i of the first n entries.
Fills(to, s, n, g) ==
  /\ g[0] = <<>>
  /\ \A i \in 1 .. n : g[i] = PutInto(to, g[i - 1], s[i])
  /\ \A i \in 0 .. n : FilledWith(to, s, i, g[i])

\* The conversions keep the entries, and a tree made of a list is in order
\* (drainIntoTree, and the loop in Delete).
LEMMA RefilledKeeps ==
  ASSUME NEW to \in {"list", "tree"}, NEW s \in Seq(Entry), Unique(s)
  PROVE  FilledWith(to, s, Len(s), Refilled(to, s))
<1> DEFINE Bad == {n \in 0 .. Len(s) :
                     ~\E g \in [0 .. n -> Seq(Entry)] : Fills(to, s, n, g)}
<1>1. FilledWith(to, s, 0, <<>>)
  <2>1. <<>> \in Seq(Entry) /\ Len(<<>>) = 0 /\ DOMAIN <<>> = {} /\ 1 .. 0 = {}
    OBVIOUS
  <2> QED
    BY <2>1, Zenon DEF FilledWith, Unique, Ordered, Entries
<1>2. Bad = {}
  <2> SUFFICES ASSUME Bad # {} PROVE FALSE
    BY Zenon
  <2>1. Bad \in SUBSET Nat
    OBVIOUS
  <2>2. PICK n \in Bad : \A m \in Bad : n <= m
    BY <2>1, LeastNumber, Zenon
  <2>3. CASE n = 0
    <3> DEFINE g == [i \in 0 .. 0 |-> <<>>]
    <3>1. g \in [0 .. 0 -> Seq(Entry)] /\ g[0] = <<>> /\ 0 .. 0 = {0} /\ 1 .. 0 = {}
      OBVIOUS
    <3> HIDE DEF g
    <3>2. Fills(to, s, 0, g)
      BY <1>1, <3>1, Zenon DEF Fills
    <3> QED
      BY <2>2, <2>3, <3>1, <3>2, Zenon
  <2>4. CASE n # 0
    <3>1. n \in 1 .. Len(s) /\ n - 1 \in 0 .. Len(s) /\ n - 1 \notin Bad
      BY <2>2, <2>4
    <3>2. PICK g \in [0 .. n - 1 -> Seq(Entry)] : Fills(to, s, n - 1, g)
      BY <3>1, Zenon
    <3> DEFINE h == [i \in 0 .. n |-> IF i = n THEN PutInto(to, g[n - 1], s[n]) ELSE g[i]]
    <3>3. FilledWith(to, s, n - 1, g[n - 1])
      BY <3>1, <3>2 DEF Fills
    <3>4. FilledWith(to, s, n, PutInto(to, g[n - 1], s[n]))
      BY <3>1, <3>3, OneMore, Zenon
    <3>5. /\ h[n] = PutInto(to, g[n - 1], s[n]) /\ \A i \in 0 .. n - 1 : h[i] = g[i]
      BY <3>1
    <3>6. h \in [0 .. n -> Seq(Entry)]
      <4>1. PutInto(to, g[n - 1], s[n]) \in Seq(Entry)
        BY <3>4, Zenon DEF FilledWith
      <4> QED
        BY <3>1, <4>1
    <3> HIDE DEF h
    <3>7. h[0] = <<>>
      <4>1. g[0] = <<>>
        BY <3>2, Zenon DEF Fills
      <4>2. 0 \in 0 .. n - 1
        BY <3>1
      <4> QED
        BY <3>5, <4>1, <4>2, Zenon
    <3>8. ASSUME NEW i \in 1 .. n PROVE h[i] = PutInto(to, h[i - 1], s[i])
      <4>1. i - 1 \in 0 .. n - 1 /\ h[i - 1] = g[i - 1]
        BY <3>1, <3>5
      <4>2. CASE i = n
        BY <3>5, <4>1, <4>2, Zenon
      <4>3. CASE i # n
        <5>1. i \in 1 .. n - 1 /\ h[i] = g[i]
          BY <3>1, <3>5, <4>3
        <5> QED
          BY <3>2, <4>1, <5>1, Zenon DEF Fills
      <4> QED
        BY <4>2, <4>3, Zenon
    <3>9. ASSUME NEW i \in 0 .. n PROVE FilledWith(to, s, i, h[i])
      <4>1. CASE i = n
        BY <3>4, <3>5, <4>1, Zenon
      <4>2. CASE i # n
        <5>1. i \in 0 .. n - 1 /\ h[i] = g[i]
          BY <3>1, <3>5, <4>2
        <5> QED
          BY <3>2, <5>1, Zenon DEF Fills
      <4> QED
        BY <4>1, <4>2, Zenon
    <3>10. Fills(to, s, n, h)
      BY <3>7, <3>8, <3>9, Zenon DEF Fills
    <3> QED
      BY <2>2, <3>6, <3>10, Zenon
  <2> QED
    BY <2>3, <2>4, Zenon
<1>3. Len(s) \in 0 .. Len(s)
  OBVIOUS
<1>4. PICK g \in [0 .. Len(s) -> Seq(Entry)] : Fills(to, s, Len(s), g)
  BY <1>2, <1>3, Zenon
<1> HIDE DEF Bad
<1> DEFINE F == CHOOSE new : new = [n \in 0 .. Len(s) |->
                              IF n = 0 THEN <<>> ELSE PutInto(to, new[n - 1], s[n])]
<1>5. Refilled(to, s) = F[Len(s)]
  BY Zenon DEF Refilled
<1>6. g = [n \in 0 .. Len(s) |-> IF n = 0 THEN <<>> ELSE PutInto(to, g[n - 1], s[n])]
  BY <1>4 DEF Fills
<1>7. F = [n \in 0 .. Len(s) |-> IF n = 0 THEN <<>> ELSE PutInto(to, F[n - 1], s[n])]
  BY <1>6, Zenon
<1> HIDE DEF F
<1>8. ASSUME NEW n \in 0 .. Len(s) PROVE F[n] = g[n]
  <2> DEFINE Other == {m \in 0 .. Len(s) : F[m] # g[m]}
  <2> SUFFICES ASSUME Other # {} PROVE FALSE
    BY Zenon
  <2>1. Other \in SUBSET Nat
    OBVIOUS
  <2>2. PICK m \in Other : \A k \in Other : m <= k
    BY <2>1, LeastNumber, Zenon
  <2>3. m # 0
    BY <1>6, <1>7, <2>2, Zenon
  <2>4. m - 1 \in 0 .. Len(s) /\ m - 1 \notin Other
    BY <2>2, <2>3
  <2>5. F[m - 1] = g[m - 1]
    BY <2>4, Zenon
  <2>6. F[m] = PutInto(to, F[m - 1], s[m]) /\ g[m] = PutInto(to, g[m - 1], s[m])
    BY <1>6, <1>7, <2>2, <2>3, Zenon
  <2> QED
    BY <2>2, <2>5, <2>6, Zenon
<1> QED
  BY <1>3, <1>4, <1>5, <1>8, Zenon DEF Fills

\* Get finds the value of a key that is there, and none of one that is not.
LEMMA LookupFound ==
  ASSUME NEW s \in Seq(Entry), NEW k, Has(s, k)
  PROVE  /\ Lookup(s, k) \in Val /\ Lookup(s, k) # NoVal
         /\ \E x \in Entries(s) : x.key = k /\ x.val = Lookup(s, k)
<1> DEFINE n == NodeOf(s, k)
<1>1. n \in DOMAIN s /\ s[n].key = k
  BY FirstNode, Zenon
<1>2. Lookup(s, k) = s[n].val
  BY Zenon DEF Lookup
<1> HIDE DEF n
<1>3. s[n] \in Entry
  BY <1>1
<1>4. s[n].val \in Val
  BY <1>3, Zenon DEF Entry
<1>5. s[n] \in Entries(s)
  BY <1>1, Zenon DEF Entries
<1> QED
  BY <1>1, <1>2, <1>4, <1>5, MapAssumption, Zenon

LEMMA LookupNone ==
  ASSUME NEW s, NEW k, ~Has(s, k)
  PROVE  Lookup(s, k) = NoVal
BY Zenon DEF Lookup

LEMMA LookupEntry ==
  ASSUME NEW s \in Seq(Entry), Unique(s), NEW x \in Entries(s)
  PROVE  Has(s, x.key) /\ Lookup(s, x.key) = x.val
<1>1. PICK i \in DOMAIN s : x = s[i]
  BY Zenon DEF Entries
<1>2. Has(s, x.key)
  BY <1>1, Zenon DEF Has
<1>3. NodeOf(s, x.key) \in DOMAIN s /\ s[NodeOf(s, x.key)].key = x.key
  BY <1>2, FirstNode, Zenon
<1>4. NodeOf(s, x.key) = i
  BY <1>1, <1>3, Zenon DEF Unique
<1> QED
  BY <1>1, <1>2, <1>4, Zenon DEF Lookup

LEMMA LookupAgrees ==
  ASSUME NEW s \in Seq(Entry), Unique(s), NEW t \in Seq(Entry), Unique(t), NEW k,
         \A x \in Entries(s) : x.key = k => x \in Entries(t),
         \A x \in Entries(t) : x.key = k => x \in Entries(s)
  PROVE  Lookup(t, k) = Lookup(s, k)
<1>1. CASE Has(s, k)
  <2>1. PICK x \in Entries(s) : x.key = k /\ x.val = Lookup(s, k)
    BY <1>1, LookupFound, Zenon
  <2>2. x \in Entries(t)
    BY <2>1, Zenon
  <2>3. Lookup(t, x.key) = x.val
    BY <2>2, LookupEntry, Zenon
  <2> QED
    BY <2>1, <2>3, Zenon
<1>2. CASE ~Has(s, k)
  <2>1. ASSUME Has(t, k) PROVE FALSE
    <3>1. PICK x \in Entries(t) : x.key = k /\ x.val = Lookup(t, k)
      BY <2>1, LookupFound, Zenon
    <3>2. x \in Entries(s)
      BY <3>1, Zenon
    <3>3. Has(s, x.key)
      BY <3>2, LookupEntry, Zenon
    <3> QED
      BY <1>2, <3>1, <3>3, Zenon
  <2> QED
    BY <1>2, <2>1, LookupNone, Zenon
<1> QED
  BY <1>1, <1>2, Zenon

\* What Get finds after Put and after Remove.
LEMMA LookupAfterPut ==
  ASSUME NEW to \in {"list", "tree"}, NEW s \in Seq(Entry), NEW e \in Entry,
         Unique(s), to = "tree" => Ordered(s)
  PROVE  /\ Lookup(PutInto(to, s, e), e.key) = e.val
         /\ \A k : k # e.key => Lookup(PutInto(to, s, e), k) = Lookup(s, k)
<1>0. PICK t : t = PutInto(to, s, e)
  BY Zenon
<1>1. t \in Seq(Entry) /\ Unique(t)
  BY <1>0, PutKeeps, Zenon
<1>2. Entries(t) = Putting(s, e)
  BY <1>0, PutKeeps, Zenon
<1>3. e \in Entries(t)
  BY <1>2, Zenon DEF Putting
<1>4. Lookup(t, e.key) = e.val
  BY <1>1, <1>3, LookupEntry, Zenon
<1>5. ASSUME NEW k, k # e.key PROVE Lookup(t, k) = Lookup(s, k)
  <2>1. \A x \in Entries(s) : x.key = k => x \in Entries(t)
    BY <1>2, <1>5, Zenon DEF Putting, Others
  <2>2. \A x \in Entries(t) : x.key = k => x \in Entries(s)
    BY <1>2, <1>5, Zenon DEF Putting, Others
  <2> QED
    BY <1>1, <2>1, <2>2, LookupAgrees, Zenon
<1> QED
  BY <1>0, <1>4, <1>5, Zenon

LEMMA LookupAfterRemove ==
  ASSUME NEW s \in Seq(Entry), NEW t \in Seq(Entry), NEW k, Unique(s), Unique(t),
         Entries(t) = Others(s, k)
  PROVE  /\ Lookup(t, k) = NoVal
         /\ \A m : m # k => Lookup(t, m) = Lookup(s, m)
<1>1. ~Has(t, k)
  <2>1. \A x \in Entries(t) : x.key # k
    BY Zenon DEF Others
  <2> QED
    BY <2>1, Zenon DEF Has, Entries
<1>2. ASSUME NEW m, m # k PROVE Lookup(t, m) = Lookup(s, m)
  <2>1. \A x \in Entries(s) : x.key = m => x \in Entries(t)
    BY <1>2, Zenon DEF Others
  <2>2. \A x \in Entries(t) : x.key = m => x \in Entries(s)
    BY <1>2, Zenon DEF Others
  <2> QED
    BY <2>1, <2>2, LookupAgrees, Zenon
<1> QED
  BY <1>1, <1>2, LookupNone, Zenon

-----------------------------------------------------------------------------
(* The inductive invariant *)

MapTypeOK ==
  /\ kind \in [Shard -> {"list", "tree"}] /\ data \in [Shard -> Seq(Entry)]
  /\ writer \in [Shard -> SUBSET Proc] /\ count \in Int
  /\ pc \in [Proc -> {"idle", "called", "recheck", "count", "convert", "scan", "done"}]
  /\ call \in [Proc -> Calls \cup {Scan, NoCall}]
  /\ ret \in [Proc -> Seq(Val \cup {NoVal, 0, 1})] /\ diff \in [Proc -> {-1, 0, 1}]
  /\ at \in [Proc -> Nat \ {0}] /\ keys \in [Proc -> Seq(Key)]
  /\ stay \in [Proc -> SUBSET Key] /\ seen \in [Proc -> SUBSET Key]

\* p has the write lock of the shard of its key.
Inside(p) == pc[p] \in {"count", "convert"}

\* Where p is agrees with its call and its result.
Phase(p) ==
  /\ pc[p] = "idle" <=> call[p] = NoCall
  /\ pc[p] \in {"recheck", "count", "convert"} => call[p] \in Calls /\ call[p] # Scan
  /\ pc[p] = "scan" => call[p] = Scan
  /\ Inside(p) => diff[p] \in {-1, 1}
  /\ pc[p] \in {"idle", "called", "recheck"} \/ call[p] = Scan => ret[p] = <<>>
  /\ Inside(p) \/ (pc[p] = "done" /\ call[p] # Scan) => ret[p] # <<>>

\* At most one goroutine writes to s.
Writers(s) ==
  /\ \A p \in writer[s] : Inside(p) /\ ShardOf[call[p].key] = s
  /\ \A p, q \in writer[s] : p = q

Locked(p) == Inside(p) => p \in writer[ShardOf[call[p].key]]

\* A key is once in its own shard, and a tree is in order.
Sound(s) ==
  /\ \A k \in KeysOf(data[s]) : ShardOf[k] = s
  /\ Unique(data[s])
  /\ kind[s] = "tree" => Ordered(data[s])

\* The size of s fits its structure, up to the conversion that a writer has still
\* to make.
Size(s) ==
  /\ writer[s] = {} => /\ kind[s] = "list" => Len(data[s]) < TreeifyThreshold
                       /\ kind[s] = "tree" => Len(data[s]) > UntreeifyThreshold
  /\ \A p \in writer[s] :
       /\ diff[p] = 1 => /\ kind[s] = "tree" => Len(data[s]) > UntreeifyThreshold
                         /\ call[p].key \in KeysOf(data[s])
       /\ diff[p] = -1 => (kind[s] = "list" => Len(data[s]) < TreeifyThreshold)

\* Goroutines that have still to add d to the counter.
Pending(d) == {p \in Proc : pc[p] = "count" /\ diff[p] = d}

Counted ==
  /\ IsFiniteSet(Pending(1)) /\ IsFiniteSet(Pending(-1))
  /\ count = Cardinality(Present) - Cardinality(Pending(1)) + Cardinality(Pending(-1))

Collected(p) == {keys[p][i] : i \in DOMAIN keys[p]}

\* What Keys of p has collected from the shards in front of at[p].
Scanned(p) ==
  /\ call[p] # Scan \/ pc[p] = "called" => at[p] = 1 /\ keys[p] = <<>>
  /\ pc[p] = "scan" =>
       /\ Present \subseteq seen[p] /\ stay[p] \subseteq Present
       /\ \A k \in stay[p] : ShardOf[k] < at[p] => k \in Collected(p)
       /\ \A k \in Collected(p) : ShardOf[k] < at[p]
  /\ Collected(p) \subseteq seen[p]
  /\ \A i, j \in DOMAIN keys[p] : keys[p][i] = keys[p][j] => i = j
  /\ pc[p] = "done" /\ call[p] = Scan => stay[p] \subseteq Collected(p)

MapInv ==
  /\ MapTypeOK
  /\ \A p \in Proc : Phase(p) /\ Locked(p) /\ Scanned(p)
  /\ \A s \in Shard : Writers(s) /\ Sound(s) /\ Size(s)
  /\ Counted

\* Nothing of another goroutine than p changes.
Elsewhere(p) ==
  \A q \in Proc \ {p} :
    /\ pc'[q] = pc[q] /\ call'[q] = call[q] /\ ret'[q] = ret[q] /\ diff'[q] = diff[q]
    /\ at'[q] = at[q] /\ keys'[q] = keys[q] /\ stay'[q] = stay[q] /\ seen'[q] = seen[q]

LEMMA SamePending ==
  ASSUME NEW p, \A q \in Proc \ {p} : pc'[q] = pc[q] /\ diff'[q] = diff[q],
         pc[p] # "count", pc'[p] # "count", NEW d
  PROVE  Pending(d)' = Pending(d)
BY Zenon DEF Pending

\* The keys of the shards d.
AllKeys(d) == UNION {KeysOf(d[s]) : s \in Shard}

\* They are finitely many, and each one is in its own shard.
LEMMA AllKeysOf ==
  ASSUME NEW d \in [Shard -> Seq(Entry)], \A s \in Shard : \A k \in KeysOf(d[s]) : ShardOf[k] = s
  PROVE  /\ AllKeys(d) \subseteq Key /\ IsFiniteSet(AllKeys(d))
         /\ \A k : k \in AllKeys(d) <=> k \in Key /\ k \in KeysOf(d[ShardOf[k]])
<1>1. \A s \in Shard : d[s] \in Seq(Entry)
  BY Zenon
<1>2. \A s \in Shard : KeysOf(d[s]) \subseteq Key
  BY <1>1, EntryKeys DEF KeysOf
<1>3. \A k \in Key : ShardOf[k] \in Shard
  BY MapAssumption, Zenon DEF Shard
<1>4. AllKeys(d) \subseteq Key
  BY <1>2, Zenon DEF AllKeys
<1>5. \A k : k \in AllKeys(d) <=> k \in Key /\ k \in KeysOf(d[ShardOf[k]])
  <2>1. ASSUME NEW k \in AllKeys(d) PROVE k \in KeysOf(d[ShardOf[k]])
    BY Zenon DEF AllKeys
  <2>2. ASSUME NEW k \in Key, k \in KeysOf(d[ShardOf[k]]) PROVE k \in AllKeys(d)
    BY <1>3, <2>2, Zenon DEF AllKeys
  <2> QED
    BY <1>4, <2>1, <2>2, Zenon
<1>6. IsFiniteSet(AllKeys(d))
  <2>1. ASSUME NEW s \in Shard PROVE IsFiniteSet(KeysOf(d[s]))
    <3>1. Len(d[s]) \in Nat /\ DOMAIN d[s] = 1 .. Len(d[s])
      BY <1>1
    <3>2. IsFiniteSet(DOMAIN d[s])
      <4>1. 1 \in Int /\ Len(d[s]) \in Int
        BY <3>1
      <4> QED
        BY <3>1, <4>1, FS_Interval, Zenon
    <3> DEFINE f == [i \in DOMAIN d[s] |-> d[s][i].key]
    <3>3. f \in Surjection(DOMAIN d[s], KeysOf(d[s]))
      BY Zenon DEF Surjection, KeysOf
    <3> QED
      BY <3>2, <3>3, FS_Surjection, Zenon
  <2>2. IsFiniteSet(Shard)
    BY FS_Interval, MapAssumption DEF Shard
  <2>3. IsFiniteSet({KeysOf(d[s]) : s \in Shard})
    <3> DEFINE f == [s \in Shard |-> KeysOf(d[s])]
    <3>1. f \in Surjection(Shard, {KeysOf(d[s]) : s \in Shard})
      BY Zenon DEF Surjection
    <3> QED
      BY <2>2, <3>1, FS_Surjection, Zenon
  <2> QED
    BY <2>1, <2>3, FS_UNION, Zenon DEF AllKeys
<1> QED
  BY <1>4, <1>5, <1>6, Zenon

LEMMA PresentIs ==
  /\ Present = AllKeys(data)
  /\ Present' = AllKeys(data')
BY Zenon DEF Present, AllKeys, KeysOf

\* The keys of the map are those that their own shards hold, and finitely many.
LEMMA PresentKeys ==
  ASSUME MapTypeOK, \A s \in Shard : Sound(s)
  PROVE  /\ Present \subseteq Key /\ IsFiniteSet(Present)
         /\ \A s \in Shard : \A k \in KeysOf(data[s]) : k \in Present
         /\ \A k \in Present : ShardOf[k] \in Shard /\ k \in KeysOf(data[ShardOf[k]])
<1>1. data \in [Shard -> Seq(Entry)] /\ \A s \in Shard : \A k \in KeysOf(data[s]) : ShardOf[k] = s
  BY Zenon DEF MapTypeOK, Sound
<1>2. Present \subseteq Key /\ IsFiniteSet(Present)
  BY <1>1, AllKeysOf, PresentIs, Zenon
<1>3. \A k : k \in Present <=> k \in Key /\ k \in KeysOf(data[ShardOf[k]])
  BY <1>1, AllKeysOf, PresentIs, Zenon
<1>4. \A s \in Shard : \A k \in KeysOf(data[s]) : k \in Present
  BY PresentIs, Zenon DEF AllKeys
<1>5. \A k \in Key : ShardOf[k] \in Shard
  BY MapAssumption, Zenon DEF Shard
<1> QED
  BY <1>2, <1>3, <1>4, <1>5, Zenon

\* A step of p that leaves the shards and the other goroutines alone, and the lock
\* of p if it has one.
LEMMA OwnStep ==
  ASSUME MapInv, NEW p \in Proc, Elsewhere(p), UNCHANGED shardVars, MapTypeOK',
         Inside(p)' <=> Inside(p),
         Inside(p) => call'[p] = call[p] /\ diff'[p] = diff[p],
         Phase(p)', Scanned(p)', Counted'
  PROVE  MapInv'
<1>1. UNCHANGED <<kind, data, writer>> /\ Present' = Present
  BY DEF shardVars, Present, Shard
<1>2. ASSUME NEW q \in Proc \ {p}
      PROVE  Phase(q)' /\ Locked(q)' /\ Scanned(q)'
  <2>1. /\ pc'[q] = pc[q] /\ call'[q] = call[q] /\ ret'[q] = ret[q] /\ diff'[q] = diff[q]
        /\ at'[q] = at[q] /\ keys'[q] = keys[q] /\ stay'[q] = stay[q] /\ seen'[q] = seen[q]
    BY Zenon DEF Elsewhere
  <2>2. Phase(q) /\ Locked(q) /\ Scanned(q)
    BY Zenon DEF MapInv
  <2>3. Inside(q)' = Inside(q)
    BY <2>1, Zenon DEF Inside
  <2>4. Phase(q)'
    BY <2>1, <2>2, <2>3, Zenon DEF Phase
  <2>5. Locked(q)'
    BY <1>1, <2>1, <2>2, <2>3, Zenon DEF Locked
  <2>6. Collected(q)' = Collected(q)
    BY <2>1, Zenon DEF Collected
  <2>7. Scanned(q)'
    BY <1>1, <2>1, <2>2, <2>6, Zenon DEF Scanned
  <2> QED
    BY <2>4, <2>5, <2>7, Zenon
<1>3. Locked(p)'
  BY <1>1, Zenon DEF MapInv, Locked
<1>4. ASSUME NEW s \in Shard
      PROVE  Writers(s)' /\ Sound(s)' /\ Size(s)'
  <2>1. Writers(s) /\ Sound(s) /\ Size(s)
    BY Zenon DEF MapInv
  <2>2. ASSUME NEW q \in writer[s]
        PROVE  Inside(q)' /\ call'[q] = call[q] /\ diff'[q] = diff[q]
    <3>1. q \in Proc /\ Inside(q)
      BY <2>1, Zenon DEF MapInv, MapTypeOK, Writers
    <3>2. CASE q = p
      BY <3>1, <3>2, Zenon
    <3>3. CASE q # p
      BY <3>1, <3>3, Zenon DEF Elsewhere, Inside
    <3> QED
      BY <3>2, <3>3, Zenon
  <2>3. \A q \in writer[s] : Inside(q)' /\ call'[q] = call[q] /\ diff'[q] = diff[q]
    BY <2>2, Zenon
  <2>4. Writers(s)'
    BY <1>1, <2>1, <2>3, Zenon DEF Writers
  <2>5. Sound(s)'
    BY <1>1, <2>1, Zenon DEF Sound
  <2>6. Size(s)'
    BY <1>1, <2>1, <2>3, Zenon DEF Size
  <2> QED
    BY <2>4, <2>5, <2>6, Zenon
<1> QED
  BY <1>2, <1>3, <1>4, Zenon DEF MapInv

\* The same while p has no lock and the counter stays as it is.
LEMMA QuietStep ==
  ASSUME MapInv, NEW p \in Proc, Elsewhere(p), UNCHANGED <<shardVars, count>>, MapTypeOK',
         ~Inside(p), ~Inside(p)', Phase(p)', Scanned(p)'
  PROVE  MapInv'
<1>1. Present' = Present
  BY DEF shardVars, Present, Shard
<1>2. Counted'
  <2>1. pc[p] # "count" /\ pc'[p] # "count"
    BY Zenon DEF Inside
  <2>2. \A q \in Proc \ {p} : pc'[q] = pc[q] /\ diff'[q] = diff[q]
    BY Zenon DEF Elsewhere
  <2>3. Pending(1)' = Pending(1) /\ Pending(-1)' = Pending(-1)
    BY <2>1, <2>2, SamePending, Zenon
  <2> QED
    BY <1>1, <2>3, Zenon DEF MapInv, Counted
<1> QED
  BY <1>2, OwnStep, Zenon

\* A call begins, and returns.
LEMMA CallKeeps ==
  ASSUME MapInv, NEW p \in Proc, NEW c \in Calls \cup {Scan}, Call(p, c)
  PROVE  MapInv'
<1>1. /\ pc[p] = "idle" /\ pc' = [pc EXCEPT ![p] = "called"] /\ call' = [call EXCEPT ![p] = c]
      /\ UNCHANGED <<kind, data, writer, count, ret, diff, at, keys, stay, seen>>
  BY Zenon DEF Call, Goto, shardVars, scanVars
<1>2. MapTypeOK
  BY Zenon DEF MapInv
<1>3. MapTypeOK' /\ pc'[p] = "called" /\ call'[p] = c
  BY <1>1, <1>2, Zenon DEF MapTypeOK
<1>4. Elsewhere(p)
  BY <1>1, <1>2, Zenon DEF Elsewhere, MapTypeOK
<1>5. Phase(p) /\ Scanned(p) /\ call[p] = NoCall
  BY <1>1, Zenon DEF MapInv, Phase
<1>6. c # NoCall
  BY MapAssumption, Zenon
<1>7. Phase(p)'
  BY <1>1, <1>3, <1>5, <1>6, Zenon DEF Phase, Inside
<1>8. Scanned(p)'
  BY <1>1, <1>3, <1>5, MapAssumption, Zenon DEF Scanned, Collected
<1>9. UNCHANGED <<shardVars, count>> /\ ~Inside(p) /\ ~Inside(p)'
  BY <1>1, <1>3, Zenon DEF shardVars, Inside
<1> QED
  BY <1>3, <1>4, <1>7, <1>8, <1>9, QuietStep, Zenon

LEMMA ReturnKeeps ==
  ASSUME MapInv, NEW p \in Proc, Return(p)
  PROVE  MapInv'
<1>1. /\ pc[p] = "done" /\ pc' = [pc EXCEPT ![p] = "idle"] /\ call' = [call EXCEPT ![p] = NoCall]
      /\ ret' = [ret EXCEPT ![p] = <<>>] /\ at' = [at EXCEPT ![p] = 1]
      /\ keys' = [keys EXCEPT ![p] = <<>>] /\ stay' = [stay EXCEPT ![p] = {}]
      /\ seen' = [seen EXCEPT ![p] = {}] /\ UNCHANGED <<kind, data, writer, count, diff>>
  BY Zenon DEF Return, Goto, shardVars
<1>2. MapTypeOK
  BY Zenon DEF MapInv
<1>3. MapTypeOK'
  BY <1>1, <1>2 DEF MapTypeOK
<1>4. /\ pc'[p] = "idle" /\ call'[p] = NoCall /\ ret'[p] = <<>> /\ at'[p] = 1 /\ keys'[p] = <<>>
      /\ stay'[p] = {} /\ seen'[p] = {}
  BY <1>1, <1>2, Zenon DEF MapTypeOK
<1>5. Elsewhere(p)
  BY <1>1, <1>2, ZenonT(60) DEF Elsewhere, MapTypeOK
<1>6. Phase(p)'
  BY <1>4, MapAssumption, Zenon DEF Phase, Inside
<1>7. Scanned(p)'
  BY <1>4 DEF Scanned, Collected
<1>8. UNCHANGED <<shardVars, count>> /\ ~Inside(p) /\ ~Inside(p)'
  BY <1>1, <1>4, Zenon DEF shardVars, Inside
<1> QED
  BY <1>3, <1>5, <1>6, <1>7, <1>8, QuietStep, Zenon

\* A read of one shard that ends a call, and the first look of SetIfNotExist.
LEMMA ReadKeeps ==
  ASSUME MapInv, NEW p \in Proc, pc[p] = "called", call[p] # Scan,
         UNCHANGED <<shardVars, count, call, diff, scanVars>>,
         NEW r \in Val \cup {NoVal, 0, 1},
         Finish(p, r) \/ (call[p] \in Calls /\ Goto(p, "recheck") /\ UNCHANGED ret)
  PROVE  MapInv'
<1>1. UNCHANGED <<kind, data, writer, count, call, diff, at, keys, stay, seen>>
  BY Zenon DEF shardVars, scanVars
<1>2. MapTypeOK
  BY Zenon DEF MapInv
<1>3. \/ /\ pc' = [pc EXCEPT ![p] = "done"] /\ ret' = [ret EXCEPT ![p] = <<r>>]
      \/ /\ call[p] \in Calls /\ pc' = [pc EXCEPT ![p] = "recheck"] /\ ret' = ret
  BY Zenon DEF Finish, Goto
<1>4. MapTypeOK'
  <2>1. <<r>> \in Seq(Val \cup {NoVal, 0, 1})
    OBVIOUS
  <2>2. CASE pc' = [pc EXCEPT ![p] = "done"] /\ ret' = [ret EXCEPT ![p] = <<r>>]
    BY <1>1, <1>2, <2>1, <2>2, Zenon DEF MapTypeOK
  <2>3. CASE pc' = [pc EXCEPT ![p] = "recheck"] /\ ret' = ret
    BY <1>1, <1>2, <2>3, Zenon DEF MapTypeOK
  <2> QED
    BY <1>3, <2>2, <2>3, Zenon
<1>5. Elsewhere(p)
  BY <1>1, <1>2, <1>3, Zenon DEF Elsewhere, MapTypeOK
<1>6. \/ pc'[p] = "done" /\ ret'[p] = <<r>>
      \/ pc'[p] = "recheck" /\ ret'[p] = ret[p] /\ call[p] \in Calls
  BY <1>2, <1>3, Zenon DEF MapTypeOK
<1>7. Phase(p) /\ Scanned(p) /\ <<r>> # <<>>
  BY Zenon DEF MapInv
<1>8. Phase(p)'
  BY <1>1, <1>6, <1>7, Zenon DEF Phase, Inside
<1>9. Scanned(p)'
  BY <1>1, <1>6, <1>7, Zenon DEF Scanned, Collected
<1>10. UNCHANGED <<shardVars, count>> /\ ~Inside(p) /\ ~Inside(p)'
  BY <1>6, Zenon DEF Inside
<1> QED
  BY <1>4, <1>5, <1>8, <1>9, <1>10, QuietStep, Zenon

\* The call of p on one key when p is to start it.
LEMMA Started ==
  ASSUME MapInv, NEW p \in Proc, NEW ops, NEW label \in {"called", "recheck"}, Starts(p, ops, label)
  PROVE  /\ pc[p] = label /\ call[p] # Scan /\ call[p] \in Calls /\ call[p].op \in ops
         /\ call[p].key \in Key /\ call[p].val \in Val
         /\ ShardOf[call[p].key] \in Shard
<1>1. pc[p] = label /\ call[p] # Scan /\ call[p].op \in ops
  BY Zenon DEF Starts
<1>2. call[p] # NoCall /\ call[p] \in Calls \cup {Scan, NoCall}
  BY <1>1, Zenon DEF MapInv, Phase, MapTypeOK
<1>3. call[p] \in Calls
  BY <1>1, <1>2, Zenon
<1>4. call[p].key \in Key /\ call[p].val \in Val
  BY <1>3, Zenon DEF Calls
<1> QED
  BY <1>1, <1>3, <1>4, MapAssumption, Zenon DEF Shard

LEMMA GetKeeps ==
  ASSUME MapInv, NEW p \in Proc, Get(p)
  PROVE  MapInv'
<1> DEFINE k == call[p].key
           s == ShardOf[k]
<1>1. Starts(p, {"get"}, "called") /\ Finish(p, Lookup(data[s], k))
      /\ UNCHANGED <<shardVars, count, call, diff, scanVars>>
  BY Zenon DEF Get
<1>2. pc[p] = "called" /\ call[p] # Scan /\ s \in Shard
  BY <1>1, Started, Zenon
<1>3. data[s] \in Seq(Entry)
  BY <1>2, Zenon DEF MapInv, MapTypeOK
<1>4. Lookup(data[s], k) \in Val \cup {NoVal, 0, 1}
  BY <1>3, LookupFound, LookupNone
<1> QED
  BY <1>1, <1>2, <1>4, ReadKeeps, Zenon

LEMMA CheckFirstKeeps ==
  ASSUME MapInv, NEW p \in Proc, CheckFirst(p)
  PROVE  MapInv'
<1>1. Starts(p, {"setifnotexist"}, "called")
      /\ (Finish(p, 0) \/ (Goto(p, "recheck") /\ UNCHANGED ret))
      /\ UNCHANGED <<shardVars, count, call, diff, scanVars>>
  BY Zenon DEF CheckFirst
<1>2. pc[p] = "called" /\ call[p] # Scan /\ call[p] \in Calls
  BY <1>1, Started, Zenon
<1>3. 0 \in Val \cup {NoVal, 0, 1}
  BY Zenon
<1> QED
  BY <1>1, <1>2, <1>3, ReadKeeps, Zenon

\* Two writers that have still to count a new key have different keys, and their
\* keys are in the map.
LEMMA PendingKeys ==
  ASSUME MapInv
  PROVE  /\ \A p \in Pending(1) : call[p].key \in Present
         /\ \A p, q \in Pending(1) : call[p].key = call[q].key => p = q
<1>1. ASSUME NEW p \in Pending(1)
      PROVE  /\ p \in Proc /\ ShardOf[call[p].key] \in Shard
             /\ p \in writer[ShardOf[call[p].key]] /\ call[p].key \in Present
  <2>1. p \in Proc /\ pc[p] = "count" /\ diff[p] = 1 /\ Inside(p)
    BY Zenon DEF Pending, Inside
  <2>2. call[p] \in Calls /\ p \in writer[ShardOf[call[p].key]]
    BY <2>1, Zenon DEF MapInv, Phase, Locked
  <2>3. ShardOf[call[p].key] \in Shard
    BY <2>2, MapAssumption, Zenon DEF Calls, Shard
  <2>4. call[p].key \in KeysOf(data[ShardOf[call[p].key]])
    BY <2>1, <2>2, <2>3, Zenon DEF MapInv, Size
  <2>5. MapTypeOK /\ \A s \in Shard : Sound(s)
    BY Zenon DEF MapInv
  <2>6. call[p].key \in Present
    BY <2>3, <2>4, <2>5, PresentKeys, Zenon
  <2> QED
    BY <2>1, <2>2, <2>3, <2>6, Zenon
<1>2. ASSUME NEW p \in Pending(1), NEW q \in Pending(1), call[p].key = call[q].key
      PROVE  p = q
  BY <1>1, <1>2 DEF MapInv, Writers
<1> QED
  BY <1>1, <1>2, Zenon

\* When the counter is 0, no Set of a key in the map has returned.
LEMMA NothingSettled ==
  ASSUME MapInv, count = 0
  PROVE  Settled = {}
<1> DEFINE K == {call[p].key : p \in Pending(1)}
           f == [p \in Pending(1) |-> call[p].key]
<1>1. Settled = Present \ K
  BY Zenon DEF Settled, Pending
<1>2. K \subseteq Present
  BY PendingKeys, Zenon
<1>3. f \in Bijection(Pending(1), K)
  <2>1. f \in Surjection(Pending(1), K)
    BY Zenon DEF Surjection
  <2>2. \A p, q \in Pending(1) : f[p] = f[q] => p = q
    BY PendingKeys, Zenon
  <2>3. f \in Injection(Pending(1), K)
    BY <2>2, Zenon DEF Injection, IsInjective
  <2> QED
    BY <2>1, <2>3, Zenon DEF Bijection
<1>4. IsFiniteSet(Pending(1)) /\ IsFiniteSet(Pending(-1)) /\ MapTypeOK /\ \A s \in Shard : Sound(s)
  BY Zenon DEF MapInv, Counted
<1>5. IsFiniteSet(K) /\ Cardinality(K) = Cardinality(Pending(1))
  <2>1. ExistsBijection(Pending(1), K)
    BY <1>3, Zenon DEF ExistsBijection
  <2> HIDE DEF K, f
  <2> QED
    BY <1>4, <2>1, FS_Bijection, Zenon
<1>6. IsFiniteSet(Present)
  BY <1>4, PresentKeys, Zenon
<1>7. Cardinality(Present) \in Nat /\ Cardinality(K) \in Nat /\ Cardinality(Pending(-1)) \in Nat
  BY <1>4, <1>5, <1>6, FS_CardinalityType, Zenon
<1>8. Cardinality(Present) <= Cardinality(K)
  BY <1>5, <1>7 DEF MapInv, Counted
<1>9. K = Present
  <2>1. Cardinality(K) <= Cardinality(Present) /\ (Cardinality(K) = Cardinality(Present) => K = Present)
    BY <1>2, <1>6, FS_Subset, ZenonT(60)
  <2> QED
    BY <1>7, <1>8, <2>1
<1> QED
  BY <1>1, <1>9, Zenon

LEMMA KeysStartKeeps ==
  ASSUME MapInv, NEW p \in Proc, KeysStart(p)
  PROVE  MapInv'
<1>1. /\ pc[p] = "called" /\ call[p] = Scan /\ pc' = [pc EXCEPT ![p] = IF count = 0 THEN "done" ELSE "scan"]
      /\ stay' = [stay EXCEPT ![p] = Settled] /\ seen' = [seen EXCEPT ![p] = Present]
      /\ UNCHANGED <<kind, data, writer, count, call, ret, diff, at, keys>>
  BY Zenon DEF KeysStart, Goto, shardVars
<1>2. MapTypeOK /\ \A s \in Shard : Sound(s)
  BY Zenon DEF MapInv
<1>3. Present \in SUBSET Key /\ Settled \in SUBSET Key /\ Settled \subseteq Present
  BY <1>2, PresentKeys, Zenon DEF Settled
<1>4. MapTypeOK'
  BY <1>1, <1>2, <1>3, Zenon DEF MapTypeOK
<1>5. /\ pc'[p] \in {"done", "scan"} /\ (pc'[p] = "done" => count = 0)
      /\ call'[p] = Scan /\ stay'[p] = Settled /\ seen'[p] = Present
  BY <1>1, <1>2, Zenon DEF MapTypeOK
<1>6. Elsewhere(p)
  BY <1>1, <1>2, Zenon DEF Elsewhere, MapTypeOK
<1>7. Phase(p) /\ Scanned(p)
  BY Zenon DEF MapInv
<1>8. ret'[p] = <<>> /\ keys'[p] = <<>> /\ at'[p] = 1
  BY <1>1, <1>7, Zenon DEF Phase, Scanned
<1>9. Phase(p)'
  BY <1>5, <1>8, MapAssumption, Zenon DEF Phase, Inside
<1>10. Present' = Present
  BY <1>1 DEF Present
<1>11. Collected(p)' = {}
  BY <1>8 DEF Collected
<1>12. \A k \in Settled : ~(ShardOf[k] < 1)
  BY <1>3, MapAssumption
<1>13. pc'[p] = "done" => Settled = {}
  BY <1>5, NothingSettled, Zenon
<1>14. Scanned(p)'
  BY <1>3, <1>5, <1>8, <1>10, <1>11, <1>12, <1>13 DEF Scanned
<1>15. UNCHANGED <<shardVars, count>> /\ ~Inside(p) /\ ~Inside(p)'
  BY <1>1, <1>5, Zenon DEF shardVars, Inside
<1> QED
  BY <1>4, <1>6, <1>9, <1>14, <1>15, QuietStep, Zenon

LEMMA KeysReturnsKeeps ==
  ASSUME MapInv, NEW p \in Proc, KeysReturns(p)
  PROVE  MapInv'
<1>1. /\ pc[p] = "scan" /\ at[p] > NumShards /\ pc' = [pc EXCEPT ![p] = "done"]
      /\ UNCHANGED <<kind, data, writer, count, call, ret, diff, at, keys, stay, seen>>
  BY Zenon DEF KeysReturns, Goto, shardVars, scanVars
<1>2. MapTypeOK
  BY Zenon DEF MapInv
<1>3. MapTypeOK' /\ pc'[p] = "done"
  BY <1>1, <1>2, Zenon DEF MapTypeOK
<1>4. Elsewhere(p)
  BY <1>1, <1>2, Zenon DEF Elsewhere, MapTypeOK
<1>5. Phase(p) /\ Scanned(p) /\ call[p] = Scan
  BY <1>1, Zenon DEF MapInv, Phase
<1>6. Phase(p)'
  BY <1>1, <1>3, <1>5, MapAssumption, Zenon DEF Phase, Inside
<1>7. \A k \in stay[p] : ShardOf[k] < at[p]
  <2>1. \A k \in stay[p] : ShardOf[k] \in 1 .. NumShards
    BY <1>2, MapAssumption, Zenon DEF MapTypeOK
  <2>2. at[p] \in Nat /\ NumShards \in Nat
    BY <1>2, MapAssumption, Zenon DEF MapTypeOK
  <2> QED
    BY <1>1, <2>1, <2>2
<1>8. Scanned(p)'
  BY <1>1, <1>3, <1>5, <1>7, Zenon DEF Scanned, Collected
<1>9. UNCHANGED <<shardVars, count>> /\ ~Inside(p) /\ ~Inside(p)'
  BY <1>1, <1>3, Zenon DEF shardVars, Inside
<1> QED
  BY <1>3, <1>4, <1>6, <1>8, <1>9, QuietStep, Zenon

\* The keys of a shard in the order of its entries.
KeySeq(s) == [i \in DOMAIN s |-> s[i].key]

LEMMA KeySeqKeys ==
  ASSUME NEW s \in Seq(Entry), Unique(s)
  PROVE  /\ KeySeq(s) \in Seq(Key) /\ Len(KeySeq(s)) = Len(s) /\ DOMAIN KeySeq(s) = 1 .. Len(s)
         /\ {KeySeq(s)[i] : i \in DOMAIN KeySeq(s)} = KeysOf(s)
         /\ \A i, j \in DOMAIN KeySeq(s) : KeySeq(s)[i] = KeySeq(s)[j] => i = j
<1>1. DOMAIN s = 1 .. Len(s) /\ Len(s) \in Nat /\ \A i \in DOMAIN s : s[i].key \in Key
  BY EntryKeys
<1>2. DOMAIN KeySeq(s) = DOMAIN s /\ \A i \in DOMAIN s : KeySeq(s)[i] = s[i].key
  BY Zenon DEF KeySeq
<1>3. KeySeq(s) \in Seq(Key) /\ Len(KeySeq(s)) = Len(s)
  BY <1>1 DEF KeySeq
<1>4. {KeySeq(s)[i] : i \in DOMAIN KeySeq(s)} = KeysOf(s)
  BY <1>2, Zenon DEF KeysOf
<1> QED
  BY <1>1, <1>2, <1>3, <1>4, ZenonT(60) DEF Unique

\* Two sequences without repetition and without a common element, one after the other.
LEMMA Appended ==
  ASSUME NEW T, NEW a \in Seq(T), NEW b \in Seq(T),
         \A i, j \in DOMAIN a : a[i] = a[j] => i = j,
         \A i, j \in DOMAIN b : b[i] = b[j] => i = j,
         \A i \in DOMAIN a, j \in DOMAIN b : a[i] # b[j]
  PROVE  /\ a \o b \in Seq(T)
         /\ Entries(a \o b) = Entries(a) \cup Entries(b)
         /\ \A i, j \in DOMAIN (a \o b) : (a \o b)[i] = (a \o b)[j] => i = j
<1> PICK c : c = a \o b
  BY Zenon
<1>1. /\ c \in Seq(T) /\ DOMAIN c = 1 .. Len(a) + Len(b) /\ Len(a) \in Nat /\ Len(b) \in Nat
      /\ DOMAIN a = 1 .. Len(a) /\ DOMAIN b = 1 .. Len(b)
  OBVIOUS
<1>2. \A i \in 1 .. Len(a) : i \in DOMAIN c /\ c[i] = a[i]
  BY <1>1
<1>3. \A i \in 1 .. Len(b) : Len(a) + i \in DOMAIN c /\ c[Len(a) + i] = b[i]
  BY <1>1
<1>4. \A i \in DOMAIN c : (i \in 1 .. Len(a) /\ c[i] = a[i])
                          \/ (i - Len(a) \in 1 .. Len(b) /\ i > Len(a) /\ c[i] = b[i - Len(a)])
  BY <1>1, <1>2, <1>3
<1>5. Entries(c) = Entries(a) \cup Entries(b)
  <2>1. Entries(a) \subseteq Entries(c)
    BY <1>1, <1>2 DEF Entries
  <2>2. ASSUME NEW x \in Entries(b) PROVE x \in Entries(c)
    <3>1. PICK j \in DOMAIN b : x = b[j]
      BY Zenon DEF Entries
    <3>2. Len(a) + j \in DOMAIN c /\ c[Len(a) + j] = x
      BY <1>1, <1>3, <3>1, ZenonT(60)
    <3> QED
      BY <3>2, Zenon DEF Entries
  <2>3. \A i \in DOMAIN c : c[i] \in Entries(a) \/ c[i] \in Entries(b)
    BY <1>1, <1>4 DEF Entries
  <2>4. \A x \in Entries(c) : x \in Entries(a) \/ x \in Entries(b)
    BY <2>3, ZenonT(60) DEF Entries
  <2> QED
    BY <2>1, <2>2, <2>4, ZenonT(60)
<1>6. ASSUME NEW i \in DOMAIN c, NEW j \in DOMAIN c, c[i] = c[j]
      PROVE  i = j
  <2>1. i \in Int /\ j \in Int /\ Len(a) \in Int
    BY <1>1
  <2>2. CASE i \in 1 .. Len(a) /\ c[i] = a[i] /\ j \in 1 .. Len(a) /\ c[j] = a[j]
    BY <1>1, <1>6, <2>2, Zenon
  <2>3. CASE /\ i - Len(a) \in 1 .. Len(b) /\ c[i] = b[i - Len(a)]
             /\ j - Len(a) \in 1 .. Len(b) /\ c[j] = b[j - Len(a)]
    <3>1. i - Len(a) = j - Len(a)
      BY <1>1, <1>6, <2>3, Zenon
    <3> QED
      BY <2>1, <3>1
  <2>4. CASE i \in 1 .. Len(a) /\ c[i] = a[i] /\ j - Len(a) \in 1 .. Len(b) /\ c[j] = b[j - Len(a)]
    BY <1>1, <1>6, <2>4, Zenon
  <2>5. CASE j \in 1 .. Len(a) /\ c[j] = a[j] /\ i - Len(a) \in 1 .. Len(b) /\ c[i] = b[i - Len(a)]
    BY <1>1, <1>6, <2>5, Zenon
  <2> QED
    BY <1>4, <2>2, <2>3, <2>4, <2>5, Zenon
<1> QED
  BY <1>1, <1>5, <1>6, ZenonT(60)

LEMMA KeysShardKeeps ==
  ASSUME MapInv, NEW p \in Proc, KeysShard(p)
  PROVE  MapInv'
<1> DEFINE s == at[p]
           b == KeySeq(data[s])
<1>1. /\ pc[p] = "scan" /\ at[p] <= NumShards /\ keys' = [keys EXCEPT ![p] = keys[p] \o b]
      /\ at' = [at EXCEPT ![p] = at[p] + 1]
      /\ UNCHANGED <<kind, data, writer, count, pc, call, ret, diff, stay, seen>>
  BY Zenon DEF KeysShard, shardVars, KeySeq
<1>2. MapTypeOK /\ \A t \in Shard : Sound(t)
  BY Zenon DEF MapInv
<1>3. Phase(p) /\ Scanned(p) /\ call[p] = Scan
  BY <1>1, Zenon DEF MapInv, Phase
<1>4. s \in Shard /\ s \in Nat /\ s + 1 \in Nat \ {0}
  BY <1>1, <1>2, MapAssumption DEF MapTypeOK, Shard
<1>5. data[s] \in Seq(Entry) /\ Unique(data[s]) /\ keys[p] \in Seq(Key)
  BY <1>2, <1>4, Zenon DEF MapTypeOK, Sound
<1>6. /\ b \in Seq(Key) /\ {b[i] : i \in DOMAIN b} = KeysOf(data[s])
      /\ \A i, j \in DOMAIN b : b[i] = b[j] => i = j
  <2>1. b \in Seq(Key)
    BY <1>5, KeySeqKeys, Zenon
  <2>2. {b[i] : i \in DOMAIN b} = KeysOf(data[s])
    BY <1>5, KeySeqKeys, Zenon
  <2>3. \A i, j \in DOMAIN b : b[i] = b[j] => i = j
    BY <1>5, KeySeqKeys, Zenon
  <2> QED
    BY <2>1, <2>2, <2>3, Zenon
<1>7. \A k \in KeysOf(data[s]) : ShardOf[k] = s /\ k \in Present /\ k \in seen[p]
  BY <1>1, <1>2, <1>3, <1>4, PresentKeys, Zenon DEF Sound, Scanned
<1>8. \A i \in DOMAIN keys[p], j \in DOMAIN b : keys[p][i] # b[j]
  <2>1. \A k \in Collected(p) : ShardOf[k] < s
    BY <1>1, <1>3, Zenon DEF Scanned
  <2>2. \A j \in DOMAIN b : ShardOf[b[j]] = s
    BY <1>6, <1>7, Zenon
  <2>3. \A i \in DOMAIN keys[p] : ShardOf[keys[p][i]] < s
    BY <2>1, Zenon DEF Collected
  <2> QED
    BY <1>4, <2>2, <2>3
<1>9. \A i, j \in DOMAIN keys[p] : keys[p][i] = keys[p][j] => i = j
  BY <1>3, Zenon DEF Scanned
<1> PICK t : t = keys[p] \o b
  BY Zenon
<1> HIDE DEF b
<1>10. t \in Seq(Key)
  BY <1>5, <1>6
<1>11. \A i, j \in DOMAIN t : t[i] = t[j] => i = j
  <2>1. \A i, j \in DOMAIN (keys[p] \o b) : (keys[p] \o b)[i] = (keys[p] \o b)[j] => i = j
    BY <1>5, <1>6, <1>8, <1>9, Appended, Zenon
  <2> QED
    BY <2>1, Zenon
<1>12. Entries(t) = Entries(keys[p]) \cup Entries(b)
  BY <1>5, <1>6, <1>8, <1>9, Appended, Zenon
<1>13. keys'[p] = t /\ at'[p] = s + 1 /\ MapTypeOK'
  <2>1. keys' = [keys EXCEPT ![p] = t]
    BY <1>1, Zenon
  <2> QED
    BY <1>1, <1>2, <1>4, <1>10, <2>1, ZenonT(60) DEF MapTypeOK
<1>14. Collected(p)' = Collected(p) \cup KeysOf(data[s])
  <2>1. Collected(p)' = Entries(t) /\ Collected(p) = Entries(keys[p])
    BY <1>13, Zenon DEF Collected, Entries
  <2>2. Entries(b) = KeysOf(data[s])
    BY <1>6, Zenon DEF Entries
  <2> QED
    BY <1>12, <2>1, <2>2, Zenon
<1>15. Elsewhere(p)
  BY <1>1, <1>2, Zenon DEF Elsewhere, MapTypeOK
<1>16. Phase(p)'
  BY <1>1, <1>3, Zenon DEF Phase, Inside
<1>17. Present' = Present
  BY <1>1 DEF Present
<1>18. \A k \in Collected(p)' : ShardOf[k] < s + 1
  <2>1. \A k \in Collected(p) : k \in Key
    BY <1>5 DEF Collected
  <2>3. \A k \in Collected(p) : ShardOf[k] < s
    BY <1>1, <1>3, Zenon DEF Scanned
  <2>2. \A k \in Key : ShardOf[k] \in Int
    BY MapAssumption
  <2> QED
    BY <1>4, <1>7, <1>14, <2>1, <2>2, <2>3
<1>19. \A k \in stay[p] : ShardOf[k] < s + 1 => k \in Collected(p)'
  <2> SUFFICES ASSUME NEW k \in stay[p], ShardOf[k] < s + 1
               PROVE  k \in Collected(p)'
    BY Zenon
  <2>1. k \in Present /\ k \in Key /\ (ShardOf[k] < s => k \in Collected(p))
    BY <1>1, <1>2, <1>3, Zenon DEF Scanned, MapTypeOK
  <2>2. ShardOf[k] \in Int /\ k \in KeysOf(data[ShardOf[k]])
    BY <1>2, <2>1, PresentKeys, MapAssumption
  <2>3. ShardOf[k] < s \/ ShardOf[k] = s
    BY <1>4, <2>2
  <2> QED
    BY <1>14, <2>1, <2>2, <2>3, Zenon
<1>20. Scanned(p)'
  BY <1>1, <1>3, <1>7, <1>11, <1>13, <1>14, <1>17, <1>18, <1>19, ZenonT(60) DEF Scanned
<1>21. UNCHANGED <<shardVars, count>> /\ ~Inside(p) /\ ~Inside(p)'
  BY <1>1, Zenon DEF shardVars, Inside
<1> QED
  BY <1>13, <1>15, <1>16, <1>20, <1>21, QuietStep, ZenonT(60)

\* The counter follows: p no longer has to add its difference.
LEMMA AddCountKeeps ==
  ASSUME MapInv, NEW p \in Proc, AddCount(p)
  PROVE  MapInv'
<1>1. /\ pc[p] = "count" /\ pc' = [pc EXCEPT ![p] = "convert"] /\ count' = count + diff[p]
      /\ UNCHANGED <<kind, data, writer, call, ret, diff, at, keys, stay, seen>>
  BY Zenon DEF AddCount, Goto, shardVars, scanVars
<1>2. MapTypeOK /\ Phase(p) /\ Scanned(p) /\ \A s \in Shard : Sound(s)
  BY Zenon DEF MapInv
<1>3. count \in Int /\ diff[p] \in {-1, 1} /\ count + diff[p] \in Int
  BY <1>1, <1>2 DEF MapTypeOK, Phase, Inside
<1>4. MapTypeOK' /\ pc'[p] = "convert"
  BY <1>1, <1>2, <1>3, Zenon DEF MapTypeOK
<1>5. Elsewhere(p)
  BY <1>1, <1>2, Zenon DEF Elsewhere, MapTypeOK
<1>6. Phase(p)'
  BY <1>1, <1>2, <1>4, Zenon DEF Phase, Inside
<1>7. Scanned(p)'
  BY <1>1, <1>2, <1>4, Zenon DEF Scanned, Collected, Phase
<1>8. Present' = Present
  BY <1>1 DEF Present
<1>9. IsFiniteSet(Pending(1)) /\ IsFiniteSet(Pending(-1))
  BY Zenon DEF MapInv, Counted
<1>10. /\ Cardinality(Present) \in Nat /\ Cardinality(Pending(1)) \in Nat
       /\ Cardinality(Pending(-1)) \in Nat
       /\ count = Cardinality(Present) - Cardinality(Pending(1)) + Cardinality(Pending(-1))
  BY <1>2, <1>9, PresentKeys, FS_CardinalityType, Zenon DEF MapInv, Counted
<1>11. ASSUME NEW d \in {-1, 1}
       PROVE  /\ diff[p] = d => p \in Pending(d) /\ Pending(d)' = Pending(d) \ {p}
              /\ diff[p] # d => Pending(d)' = Pending(d)
  <2>1. \A q \in Proc : diff'[q] = diff[q] /\ (q # p => pc'[q] = pc[q])
    BY <1>1, <1>5, Zenon DEF Elsewhere
  <2> QED
    BY <1>1, <1>4, <2>1, Zenon DEF Pending
<1>12. Counted'
  <2>1. CASE diff[p] = 1
    <3>1. p \in Pending(1) /\ Pending(1)' = Pending(1) \ {p} /\ Pending(-1)' = Pending(-1)
      BY <1>11, <2>1
    <3>2. IsFiniteSet(Pending(1)') /\ Cardinality(Pending(1)') = Cardinality(Pending(1)) - 1
      BY <1>9, <3>1, FS_RemoveElement, Zenon
    <3> QED
      BY <1>1, <1>8, <1>9, <1>10, <2>1, <3>1, <3>2 DEF Counted
  <2>2. CASE diff[p] = -1
    <3>1. p \in Pending(-1) /\ Pending(-1)' = Pending(-1) \ {p} /\ Pending(1)' = Pending(1)
      BY <1>11, <2>2
    <3>2. IsFiniteSet(Pending(-1)') /\ Cardinality(Pending(-1)') = Cardinality(Pending(-1)) - 1
      BY <1>9, <3>1, FS_RemoveElement, Zenon
    <3> QED
      BY <1>1, <1>8, <1>9, <1>10, <2>2, <3>1, <3>2 DEF Counted
  <2> QED
    BY <1>3, <2>1, <2>2, Zenon
<1>13. /\ UNCHANGED shardVars /\ (Inside(p)' <=> Inside(p))
       /\ (Inside(p) => call'[p] = call[p] /\ diff'[p] = diff[p])
  BY <1>1, <1>4, Zenon DEF shardVars, Inside
<1> QED
  BY <1>4, <1>5, <1>6, <1>7, <1>12, <1>13, OwnStep, Zenon

=============================================================================
