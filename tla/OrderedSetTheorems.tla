------------------------- MODULE OrderedSetTheorems -------------------------
(* What the operations of OrderedSet return, for sets of any size.          *)
EXTENDS OrderedSet, TLAPS

(* Cutting position k out of a sequence (container/list's Remove) gives a   *)
(* sequence of the other elements.                                          *)
LEMMA WithoutType ==
    ASSUME NEW S, NEW o \in Seq(S), NEW k \in DOMAIN o
    PROVE  /\ Without(o, k) \in Seq(S)
           /\ Len(Without(o, k)) = Len(o) - 1
           /\ Elements(Without(o, k)) \subseteq Elements(o)
<1> DEFINE w == Without(o, k)
<1>1. Len(o) \in Nat /\ DOMAIN o = 1 .. Len(o) /\ Len(o) - 1 \in Nat
  OBVIOUS
<1>2. \A i \in 1 .. Len(o) - 1 : w[i] \in Elements(o) /\ w[i] \in S
  BY <1>1 DEF Without, Elements
<1>3. w \in Seq(S) /\ Len(w) = Len(o) - 1 /\ DOMAIN w = 1 .. Len(o) - 1
  BY <1>1, <1>2 DEF Without
<1>4. QED
  BY <1>2, <1>3 DEF Elements

(* Without keeps the elements distinct and removes exactly the k-th one.    *)
LEMMA WithoutUnique ==
    ASSUME NEW S, NEW o \in Seq(S), NEW k \in DOMAIN o, Unique(o)
    PROVE  /\ Unique(Without(o, k))
           /\ Elements(Without(o, k)) = Elements(o) \ {o[k]}
<1> DEFINE w == Without(o, k)
<1>1. Len(o) \in Nat /\ DOMAIN o = 1 .. Len(o) /\ DOMAIN w = 1 .. Len(o) - 1
  BY DEF Without
<1>2. \A i \in 1 .. Len(o) - 1 : w[i] = IF i < k THEN o[i] ELSE o[i + 1]
  BY DEF Without
<1> HIDE DEF w
<1>3. Unique(w)
  <2>1. SUFFICES ASSUME NEW i \in DOMAIN w, NEW j \in DOMAIN w, w[i] = w[j]
                 PROVE  i = j
    BY DEF Unique
  <2>2. PICK a \in DOMAIN o : w[i] = o[a] /\ a = IF i < k THEN i ELSE i + 1
    BY <1>1, <1>2
  <2>3. PICK b \in DOMAIN o : w[j] = o[b] /\ b = IF j < k THEN j ELSE j + 1
    BY <1>1, <1>2
  <2>4. a = b
    BY <2>1, <2>2, <2>3 DEF Unique
  <2>5. QED
    BY <1>1, <2>2, <2>3, <2>4
<1>4. ASSUME NEW x \in Elements(w) PROVE x \in Elements(o) \ {o[k]}
  BY <1>1, <1>2 DEF Elements, Unique
<1>5. ASSUME NEW x \in Elements(o) \ {o[k]} PROVE x \in Elements(w)
  <2>1. PICK i \in DOMAIN o : o[i] = x
    BY DEF Elements
  <2>2. i # k
    BY <2>1
  <2>3. CASE i < k
    BY <1>1, <1>2, <2>1, <2>3 DEF Elements
  <2>4. CASE i > k
    <3>1. i - 1 \in DOMAIN w /\ w[i - 1] = o[i]
      BY <1>1, <1>2, <2>1, <2>4
    <3>2. QED
      BY <2>1, <3>1 DEF Elements
  <2>5. QED
    BY <1>1, <2>1, <2>2, <2>3, <2>4
<1>6. QED
  BY <1>3, <1>4, <1>5 DEF w

(* Delete(v) returns a list of the same kind of elements.                   *)
LEMMA DeleteType ==
    ASSUME NEW S, NEW o \in Seq(S), NEW v
    PROVE  Delete(o, v) \in Seq(S)
<1>1. CASE IsSet(o, v)
  <2>1. PICK k \in DOMAIN o : o[k] = v
    BY <1>1 DEF IsSet, Elements
  <2>2. (CHOOSE i \in DOMAIN o : o[i] = v) \in DOMAIN o
    BY <2>1
  <2>3. QED
    BY <1>1, <2>2, WithoutType DEF Delete
<1>2. CASE ~IsSet(o, v)
  BY <1>2 DEF Delete
<1>3. QED
  BY <1>1, <1>2

(* Delete(v) leaves a duplicate-free list of the other elements.            *)
LEMMA DeleteUnique ==
    ASSUME NEW S, NEW o \in Seq(S), NEW v, Unique(o)
    PROVE  Unique(Delete(o, v)) /\ Elements(Delete(o, v)) = Elements(o) \ {v}
<1>1. CASE IsSet(o, v)
  <2> DEFINE k == CHOOSE i \in DOMAIN o : o[i] = v
  <2>1. k \in DOMAIN o /\ o[k] = v
    BY <1>1 DEF IsSet, Elements
  <2>2. Delete(o, v) = Without(o, k)
    BY <1>1 DEF Delete
  <2> HIDE DEF k
  <2>3. QED
    BY <2>1, <2>2, WithoutUnique
<1>2. CASE ~IsSet(o, v)
  BY <1>2 DEF Delete, IsSet
<1>3. QED
  BY <1>1, <1>2

(* PushFront of an element that is not there yet.                           *)
LEMMA ConsUnique ==
    ASSUME NEW S, NEW o \in Seq(S), NEW v \in S
    PROVE  /\ <<v>> \o o \in Seq(S)
           /\ Elements(<<v>> \o o) = Elements(o) \cup {v}
           /\ Unique(o) /\ v \notin Elements(o) => Unique(<<v>> \o o)
<1> DEFINE c == <<v>> \o o
<1>1. c \in Seq(S) /\ Len(c) = Len(o) + 1 /\ DOMAIN c = 1 .. Len(o) + 1 /\ DOMAIN o = 1 .. Len(o)
  OBVIOUS
<1>2. c[1] = v /\ \A i \in 1 .. Len(o) : c[i + 1] = o[i]
  OBVIOUS
<1>3. \A i \in DOMAIN c : i = 1 \/ (i - 1 \in DOMAIN o /\ c[i] = o[i - 1])
  BY <1>1, <1>2
<1>4. Elements(c) = Elements(o) \cup {v}
  <2>1. ASSUME NEW x \in Elements(c) PROVE x \in Elements(o) \cup {v}
    BY <1>2, <1>3 DEF Elements
  <2>2. ASSUME NEW x \in Elements(o) PROVE x \in Elements(c)
    <3>1. PICK i \in DOMAIN o : o[i] = x
      BY DEF Elements
    <3>2. i + 1 \in DOMAIN c /\ c[i + 1] = x
      BY <1>1, <1>2, <3>1
    <3>3. QED
      BY <3>2 DEF Elements
  <2>3. v \in Elements(c)
    <3>1. 1 \in DOMAIN c
      BY <1>1
    <3>2. QED
      BY <1>2, <3>1 DEF Elements
  <2>4. QED
    BY <2>1, <2>2, <2>3
<1>5. ASSUME Unique(o), v \notin Elements(o) PROVE Unique(c)
  <2>1. \A i \in DOMAIN o : o[i] # v
    BY <1>5 DEF Elements
  <2>2. QED
    BY <1>1, <1>2, <1>3, <1>5, <2>1 DEF Unique
<1>6. QED
  BY <1>1, <1>4, <1>5

(* PushBack of an element that is not there yet.                            *)
LEMMA AppendUnique ==
    ASSUME NEW S, NEW o \in Seq(S), NEW v \in S
    PROVE  /\ Append(o, v) \in Seq(S)
           /\ Elements(Append(o, v)) = Elements(o) \cup {v}
           /\ Unique(o) /\ v \notin Elements(o) => Unique(Append(o, v))
<1> DEFINE c == Append(o, v)
<1>1. c \in Seq(S) /\ DOMAIN c = 1 .. Len(o) + 1 /\ DOMAIN o = 1 .. Len(o) /\ Len(o) \in Nat
  OBVIOUS
<1>2. c[Len(o) + 1] = v /\ \A i \in 1 .. Len(o) : c[i] = o[i]
  OBVIOUS
<1>3. Elements(c) = Elements(o) \cup {v}
  <2>1. ASSUME NEW x \in Elements(c) PROVE x \in Elements(o) \cup {v}
    BY <1>1, <1>2 DEF Elements
  <2>2. ASSUME NEW x \in Elements(o) PROVE x \in Elements(c)
    BY <1>1, <1>2 DEF Elements
  <2>3. v \in Elements(c)
    <3>1. Len(o) + 1 \in DOMAIN c
      BY <1>1
    <3>2. QED
      BY <1>2, <3>1 DEF Elements
  <2>4. QED
    BY <2>1, <2>2, <2>3
<1>4. ASSUME Unique(o), v \notin Elements(o) PROVE Unique(c)
  <2>1. \A i \in DOMAIN o : o[i] # v
    BY <1>4 DEF Elements
  <2>2. QED
    BY <1>1, <1>2, <1>4, <2>1 DEF Unique
<1>5. QED
  BY <1>1, <1>3, <1>4

(* Add(v, true) keeps the list free of duplicates and adds nothing but v.   *)
LEMMA AddFrontUnique ==
    ASSUME NEW S, NEW o \in Seq(S), NEW v \in S
    PROVE  /\ AddFront(o, v) \in Seq(S)
           /\ Unique(o) => /\ Unique(AddFront(o, v))
                           /\ Elements(AddFront(o, v)) = Elements(o) \cup {v}
<1>1. Delete(o, v) \in Seq(S)
  BY DeleteType
<1>2. AddFront(o, v) \in Seq(S)
  BY <1>1, ConsUnique DEF AddFront
<1>3. ASSUME Unique(o)
      PROVE  Unique(AddFront(o, v)) /\ Elements(AddFront(o, v)) = Elements(o) \cup {v}
  <2>1. Unique(Delete(o, v)) /\ Elements(Delete(o, v)) = Elements(o) \ {v}
    BY <1>3, DeleteUnique
  <2>2. QED
    BY <1>1, <2>1, ConsUnique DEF AddFront
<1>4. QED
  BY <1>2, <1>3

(* So does Add(v, false).                                                   *)
LEMMA AddBackUnique ==
    ASSUME NEW S, NEW o \in Seq(S), NEW v \in S
    PROVE  /\ AddBack(o, v) \in Seq(S)
           /\ Elements(AddBack(o, v)) = Elements(o) \cup {v}
           /\ Unique(o) => Unique(AddBack(o, v))
BY AppendUnique DEF AddBack, IsSet

(* Front() takes the first element off, and only that one.                  *)
LEMMA FrontUnique ==
    ASSUME NEW S, NEW o \in Seq(S), o # <<>>
    PROVE  /\ Head(o) \in S /\ Head(o) \in Elements(o) /\ Tail(o) \in Seq(S)
           /\ Elements(Tail(o)) \subseteq Elements(o)
           /\ Unique(o) => Unique(Tail(o)) /\ Elements(Tail(o)) = Elements(o) \ {Head(o)}
<1> DEFINE t == Tail(o)
<1>1. /\ Len(o) \in Nat /\ Len(o) # 0 /\ DOMAIN o = 1 .. Len(o)
      /\ t \in Seq(S) /\ DOMAIN t = 1 .. Len(o) - 1 /\ Head(o) = o[1]
  OBVIOUS
<1>2. \A i \in 1 .. Len(o) - 1 : t[i] = o[i + 1]
  OBVIOUS
<1>3. 1 \in DOMAIN o /\ Head(o) \in S /\ Head(o) \in Elements(o)
  BY <1>1 DEF Elements
<1>4. Elements(t) \subseteq Elements(o)
  <2> SUFFICES ASSUME NEW x \in Elements(t) PROVE x \in Elements(o)
    OBVIOUS
  <2>1. PICK i \in DOMAIN t : t[i] = x
    BY DEF Elements
  <2>2. i + 1 \in DOMAIN o /\ o[i + 1] = x
    BY <1>1, <1>2, <2>1
  <2>3. QED
    BY <2>2 DEF Elements
<1>5. ASSUME Unique(o) PROVE Unique(t) /\ Elements(t) = Elements(o) \ {Head(o)}
  <2>1. Unique(t)
    BY <1>1, <1>2, <1>5 DEF Unique
  <2>2. Head(o) \notin Elements(t)
    BY <1>1, <1>2, <1>5 DEF Unique, Elements
  <2>3. ASSUME NEW x \in Elements(o), x # Head(o) PROVE x \in Elements(t)
    <3>1. PICK i \in DOMAIN o : o[i] = x
      BY DEF Elements
    <3>2. i - 1 \in DOMAIN t /\ t[i - 1] = x
      BY <1>1, <1>2, <2>3, <3>1
    <3>3. QED
      BY <3>2 DEF Elements
  <2>4. QED
    BY <1>4, <2>1, <2>2, <2>3
<1>6. QED
  BY <1>1, <1>3, <1>4, <1>5

(* Appending one duplicate-free list to another.                            *)
LEMMA ConcatUnique ==
    ASSUME NEW S, NEW o \in Seq(S), NEW s \in Seq(S)
    PROVE  /\ o \o s \in Seq(S)
           /\ Elements(o \o s) = Elements(o) \cup Elements(s)
           /\ Unique(o) /\ Unique(s) /\ Elements(o) \cap Elements(s) = {} => Unique(o \o s)
<1> DEFINE c == o \o s
<1>1. /\ c \in Seq(S) /\ DOMAIN c = 1 .. Len(o) + Len(s) /\ Len(o) \in Nat /\ Len(s) \in Nat
      /\ DOMAIN o = 1 .. Len(o) /\ DOMAIN s = 1 .. Len(s)
  OBVIOUS
<1>2. /\ \A i \in 1 .. Len(o) : c[i] = o[i]
      /\ \A i \in 1 .. Len(s) : c[Len(o) + i] = s[i]
  OBVIOUS
<1>3. \A i \in DOMAIN c : \/ i \in DOMAIN o /\ c[i] = o[i]
                          \/ i > Len(o) /\ i - Len(o) \in DOMAIN s /\ c[i] = s[i - Len(o)]
  <2> SUFFICES ASSUME NEW i \in DOMAIN c, i \notin DOMAIN o
               PROVE  i > Len(o) /\ i - Len(o) \in DOMAIN s /\ c[i] = s[i - Len(o)]
    BY <1>2, <1>1
  <2>1. i > Len(o) /\ i - Len(o) \in 1 .. Len(s)
    BY <1>1
  <2>2. c[Len(o) + (i - Len(o))] = s[i - Len(o)]
    BY <1>2, <2>1
  <2>3. QED
    BY <1>1, <2>1, <2>2
<1>4. Elements(c) = Elements(o) \cup Elements(s)
  <2>1. ASSUME NEW x \in Elements(c) PROVE x \in Elements(o) \cup Elements(s)
    BY <1>3 DEF Elements
  <2>2. ASSUME NEW x \in Elements(o) PROVE x \in Elements(c)
    BY <1>1, <1>2 DEF Elements
  <2>3. ASSUME NEW x \in Elements(s) PROVE x \in Elements(c)
    <3>1. PICK i \in DOMAIN s : s[i] = x
      BY DEF Elements
    <3>2. Len(o) + i \in DOMAIN c /\ c[Len(o) + i] = x
      BY <1>1, <1>2, <3>1
    <3>3. QED
      BY <3>2 DEF Elements
  <2>4. QED
    BY <2>1, <2>2, <2>3
<1>5. ASSUME Unique(o), Unique(s), Elements(o) \cap Elements(s) = {} PROVE Unique(c)
  <2>1. \A i \in DOMAIN o, j \in DOMAIN s : o[i] # s[j]
    BY <1>5 DEF Elements
  <2>2. QED
    BY <1>1, <1>3, <1>5, <2>1 DEF Unique
<1>6. QED
  BY <1>1, <1>4, <1>5

(* A prefix, as desiredIPs cuts it out of the list of the spec.             *)
LEMMA PrefixElements ==
    ASSUME NEW S, NEW o \in Seq(S), NEW n \in Nat, n <= Len(o)
    PROVE  SubSeq(o, 1, n) \in Seq(S) /\ Elements(SubSeq(o, 1, n)) \subseteq Elements(o)
<1>1. SubSeq(o, 1, n) \in Seq(S) /\ DOMAIN SubSeq(o, 1, n) = 1 .. n
  OBVIOUS
<1>2. \A i \in 1 .. n : SubSeq(o, 1, n)[i] = o[i]
  OBVIOUS
<1>3. QED
  BY <1>1, <1>2 DEF Elements
=============================================================================
