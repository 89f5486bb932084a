---------------------------- MODULE SchedTypes ----------------------------
(***************************************************************************)
(* The types of the scheduler's variables and the control flow of one CPU, *)
(* for any number of tasks and of CPUs, with the facts about lists of      *)
(* tasks that every proof about the scheduler rests on.                    *)
(***************************************************************************)
EXTENDS Sched, WellFoundedInduction, TLAPS

(* Lists of tasks: membership, and no entry twice. *)
In(x, l) == \E i \in DOMAIN l : l[i] = x
Inj(l) == \A i, j \in DOMAIN l : l[i] = l[j] => i = j

LEMMA AppendFacts ==
    ASSUME NEW S, NEW l \in Seq(S), NEW e \in S
    PROVE  /\ Append(l, e) \in Seq(S)
           /\ \A x : In(x, Append(l, e)) <=> In(x, l) \/ x = e
           /\ Inj(l) /\ ~In(e, l) => Inj(Append(l, e))
<1> DEFINE m == Append(l, e)
<1>1. /\ m \in Seq(S) /\ Len(l) \in Nat /\ DOMAIN l = 1 .. Len(l) /\ DOMAIN m = 1 .. Len(l) + 1
      /\ \A i \in 1 .. Len(l) : m[i] = l[i]
      /\ m[Len(l) + 1] = e
  OBVIOUS
<1> HIDE DEF m
<1>2. \A x : In(x, m) <=> In(x, l) \/ x = e
  BY <1>1 DEF In
<1>3. Inj(l) /\ ~In(e, l) => Inj(m)
  BY <1>1 DEF In, Inj
<1> QED
  BY <1>1, <1>2, <1>3 DEF m

LEMMA TailFacts ==
    ASSUME NEW S, NEW l \in Seq(S), l # <<>>
    PROVE  /\ Head(l) \in S /\ Tail(l) \in Seq(S) /\ In(Head(l), l)
           /\ Inj(l) => /\ Inj(Tail(l))
                        /\ \A x : In(x, Tail(l)) <=> In(x, l) /\ x # Head(l)
           /\ Tail(l) = <<>> <=> Len(l) = 1
<1> DEFINE m == Tail(l)
           h == Head(l)
<1>1. /\ m \in Seq(S) /\ Len(l) \in Nat /\ Len(l) > 0 /\ DOMAIN l = 1 .. Len(l) /\ DOMAIN m = 1 .. Len(l) - 1
      /\ \A i \in 1 .. Len(l) - 1 : m[i] = l[i + 1]
      /\ l[1] = h /\ h \in S
  OBVIOUS
<1>2. Tail(l) = <<>> <=> Len(l) = 1
  <2>1. Len(Tail(l)) = Len(l) - 1 /\ Len(l) \in Nat /\ Tail(l) \in Seq(S)
    OBVIOUS
  <2>2. \A k \in Seq(S) : k = <<>> <=> Len(k) = 0
    OBVIOUS
  <2>3. Tail(l) = <<>> <=> Len(Tail(l)) = 0
    BY <2>1, <2>2, Zenon
  <2> QED
    BY <2>1, <2>3
<1> HIDE DEF m, h
<1>3. In(h, l)
  BY <1>1 DEF In
<1>4. ASSUME Inj(l) PROVE Inj(m)
  <2>1. \A i \in 1 .. Len(l) - 1 : i + 1 \in DOMAIN l
    BY <1>1
  <2>2. \A i, j \in 1 .. Len(l) - 1 : m[i] = m[j] => i + 1 = j + 1
    BY <1>1, <1>4, <2>1, Zenon DEF Inj
  <2> QED
    BY <1>1, <2>2 DEF Inj
<1>5. ASSUME Inj(l), NEW x PROVE In(x, m) <=> In(x, l) /\ x # h
  <2>1. ASSUME In(x, m) PROVE In(x, l) /\ x # h
    <3>1. PICK i \in 1 .. Len(l) - 1 : m[i] = x
      BY <1>1, <2>1 DEF In
    <3>2. i + 1 \in DOMAIN l /\ 1 \in DOMAIN l /\ i + 1 # 1 /\ l[i + 1] = x
      BY <1>1, <3>1
    <3> QED
      BY <1>1, <1>5, <3>2 DEF In, Inj
  <2>2. ASSUME In(x, l), x # h PROVE In(x, m)
    <3>1. PICK i \in 1 .. Len(l) : l[i] = x
      BY <1>1, <2>2 DEF In
    <3>2. i # 1
      BY <1>1, <2>2, <3>1
    <3>3. i - 1 \in 1 .. Len(l) - 1 /\ (i - 1) + 1 = i
      BY <1>1, <3>2
    <3> QED
      BY <1>1, <3>1, <3>3, Zenon DEF In
  <2> QED
    BY <2>1, <2>2
<1> QED
  BY <1>1, <1>2, <1>3, <1>4, <1>5 DEF m, h

LEMMA ConcatFacts ==
    ASSUME NEW S, NEW k \in Seq(S), NEW l \in Seq(S)
    PROVE  /\ k \o l \in Seq(S)
           /\ \A x : In(x, k \o l) <=> In(x, k) \/ In(x, l)
           /\ Inj(k) /\ Inj(l) /\ (\A x : ~(In(x, k) /\ In(x, l))) => Inj(k \o l)
<1> DEFINE m == k \o l
<1>1. /\ m \in Seq(S) /\ Len(k) \in Nat /\ Len(l) \in Nat
      /\ DOMAIN k = 1 .. Len(k) /\ DOMAIN l = 1 .. Len(l) /\ DOMAIN m = 1 .. Len(k) + Len(l)
      /\ \A i \in 1 .. Len(k) : m[i] = k[i]
      /\ \A i \in 1 .. Len(k) + Len(l) : i > Len(k) => m[i] = l[i - Len(k)]
  OBVIOUS
<1> HIDE DEF m
<1>2. ASSUME NEW x PROVE In(x, m) <=> In(x, k) \/ In(x, l)
  <2>1. ASSUME In(x, m) PROVE In(x, k) \/ In(x, l)
    <3>1. PICK i \in 1 .. Len(k) + Len(l) : m[i] = x
      BY <1>1, <2>1 DEF In
    <3>2. CASE i <= Len(k)
      <4>1. i \in DOMAIN k /\ k[i] = x
        BY <1>1, <3>1, <3>2
      <4> QED
        BY <4>1 DEF In
    <3>3. CASE i > Len(k)
      <4>1. i - Len(k) \in DOMAIN l /\ l[i - Len(k)] = x
        BY <1>1, <3>1, <3>3
      <4> QED
        BY <4>1 DEF In
    <3> QED
      BY <1>1, <3>2, <3>3
  <2>2. ASSUME In(x, k) PROVE In(x, m)
    BY <1>1, <2>2 DEF In
  <2>3. ASSUME In(x, l) PROVE In(x, m)
    <3>1. PICK i \in 1 .. Len(l) : l[i] = x
      BY <1>1, <2>3 DEF In
    <3>2. i + Len(k) \in DOMAIN m /\ i + Len(k) > Len(k) /\ (i + Len(k)) - Len(k) = i
      BY <1>1
    <3> QED
      BY <1>1, <3>1, <3>2, Zenon DEF In
  <2> QED
    BY <2>1, <2>2, <2>3
<1>3. ASSUME Inj(k), Inj(l), \A x : ~(In(x, k) /\ In(x, l)), NEW i \in DOMAIN m, NEW j \in DOMAIN m, m[i] = m[j]
      PROVE  i = j
  <2>1. \A n \in DOMAIN m : \/ n \in DOMAIN k /\ m[n] = k[n]
                            \/ n > Len(k) /\ n - Len(k) \in DOMAIN l /\ m[n] = l[n - Len(k)]
    BY <1>1
  <2>2. CASE i \in DOMAIN k /\ m[i] = k[i] /\ j \in DOMAIN k /\ m[j] = k[j]
    BY <1>3, <2>2, Zenon DEF Inj
  <2>3. CASE i - Len(k) \in DOMAIN l /\ m[i] = l[i - Len(k)] /\ j - Len(k) \in DOMAIN l /\ m[j] = l[j - Len(k)]
    <3>1. i - Len(k) = j - Len(k)
      BY <1>3, <2>3, Zenon DEF Inj
    <3> QED
      BY <1>1, <3>1
  <2>4. CASE i \in DOMAIN k /\ m[i] = k[i] /\ j - Len(k) \in DOMAIN l /\ m[j] = l[j - Len(k)]
    BY <1>3, <2>4, Zenon DEF In
  <2>5. CASE j \in DOMAIN k /\ m[j] = k[j] /\ i - Len(k) \in DOMAIN l /\ m[i] = l[i - Len(k)]
    BY <1>3, <2>5, Zenon DEF In
  <2> QED
    BY <2>1, <2>2, <2>3, <2>4, <2>5
<1> QED
  BY <1>1, <1>2, <1>3 DEF m, Inj

LEMMA SplitFacts ==
    ASSUME NEW S, NEW l \in Seq(S), NEW n \in 0 .. Len(l)
    PROVE  LET a == SubSeq(l, 1, n)
               b == SubSeq(l, n + 1, Len(l))
           IN  /\ a \in Seq(S) /\ b \in Seq(S)
               /\ Len(a) = n /\ Len(b) = Len(l) - n
               /\ \A i \in 1 .. n : a[i] = l[i]
               /\ \A i \in 1 .. Len(l) - n : b[i] = l[i + n]
               /\ \A x : In(x, l) <=> In(x, a) \/ In(x, b)
               /\ Inj(l) => Inj(a) /\ Inj(b) /\ \A x : ~(In(x, a) /\ In(x, b))
<1> DEFINE a == SubSeq(l, 1, n)
           b == SubSeq(l, n + 1, Len(l))
<1>1. /\ a \in Seq(S) /\ Len(a) = n /\ DOMAIN a = 1 .. n /\ \A i \in 1 .. n : a[i] = l[i]
  OBVIOUS
<1>2. /\ b \in Seq(S) /\ Len(b) = Len(l) - n /\ DOMAIN b = 1 .. Len(l) - n
      /\ \A i \in 1 .. Len(l) - n : b[i] = l[i + n]
  OBVIOUS
<1>3. Len(l) \in Nat /\ DOMAIN l = 1 .. Len(l)
  OBVIOUS
<1> HIDE DEF a, b
<1>4. ASSUME NEW x PROVE In(x, l) <=> In(x, a) \/ In(x, b)
  <2>1. ASSUME In(x, l) PROVE In(x, a) \/ In(x, b)
    <3>1. PICK i \in 1 .. Len(l) : l[i] = x
      BY <1>3, <2>1 DEF In
    <3>2. CASE i <= n
      BY <1>1, <3>1, <3>2 DEF In
    <3>3. CASE i > n
      <4>1. i - n \in 1 .. Len(l) - n /\ (i - n) + n = i
        BY <1>3, <3>3
      <4> QED
        BY <1>2, <3>1, <4>1, Zenon DEF In
    <3> QED
      BY <1>3, <3>2, <3>3
  <2>2. ASSUME In(x, a) PROVE In(x, l)
    BY <1>1, <1>3, <2>2 DEF In
  <2>3. ASSUME In(x, b) PROVE In(x, l)
    <3>1. PICK i \in 1 .. Len(l) - n : b[i] = x
      BY <1>2, <2>3 DEF In
    <3>2. i + n \in DOMAIN l
      BY <1>3
    <3> QED
      BY <1>2, <3>1, <3>2 DEF In
  <2> QED
    BY <2>1, <2>2, <2>3
<1>5. ASSUME Inj(l) PROVE Inj(a) /\ Inj(b) /\ \A x : ~(In(x, a) /\ In(x, b))
  <2>1. Inj(a)
    BY <1>1, <1>3, <1>5 DEF Inj
  <2>2. Inj(b)
    <3>1. \A i \in 1 .. Len(l) - n : i + n \in DOMAIN l
      BY <1>3
    <3>2. \A i, j \in 1 .. Len(l) - n : b[i] = b[j] => i + n = j + n
      BY <1>2, <1>5, <3>1, Zenon DEF Inj
    <3> QED
      BY <1>2, <1>3, <3>2 DEF Inj
  <2>3. ASSUME NEW x, In(x, a), In(x, b) PROVE FALSE
    <3>1. PICK i \in 1 .. n : a[i] = x
      BY <1>1, <2>3 DEF In
    <3>2. PICK j \in 1 .. Len(l) - n : b[j] = x
      BY <1>2, <2>3, Zenon DEF In
    <3>3. i \in DOMAIN l /\ j + n \in DOMAIN l /\ i # j + n /\ l[i] = x /\ l[j + n] = x
      BY <1>1, <1>2, <1>3, <3>1, <3>2
    <3> QED
      BY <1>5, <3>3 DEF Inj
  <2> QED
    BY <2>1, <2>2, <2>3
<1> QED
  BY <1>1, <1>2, <1>4, <1>5 DEF a, b

LEMMA ReverseFacts ==
    ASSUME NEW S, NEW l \in Seq(S)
    PROVE  /\ Reverse(l) \in Seq(S)
           /\ Reverse(l) = <<>> <=> l = <<>>
           /\ \A x : In(x, Reverse(l)) <=> In(x, l)
           /\ Inj(l) => Inj(Reverse(l))
<1> DEFINE m == Reverse(l)
<1>1. Len(l) \in Nat /\ DOMAIN l = 1 .. Len(l)
  OBVIOUS
<1>2. \A i \in 1 .. Len(l) : (Len(l) - i) + 1 \in 1 .. Len(l) /\ (Len(l) - ((Len(l) - i) + 1)) + 1 = i
  BY <1>1
<1>3. DOMAIN m = 1 .. Len(l) /\ \A i \in 1 .. Len(l) : m[i] = l[(Len(l) - i) + 1]
  BY DEF Reverse
<1>4. m \in Seq(S) /\ Len(m) = Len(l)
  BY <1>1, <1>2 DEF Reverse
<1> HIDE DEF m
<1>5. ASSUME NEW x PROVE In(x, m) <=> In(x, l)
  <2>1. ASSUME In(x, m) PROVE In(x, l)
    BY <1>1, <1>2, <1>3, <2>1 DEF In
  <2>2. ASSUME In(x, l) PROVE In(x, m)
    BY <1>1, <1>2, <1>3, <2>2 DEF In
  <2> QED
    BY <2>1, <2>2
<1>6. ASSUME Inj(l), NEW i \in 1 .. Len(l), NEW j \in 1 .. Len(l), m[i] = m[j] PROVE i = j
  <2>1. (Len(l) - i) + 1 = (Len(l) - j) + 1
    BY <1>1, <1>2, <1>3, <1>6 DEF Inj
  <2> QED
    BY <1>1, <2>1
<1>7. m = <<>> <=> l = <<>>
  BY <1>4
<1> QED
  BY <1>3, <1>4, <1>5, <1>6, <1>7 DEF m, Inj

LEMMA InsertFacts ==
    ASSUME NEW S, NEW l \in Seq(S), NEW n \in 1 .. Len(l) + 1, NEW e \in S
    PROVE  LET m == InsertAt(l, n, e) IN
           /\ m \in Seq(S) /\ Len(m) = Len(l) + 1
           /\ \A i \in 1 .. Len(l) + 1 : m[i] = IF i < n THEN l[i] ELSE IF i = n THEN e ELSE l[i - 1]
           /\ \A x : In(x, m) <=> In(x, l) \/ x = e
           /\ Inj(l) /\ ~In(e, l) => Inj(m)
<1> DEFINE a == SubSeq(l, 1, n - 1)
           b == SubSeq(l, n, Len(l))
           m == InsertAt(l, n, e)
<1>1. n - 1 \in 0 .. Len(l) /\ (n - 1) + 1 = n
  OBVIOUS
<1>2. /\ a \in Seq(S) /\ b \in Seq(S) /\ Len(a) = n - 1 /\ Len(b) = Len(l) - (n - 1)
      /\ \A i \in 1 .. n - 1 : a[i] = l[i]
      /\ \A i \in 1 .. Len(l) - (n - 1) : b[i] = l[i + (n - 1)]
      /\ \A x : In(x, l) <=> In(x, a) \/ In(x, b)
      /\ Inj(l) => Inj(a) /\ Inj(b) /\ \A x : ~(In(x, a) /\ In(x, b))
  <2> DEFINE k == n - 1
  <2>1. k \in 0 .. Len(l) /\ k + 1 = n
    BY <1>1
  <2> HIDE DEF k
  <2>2. LET c == SubSeq(l, 1, k)
            d == SubSeq(l, k + 1, Len(l))
        IN  /\ c \in Seq(S) /\ d \in Seq(S)
            /\ Len(c) = k /\ Len(d) = Len(l) - k
            /\ \A i \in 1 .. k : c[i] = l[i]
            /\ \A i \in 1 .. Len(l) - k : d[i] = l[i + k]
            /\ \A x : In(x, l) <=> In(x, c) \/ In(x, d)
            /\ Inj(l) => Inj(c) /\ Inj(d) /\ \A x : ~(In(x, c) /\ In(x, d))
    BY <2>1, SplitFacts
  <2> QED
    BY <2>1, <2>2 DEF k
<1>3. <<e>> \in Seq(S) /\ (\A x : In(x, <<e>>) <=> x = e) /\ Inj(<<e>>)
  BY DEF In, Inj
<1> DEFINE p == a \o <<e>>
<1>4. m = p \o b
  BY DEF InsertAt
<1> HIDE DEF a, b, m
<1>a. /\ p \in Seq(S) /\ Len(p) = n
      /\ \A i \in 1 .. n - 1 : p[i] = a[i]
      /\ p[n] = e
  BY <1>1, <1>2
<1>6. \A x : In(x, p) <=> In(x, a) \/ x = e
  BY <1>2, <1>3, ConcatFacts, Zenon
<1>9. ASSUME Inj(l), ~In(e, l) PROVE Inj(p)
  <2>1. \A x : ~(In(x, a) /\ In(x, <<e>>))
    BY <1>2, <1>3, <1>9
  <2> QED
    BY <1>2, <1>3, <1>9, <2>1, ConcatFacts, Zenon
<1> HIDE DEF p
<1>5. /\ m \in Seq(S) /\ Len(m) = Len(l) + 1
      /\ \A i \in 1 .. Len(l) + 1 : m[i] = IF i < n THEN l[i] ELSE IF i = n THEN e ELSE l[i - 1]
  <2>2. /\ m \in Seq(S) /\ Len(m) = n + Len(b)
        /\ \A i \in 1 .. n : m[i] = p[i]
        /\ \A i \in 1 .. n + Len(b) : i > n => m[i] = b[i - n]
    BY <1>2, <1>4, <1>a
  <2>3. Len(l) \in Nat /\ n + Len(b) = Len(l) + 1
    BY <1>2
  <2>4. ASSUME NEW i \in 1 .. Len(l) + 1, i > n PROVE m[i] = l[i - 1]
    <3>1. i - n \in 1 .. Len(l) - (n - 1) /\ (i - n) + (n - 1) = i - 1 /\ i \in 1 .. n + Len(b)
      BY <2>3, <2>4
    <3> QED
      BY <1>2, <2>2, <2>4, <3>1, Zenon
  <2>5. ASSUME NEW i \in 1 .. Len(l) + 1, i < n PROVE m[i] = l[i]
    <3>1. i \in 1 .. n - 1 /\ i \in 1 .. n
      BY <2>3, <2>5
    <3> QED
      BY <1>2, <1>a, <2>2, <3>1
  <2>6. m[n] = e
    BY <1>a, <2>2
  <2> QED
    BY <2>2, <2>3, <2>4, <2>5, <2>6
<1>7. \A x : In(x, m) <=> In(x, l) \/ x = e
  <2>1. \A x : In(x, m) <=> In(x, p) \/ In(x, b)
    BY <1>2, <1>4, <1>a, ConcatFacts
  <2> QED
    BY <1>2, <1>6, <2>1
<1>8. ASSUME Inj(l), ~In(e, l) PROVE Inj(m)
  <2>2. \A x : ~(In(x, p) /\ In(x, b))
    BY <1>2, <1>6, <1>8
  <2> QED
    BY <1>2, <1>4, <1>8, <1>9, <1>a, <2>2, ConcatFacts
<1> QED
  BY <1>5, <1>7, <1>8 DEF m

LEMMA RemoveFacts ==
    ASSUME NEW S, NEW l \in Seq(S), NEW n \in 1 .. Len(l)
    PROVE  /\ RemoveAt(l, n) \in Seq(S)
           /\ Inj(l) => /\ Inj(RemoveAt(l, n))
                        /\ \A x : In(x, RemoveAt(l, n)) <=> In(x, l) /\ x # l[n]
<1> DEFINE a == SubSeq(l, 1, n - 1)
           c == SubSeq(l, 1, n)
           b == SubSeq(l, n + 1, Len(l))
<1>1. Len(l) \in Nat /\ n \in Nat /\ n \in 0 .. Len(l) /\ DOMAIN l = 1 .. Len(l)
  OBVIOUS
<1>2. /\ c \in Seq(S) /\ Len(c) = n /\ b \in Seq(S)
      /\ \A i \in 1 .. n : c[i] = l[i]
      /\ \A x : In(x, l) <=> In(x, c) \/ In(x, b)
      /\ Inj(l) => Inj(c) /\ Inj(b) /\ \A x : ~(In(x, c) /\ In(x, b))
  BY <1>1, SplitFacts
<1>3. a \in Seq(S) /\ DOMAIN a = 1 .. n - 1 /\ \A i \in 1 .. n - 1 : a[i] = l[i]
  OBVIOUS
<1>4. DOMAIN c = 1 .. n
  OBVIOUS
<1>5. RemoveAt(l, n) = a \o b
  BY DEF RemoveAt
<1> HIDE DEF a, b, c
<1>6. ASSUME Inj(l) PROVE Inj(a) /\ \A x : In(x, a) <=> In(x, c) /\ x # l[n]
  <2>1. Inj(a)
    BY <1>1, <1>3, <1>6 DEF Inj
  <2>2. ASSUME NEW x, In(x, a) PROVE In(x, c) /\ x # l[n]
    <3>1. PICK i \in 1 .. n - 1 : a[i] = x
      BY <1>3, <2>2 DEF In
    <3>2. i \in 1 .. n /\ i \in DOMAIN l /\ n \in DOMAIN l /\ i # n /\ l[i] = x /\ c[i] = x
      BY <1>1, <1>2, <1>3, <3>1
    <3> QED
      BY <1>4, <1>6, <3>2 DEF In, Inj
  <2>3. ASSUME NEW x, In(x, c), x # l[n] PROVE In(x, a)
    <3>1. PICK i \in 1 .. n : c[i] = x
      BY <1>4, <2>3 DEF In
    <3>2. i \in 1 .. n - 1 /\ a[i] = x
      BY <1>1, <1>2, <1>3, <2>3, <3>1
    <3> QED
      BY <1>3, <3>2 DEF In
  <2> QED
    BY <2>1, <2>2, <2>3
<1>7. a \o b \in Seq(S) /\ \A x : In(x, a \o b) <=> In(x, a) \/ In(x, b)
  BY <1>2, <1>3, ConcatFacts
<1>8. In(l[n], c)
  BY <1>1, <1>2, <1>4 DEF In
<1>9. ASSUME Inj(l) PROVE Inj(a \o b) /\ \A x : In(x, a \o b) <=> In(x, l) /\ x # l[n]
  <2>1. Inj(a \o b)
    BY <1>2, <1>3, <1>6, <1>9, ConcatFacts, Zenon
  <2>2. \A x : In(x, a \o b) <=> In(x, l) /\ x # l[n]
    BY <1>2, <1>6, <1>7, <1>8, <1>9
  <2> QED
    BY <2>1, <2>2
<1> QED
  BY <1>5, <1>7, <1>9

(* The least element that a search loop stops at. *)
LEMMA LeastNat ==
    ASSUME NEW S, S \subseteq Nat, S # {}
    PROVE  \E m \in S : \A y \in S : m <= y
<1> DEFINE R == OpToRel(<, Nat)
<1>1. IsWellFoundedOn(R, Nat)
  BY NatLessThanWellFounded, Zenon
<1> HIDE DEF R
<1>2. PICK x \in S : \A y \in S : <<y, x>> \notin R
  BY <1>1, WFMin, Zenon
<1>3. \A y \in S : ~(y < x)
  BY <1>2, Zenon DEF R, OpToRel
<1> QED
  BY <1>2, <1>3

(* Where sched_update_sleepers stops. *)
LEMMA ExpiredFacts ==
    ASSUME NEW l \in Seq(Task), NEW r \in [Task -> Int]
    PROVE  /\ Expired(l, r) \in 0 .. Len(l)
           /\ \A i \in 1 .. Expired(l, r) : r[l[i]] <= 0
           /\ Expired(l, r) < Len(l) => r[l[Expired(l, r) + 1]] > 0
<1> DEFINE S == {i \in 1 .. Len(l) + 1 : i <= Len(l) => r[l[i]] > 0}
<1>1. Len(l) \in Nat
  OBVIOUS
<1>2. Len(l) + 1 \in S /\ S \subseteq Nat
  BY <1>1
<1>3. PICK m \in S : \A y \in S : m <= y
  <2> HIDE DEF S
  <2> QED
    BY <1>2, LeastNat, Zenon
<1>4. /\ m - 1 \in 0 .. Len(l)
      /\ \A i \in 1 .. m - 1 : r[l[i]] <= 0
      /\ m - 1 < Len(l) => r[l[(m - 1) + 1]] > 0
  <2>1. m \in 1 .. Len(l) + 1 /\ (m <= Len(l) => r[l[m]] > 0) /\ (m - 1) + 1 = m
    BY <1>1
  <2>2. ASSUME NEW i \in 1 .. m - 1 PROVE r[l[i]] <= 0
    <3>1. i \in 1 .. Len(l) /\ ~(m <= i)
      BY <1>1, <2>1
    <3>2. l[i] \in Task /\ r[l[i]] \in Int
      BY <3>1
    <3>3. i \notin S
      BY <1>3, <3>1
    <3> QED
      BY <1>1, <3>1, <3>2, <3>3
  <2> QED
    BY <1>1, <2>1, <2>2
<1> HIDE DEF S
<1> DEFINE n == m - 1
<1>5. /\ n \in 0 .. Len(l)
      /\ \A i \in 1 .. n : r[l[i]] <= 0
      /\ n < Len(l) => r[l[n + 1]] > 0
  BY <1>4
<1> HIDE DEF n
<1> DEFINE P(k) == (\A i \in 1 .. k : r[l[i]] <= 0) /\ (k < Len(l) => r[l[k + 1]] > 0)
           e == CHOOSE k \in 0 .. Len(l) : P(k)
<1>6. n \in 0 .. Len(l) /\ P(n)
  BY <1>5
<1>7. Expired(l, r) = e
  BY DEF Expired
<1> HIDE DEF P
<1>8. e \in 0 .. Len(l) /\ P(e)
  BY <1>6, Zenon
<1> HIDE DEF e
<1> QED
  BY <1>7, <1>8 DEF P

(* Where sched_make_task_sleep inserts. *)
LEMMA PlaceFacts ==
    ASSUME NEW l \in Seq(Task), left \in [Task -> Int], NEW n \in Int
    PROVE  /\ Place(l, n) \in 1 .. Len(l) + 1
           /\ \A j \in 1 .. (Place(l, n) - 1) : left[l[j]] < n
           /\ Place(l, n) <= Len(l) => left[l[Place(l, n)]] >= n
<1> DEFINE S == {i \in 1 .. Len(l) + 1 : i <= Len(l) => left[l[i]] >= n}
<1>1. Len(l) \in Nat
  OBVIOUS
<1>2. Len(l) + 1 \in S /\ S \subseteq Nat
  BY <1>1
<1>3. PICK m \in S : \A y \in S : m <= y
  <2> HIDE DEF S
  <2> QED
    BY <1>2, LeastNat, Zenon
<1>4. /\ m \in 1 .. Len(l) + 1
      /\ \A i \in 1 .. (m - 1) : left[l[i]] < n
      /\ m <= Len(l) => left[l[m]] >= n
  <2>1. m \in 1 .. Len(l) + 1 /\ (m <= Len(l) => left[l[m]] >= n)
    BY <1>1
  <2>2. ASSUME NEW i \in 1 .. m - 1 PROVE left[l[i]] < n
    <3>1. i \in 1 .. Len(l) /\ ~(m <= i)
      BY <1>1, <2>1
    <3>2. l[i] \in Task /\ left[l[i]] \in Int
      BY <3>1
    <3>3. i \notin S
      BY <1>3, <3>1
    <3> QED
      BY <1>1, <3>1, <3>2, <3>3
  <2> QED
    BY <1>1, <2>1, <2>2
<1> HIDE DEF S
<1> QED
  BY <1>4, Zenon DEF Place

(* Where the steal loop starts and goes on. *)
LEMMA FirstFacts ==
    ASSUME NCpu \in Nat, NEW c \in Cpu, NEW i \in Nat, Others(c, i) # {}
    PROVE  First(Others(c, i)) \in Cpu /\ First(Others(c, i)) # c
<1> DEFINE S == Others(c, i)
<1>1. S \subseteq Nat /\ S # {} /\ \A v \in S : v \in Cpu /\ v # c
  BY DEF Others, Cpu
<1> HIDE DEF S
<1>2. PICK m \in S : \A y \in S : m <= y
  BY <1>1, LeastNat, Zenon
<1>3. First(S) \in S
  BY <1>2 DEF First
<1> QED
  BY <1>1, <1>3 DEF S

-----------------------------------------------------------------------------
(* The operations on a run queue: what they keep, add and take off.        *)
RqType == [q : [Level -> Seq(Task)], quanta : [Level -> Nat]]

LEMMA RqFacts ==
    ASSUME NEW r \in RqType, NEW p \in Level
    PROVE  /\ \A t \in Task : /\ Enqueue(r, t, p) \in RqType
                              /\ Enqueue(r, t, p).q = [r.q EXCEPT ![p] = Append(r.q[p], t)]
           /\ r.q[p] # <<>> => /\ Dequeue(r, p) \in RqType
                               /\ Dequeue(r, p).q = [r.q EXCEPT ![p] = Tail(r.q[p])]
           /\ DequeueNone(r) \in RqType /\ DequeueNone(r).q = r.q
           /\ \A i \in 1 .. Len(r.q[p]) : /\ Steal(r, p, i) \in RqType
                                          /\ Steal(r, p, i).q = [r.q EXCEPT ![p] = RemoveAt(r.q[p], i)]
           /\ PrioBoost(r) \in RqType
           /\ PrioBoost(r).q = [l \in Level |-> IF l = 0 THEN r.q[0] \o r.q[1]
                                                ELSE IF l = 1 THEN r.q[2] ELSE <<>>]
<1>1. /\ r.q \in [Level -> Seq(Task)] /\ r.quanta \in [Level -> Nat] /\ r.q[p] \in Seq(Task)
      /\ 0 \in Level /\ 1 \in Level /\ 2 \in Level /\ \A l \in Level : l \in {0, 1, 2}
  BY DEF RqType, Level, PRIO_HIGH, PRIO_LOW
<1>2. ASSUME NEW t \in Task
      PROVE  /\ Enqueue(r, t, p) \in RqType
             /\ Enqueue(r, t, p).q = [r.q EXCEPT ![p] = Append(r.q[p], t)]
  <2>1. Append(r.q[p], t) \in Seq(Task)
    BY <1>1
  <2> QED
    BY <1>1, <2>1 DEF RqType, Enqueue
<1>3. ASSUME r.q[p] # <<>>
      PROVE  /\ Dequeue(r, p) \in RqType
             /\ Dequeue(r, p).q = [r.q EXCEPT ![p] = Tail(r.q[p])]
  <2>1. Tail(r.q[p]) \in Seq(Task)
    BY <1>1, <1>3
  <2>2. Charge(r, p) \in [Level -> Nat]
    BY <1>1 DEF Charge
  <2> QED
    BY <1>1, <2>1, <2>2, Zenon DEF RqType, Dequeue
<1>4. DequeueNone(r) \in RqType /\ DequeueNone(r).q = r.q
  BY Zenon DEF RqType, DequeueNone
<1>5. ASSUME NEW i \in 1 .. Len(r.q[p])
      PROVE  /\ Steal(r, p, i) \in RqType
             /\ Steal(r, p, i).q = [r.q EXCEPT ![p] = RemoveAt(r.q[p], i)]
  <2>1. RemoveAt(r.q[p], i) \in Seq(Task)
    BY <1>1, RemoveFacts, Zenon
  <2>2. Steal(r, p, i) = [q |-> [r.q EXCEPT ![p] = RemoveAt(r.q[p], i)], quanta |-> r.quanta]
    <3>1. Steal(r, p, i) = [r EXCEPT !.q = [r.q EXCEPT ![p] = RemoveAt(r.q[p], i)]]
      BY DEF Steal
    <3>2. \A g : [r EXCEPT !.q = g] = [q |-> g, quanta |-> r.quanta]
      BY DEF RqType
    <3> QED
      BY <3>1, <3>2, Zenon
  <2> QED
    BY <1>1, <2>1, <2>2 DEF RqType
<1>6. /\ PrioBoost(r) \in RqType
      /\ PrioBoost(r).q = [l \in Level |-> IF l = 0 THEN r.q[0] \o r.q[1]
                                           ELSE IF l = 1 THEN r.q[2] ELSE <<>>]
  <2> DEFINE g == [l \in Level |-> IF l = 0 THEN r.q[0] \o r.q[1] ELSE IF l = 1 THEN r.q[2] ELSE <<>>]
  <2>1. r.q[0] \o r.q[1] \in Seq(Task) /\ r.q[2] \in Seq(Task) /\ <<>> \in Seq(Task)
    BY <1>1
  <2>2. g \in [Level -> Seq(Task)]
    BY <2>1
  <2>3. PrioBoost(r) = [q |-> g, quanta |-> r.quanta]
    <3>1. \A l \in Level : g[l] = CASE l = 0 -> r.q[0] \o r.q[1] [] l = 1 -> r.q[2] [] l = 2 -> <<>>
      BY <1>1
    <3> DEFINE h == [l \in Level |-> CASE l = 0 -> r.q[0] \o r.q[1] [] l = 1 -> r.q[2] [] l = 2 -> <<>>]
    <3>2. PrioBoost(r) = [r EXCEPT !.q = h]
      BY DEF PrioBoost, PRIO_HIGH, PRIO_NORMAL, PRIO_LOW
    <3>3. h = g
      BY <3>1, Zenon
    <3>4. \A f : [r EXCEPT !.q = f] = [q |-> f, quanta |-> r.quanta]
      BY DEF RqType
    <3> HIDE DEF g, h
    <3> QED
      BY <3>2, <3>3, <3>4
  <2> HIDE DEF g
  <2>4. PrioBoost(r) \in RqType /\ PrioBoost(r).q = g
    BY <1>1, <2>2, <2>3 DEF RqType
  <2> QED
    BY <2>4 DEF g
<1> QED
  BY <1>2, <1>3, <1>4, <1>5, <1>6, Zenon

-----------------------------------------------------------------------------
(***************************************************************************)
(* Types, and what follows from the control flow of one CPU alone.         *)
(***************************************************************************)
Pc == {"ap", "task", "wake", "kwake", "boost", "requeue", "affinity", "pick", "steal", "switch"}
State == {"READY", "RUNNING", "SLEEPING", "BLOCKED", "ZOMBIE"}
UserAt == {"new", "user", "kbd", "kbd_block", "kbd_yield", "zombie"}
KernelAt == {"new", "kernel", "ks_insert", "ks_yield", "zombie"}

TypeOK ==
    /\ rq \in [Cpu -> RqType]
    /\ current \in [Cpu -> Task \cup {Idle}] /\ stk = current
    /\ boost_in \in [Cpu -> Nat]
    /\ sleeping_list \in [Cpu -> Seq(Task)] /\ batch \in [Cpu -> Seq(Task)]
    /\ pc \in [Cpu -> Pc]
    /\ picked \in [Cpu -> Task \cup {Idle, None}] /\ victim \in [Cpu -> Cpu]
    /\ state \in [Task -> State]
    /\ cpu_id \in [Task -> Cpu \cup {None}] /\ scpu \in [Task -> Cpu \cup {None}]
    /\ left \in [Task -> Int]
    /\ at \in [Task -> UserAt \cup KernelAt]
    /\ blocked_task_list \in Seq(Task) /\ dead_task_list \in Seq(Task) /\ to_clean \in Seq(Task)
    /\ freed \subseteq Task /\ dropped \subseteq Task
    /\ phase \in {"boot", "test", "loop"} /\ keys \in Nat

CpuControl(c) ==
    /\ pc[c] = "switch" <=> picked[c] # None
    /\ pc[c] \in {"wake", "kwake"} <=> batch[c] # <<>>
    /\ pc[c] = "kwake" => c = 0 /\ "kbd" \in Calls
    /\ pc[c] = "affinity" => current[c] \in Migratable
    /\ pc[c] = "ap" => current[c] = Idle
    /\ pc[c] = "steal" => victim[c] # c

TaskControl(t) ==
    /\ at[t] \in IF t \in User THEN UserAt ELSE KernelAt
    /\ at[t] = "ks_insert" => scpu[t] \in Cpu
    /\ at[t] \in {"ks_insert", "ks_yield"} => "msleep" \in Calls
    /\ at[t] \in {"kbd", "kbd_block", "kbd_yield"} => "kbd" \in Calls
    /\ t \in Kernel /\ at[t] # "new" => phase = "loop"

Control ==
    /\ \A c \in Cpu : CpuControl(c)
    /\ \A t \in Task : TaskControl(t)
    /\ at[Main] \notin {"new", "zombie"}
    /\ blocked_task_list # <<>> => "kbd" \in Calls

(* The types of what a step of a CPU reads and writes. *)
LEMMA CpuTypes ==
    ASSUME TypeOK
    PROVE  /\ pc \in [Cpu -> Pc] /\ current \in [Cpu -> Task \cup {Idle}] /\ batch \in [Cpu -> Seq(Task)]
           /\ picked \in [Cpu -> Task \cup {Idle, None}] /\ victim \in [Cpu -> Cpu]
  BY Zenon DEF TypeOK

LEMMA TaskTypes ==
    ASSUME TypeOK
    PROVE  /\ state \in [Task -> State] /\ left \in [Task -> Int] /\ at \in [Task -> UserAt \cup KernelAt]
           /\ cpu_id \in [Task -> Cpu \cup {None}] /\ scpu \in [Task -> Cpu \cup {None}]
  BY Zenon DEF TypeOK

LEMMA ConstantFacts ==
    /\ NCpu \in Nat /\ NCpu > 0 /\ 0 \in Cpu /\ Cpu \subseteq Nat
    /\ Main \in Task /\ Main \notin User /\ Main \notin Kernel /\ Main \notin Migratable
    /\ Idle \notin Task /\ None \notin Task /\ None # Idle /\ None \notin Cpu
    /\ User \subseteq Task /\ Kernel \subseteq Task /\ Migratable \subseteq Task
    /\ Prio \in [Task -> Level] /\ BoostPeriod \in Nat /\ KeyCap \in Nat /\ MaxSleep \in Nat
    /\ \A t \in User : t \notin Kernel
  BY SchedAssumption DEF Cpu, Task, Migratable, Prio, Level, PRIO_HIGH, PRIO_NORMAL, PRIO_LOW

LEMMA InitTyped == Init => TypeOK /\ Control
<1> SUFFICES ASSUME Init PROVE TypeOK /\ Control
  OBVIOUS
<1>1. EmptyRq \in RqType
  BY DEF EmptyRq, RqType
<1>2. TypeOK
  BY <1>1, ConstantFacts DEF Init, TypeOK, Pc, State, UserAt, KernelAt
<1>3. Control
  BY ConstantFacts DEF Init, Control, CpuControl, TaskControl, UserAt, KernelAt, Migratable
<1> QED
  BY <1>2, <1>3

(* The head of the local list of a handler that works one off. *)
LEMMA BatchFacts ==
    ASSUME TypeOK, Control, NEW c \in Cpu, pc[c] \in {"wake", "kwake"}
    PROVE  /\ Head(batch[c]) \in Task /\ Tail(batch[c]) \in Seq(Task)
           /\ Tail(batch[c]) = <<>> <=> Len(batch[c]) = 1
<1>1. batch[c] \in Seq(Task) /\ batch[c] # <<>>
  BY DEF TypeOK, Control, CpuControl, TaskControl
<1> QED
  BY <1>1, TailFacts

(* The steal loop goes on, or ends with the idle task. *)
LEMMA TryNextFacts ==
    ASSUME TypeOK, NEW c \in Cpu, NEW i \in Nat, TryNext(c, Others(c, i))
    PROVE  \/ /\ picked' = [picked EXCEPT ![c] = Idle]
              /\ victim' \in [Cpu -> Cpu] /\ \A d \in Cpu : d # c => victim'[d] = victim[d]
              /\ pc' = [pc EXCEPT ![c] = "switch"]
           \/ /\ picked' = picked /\ pc' = [pc EXCEPT ![c] = "steal"]
              /\ victim' \in [Cpu -> Cpu] /\ victim'[c] # c
              /\ \A d \in Cpu : d # c => victim'[d] = victim[d]
<1>a. 0 \in Cpu /\ NCpu \in Nat /\ victim \in [Cpu -> Cpu]
  BY ConstantFacts, Zenon DEF TypeOK
<1>1. CASE Others(c, i) = {}
  <2>1. /\ picked' = [picked EXCEPT ![c] = Idle] /\ victim' = [victim EXCEPT ![c] = 0]
        /\ pc' = [pc EXCEPT ![c] = "switch"]
    BY <1>1 DEF TryNext, Goto
  <2>2. victim' \in [Cpu -> Cpu] /\ \A d \in Cpu : d # c => victim'[d] = victim[d]
    BY <1>a, <2>1
  <2> QED
    BY <2>1, <2>2, Zenon
<1>2. CASE Others(c, i) # {}
  <2> DEFINE v == First(Others(c, i))
  <2>1. v \in Cpu /\ v # c
    BY <1>2, <1>a, FirstFacts
  <2>2. picked' = picked /\ victim' = [victim EXCEPT ![c] = v] /\ pc' = [pc EXCEPT ![c] = "steal"]
    BY <1>2 DEF TryNext, Goto
  <2> HIDE DEF v
  <2>3. victim' \in [Cpu -> Cpu] /\ victim'[c] # c /\ \A d \in Cpu : d # c => victim'[d] = victim[d]
    BY <1>a, <2>1, <2>2, Zenon
  <2> QED
    BY <2>2, <2>3
<1> QED
  BY <1>1, <1>2

(* The steps of Next, one by one. *)
LEMMA NextSteps ==
    ASSUME Next
    PROVE  \E c \in Cpu :
             \/ StartIdle(c) \/ MainOn(c) \/ Tick(c) \/ KeyPress(c) \/ Wake(c) \/ Boost(c) \/ Requeue(c)
             \/ Affinity(c) \/ Pick(c) \/ StealFrom(c) \/ Switch(c) \/ KbdWake(c) \/ ReapTake(c) \/ ReapFree(c)
             \/ \E t \in Task : \/ Spawn(c, t) \/ MsleepInsert(c, t) \/ KbdPop(c, t) \/ KbdBlock(c, t)
                                \/ TaskExit(c, t)
                                \/ \E n \in 0 .. MaxSleep : SysSleep(c, t, n) \/ MsleepMark(c, t, n)
  BY Zenon DEF Next, Handler, InCall, Reaper

LEMMA TypedNext == TypeOK /\ Control /\ [Next]_vars => TypeOK' /\ Control'
<1> SUFFICES ASSUME TypeOK, Control, [Next]_vars PROVE TypeOK' /\ Control'
  BY Zenon
\* What an enqueue and its relatives leave of the types.
<1>EnqueueTyped. ASSUME NEW c \in Cpu, NEW t \in Task
                 PROVE  /\ EnqueueOn(c, t) => rq' \in [Cpu -> RqType]
                        /\ Pinned(c, t) \in [Task -> Cpu \cup {None}]
  <2>1. rq[c] \in RqType /\ Prio[t] \in Level
    BY ConstantFacts, Zenon DEF TypeOK
  <2>2. Enqueue(rq[c], t, Prio[t]) \in RqType
    BY <2>1, RqFacts, Zenon
  <2>3. EnqueueOn(c, t) => rq' \in [Cpu -> RqType]
    BY <2>2 DEF TypeOK, EnqueueOn
  <2>4. Pinned(c, t) \in [Task -> Cpu \cup {None}]
    BY DEF TypeOK, Pinned
  <2> QED
    BY <2>3, <2>4, Zenon
<1>Spawn. ASSUME NEW c \in Cpu, NEW t \in Task, Spawn(c, t)
          PROVE  TypeOK' /\ Control'
  <2> USE <1>Spawn
  <2> USE ConstantFacts
  <2>1. rq' \in [Cpu -> RqType]
    BY <1>EnqueueTyped DEF Spawn
  <2>2. /\ at[t] = "new"
        /\ \/ pc' = pc /\ (t \notin User => phase = "loop")
           \/ pc[c] = "ap" /\ t \in User /\ pc' = [pc EXCEPT ![c] = "task"]
        /\ at' = [at EXCEPT ![t] = IF t \in User THEN "user" ELSE "kernel"]
        /\ cpu_id' = [cpu_id EXCEPT ![t] = c]
        /\ UNCHANGED <<current, boost_in, sleeping_list, stk, batch, picked, victim, state, left, scpu>>
        /\ UNCHANGED <<blocked_task_list, dead_task_list, to_clean, freed, phase, keys, dropped>>
    BY Zenon DEF Spawn, Move, Goto, globalVars
  <2>3. pc' \in [Cpu -> Pc]
    BY <2>2, CpuTypes DEF Pc
  <2>4. at' \in [Task -> UserAt \cup KernelAt] /\ cpu_id' \in [Task -> Cpu \cup {None}]
    BY <2>2, Zenon DEF TypeOK, UserAt, KernelAt
  <2>5. TypeOK'
    BY <2>1, <2>2, <2>3, <2>4, Zenon DEF TypeOK
  <2>6. \A d \in Cpu : \/ pc'[d] = pc[d]
                       \/ pc[d] = "ap" /\ pc'[d] = "task"
    BY <2>2, Zenon DEF TypeOK
  <2>7. \A u \in Task : \/ at'[u] = at[u]
                        \/ u = t /\ u \in User /\ at'[u] = "user"
                        \/ u = t /\ u \notin User /\ at'[u] = "kernel"
    BY <2>2, Zenon DEF TypeOK
  <2>8. Control'
    BY <2>2, <2>6, <2>7 DEF Control, CpuControl, TaskControl, UserAt, KernelAt
  <2> QED
    BY <2>5, <2>8
<1>Boot. ASSUME NEW c \in Cpu, StartIdle(c) \/ MainOn(c)
         PROVE  TypeOK' /\ Control'
  <2> USE <1>Boot
  <2>1. CASE StartIdle(c)
    BY <2>1, Zenon DEF StartIdle, TypeOK, Control, CpuControl, TaskControl, Goto, globalVars, taskVars, Pc
  <2>2. CASE MainOn(c)
    BY <2>2, Zenon DEF MainOn, TypeOK, Control, CpuControl, TaskControl, cpuVars, taskVars
  <2> QED
    BY <2>1, <2>2, Zenon
<1>Tick. ASSUME NEW c \in Cpu, Tick(c)
         PROVE  TypeOK' /\ Control'
  <2> USE <1>Tick
  <2> USE ConstantFacts
  <2> DEFINE l == sleeping_list[c]
             n == Expired(l, left')
  <2>1. left' \in [Task -> Int] /\ boost_in' \in [Cpu -> Nat]
    <3>1. boost_in \in [Cpu -> Nat] /\ left \in [Task -> Int]
      BY Zenon DEF TypeOK
    <3>2. /\ left' = [t \in Task |-> IF c = 0 THEN Elapse(left[t], -1) ELSE left[t]]
          /\ boost_in' = [d \in Cpu |-> IF c = 0 THEN Elapse(boost_in[d], 0) ELSE boost_in[d]]
      BY Zenon DEF Tick
    <3> QED
      BY <3>1, <3>2 DEF Elapse
  <2>2. l \in Seq(Task) /\ Len(l) \in Nat
    BY DEF TypeOK
  <2>3. n \in 0 .. Len(l)
    <3> HIDE DEF l
    <3> QED
      BY <2>1, <2>2, ExpiredFacts
  <2>4. SubSeq(l, n + 1, Len(l)) \in Seq(Task) /\ Reverse(SubSeq(l, 1, n)) \in Seq(Task)
        /\ (Reverse(SubSeq(l, 1, n)) = <<>> <=> n = 0)
    <3> HIDE DEF n, l
    <3>1. SubSeq(l, n + 1, Len(l)) \in Seq(Task) /\ SubSeq(l, 1, n) \in Seq(Task) /\ Len(SubSeq(l, 1, n)) = n
      BY <2>2, <2>3
    <3>2. SubSeq(l, 1, n) = <<>> <=> n = 0
      BY <2>3, <3>1
    <3> QED
      BY <3>1, <3>2, ReverseFacts, Zenon
  <2>5. /\ sleeping_list' = [sleeping_list EXCEPT ![c] = SubSeq(l, n + 1, Len(l))]
        /\ batch' = [batch EXCEPT ![c] = Reverse(SubSeq(l, 1, n))]
        /\ pc' = [pc EXCEPT ![c] = IF n > 0 THEN "wake" ELSE "boost"]
    BY DEF Tick, Goto
  <2> HIDE DEF n, l
  <2>6. pc[c] = "task"
    BY Zenon DEF Tick, Interruptible, Yielding
  <2>7. /\ current[c] = Idle => at' = at
        /\ current[c] # Idle => current[c] \in Task /\ \E label \in After(c, current[c]) : at' = [at EXCEPT ![current[c]] = label]
    BY Zenon DEF Tick, Move, TypeOK
  <2>8. ASSUME NEW t \in Task, NEW label \in After(c, t)
        PROVE  \/ label = at[t]
               \/ at[t] = "ks_yield" /\ label = "kernel"
               \/ at[t] = "kbd_yield" /\ label = "kbd"
    <3>1. CASE at[t] = "ks_yield"
      BY <3>1 DEF After
    <3>2. CASE at[t] = "kbd_yield"
      BY <3>2 DEF After
    <3>3. CASE at[t] \notin {"ks_yield", "kbd_yield"}
      BY <3>3, Zenon DEF After
    <3> QED
      BY <3>1, <3>2, <3>3
  <2>9. /\ at' \in [Task -> UserAt \cup KernelAt]
        /\ \A t \in Task : \/ at'[t] = at[t]
                           \/ at[t] = "ks_yield" /\ at'[t] = "kernel"
                           \/ at[t] = "kbd_yield" /\ at'[t] = "kbd"
    <3>1. CASE current[c] = Idle
      BY <2>7, <3>1, Zenon DEF TypeOK
    <3>2. CASE current[c] # Idle
      <4>1. PICK label \in After(c, current[c]) : at' = [at EXCEPT ![current[c]] = label]
        BY <2>7, <3>2, Zenon
      <4>2. current[c] \in Task
        BY <2>7, <3>2
      <4>3. \/ label = at[current[c]]
            \/ at[current[c]] = "ks_yield" /\ label = "kernel"
            \/ at[current[c]] = "kbd_yield" /\ label = "kbd"
        BY <2>8, <4>2, Zenon
      <4>4. at \in [Task -> UserAt \cup KernelAt] /\ label \in UserAt \cup KernelAt
        BY <4>2, <4>3, Zenon DEF TypeOK, UserAt, KernelAt
      <4> QED
        BY <4>1, <4>2, <4>3, <4>4, Zenon
    <3> QED
      BY <3>1, <3>2, Zenon
  <2>a. /\ UNCHANGED <<rq, current, stk, picked, victim, state, cpu_id, scpu>>
        /\ UNCHANGED <<blocked_task_list, dead_task_list, to_clean, freed, phase, keys, dropped>>
    BY Zenon DEF Tick, globalVars
  <2>10. TypeOK'
    BY <2>1, <2>4, <2>5, <2>9, <2>a, Zenon DEF TypeOK, Pc
  <2>11. Control'
    <3>1. \A d \in Cpu : /\ pc'[d] = "switch" <=> picked'[d] # None
                         /\ pc'[d] \in {"wake", "kwake"} <=> batch'[d] # <<>>
                         /\ pc'[d] = "kwake" => d = 0 /\ "kbd" \in Calls
                         /\ pc'[d] = "affinity" => current'[d] \in Migratable
                         /\ pc'[d] = "ap" => current'[d] = Idle
                         /\ pc'[d] = "steal" => victim'[d] # d
      BY <2>3, <2>4, <2>5, <2>6, <2>a, CpuTypes DEF Control, CpuControl, TaskControl
    <3>2. ASSUME NEW t \in Task
          PROVE  /\ at'[t] \in IF t \in User THEN UserAt ELSE KernelAt
                 /\ at'[t] = "ks_insert" => scpu'[t] \in Cpu
                 /\ at'[t] \in {"ks_insert", "ks_yield"} => "msleep" \in Calls
                 /\ at'[t] \in {"kbd", "kbd_block", "kbd_yield"} => "kbd" \in Calls
                 /\ t \in Kernel /\ at'[t] # "new" => phase' = "loop"
                 /\ at[t] \notin {"new", "zombie"} => at'[t] \notin {"new", "zombie"}
      <4>1. /\ at[t] \in IF t \in User THEN UserAt ELSE KernelAt
            /\ at[t] = "ks_insert" => scpu[t] \in Cpu
            /\ at[t] \in {"ks_insert", "ks_yield"} => "msleep" \in Calls
            /\ at[t] \in {"kbd", "kbd_block", "kbd_yield"} => "kbd" \in Calls
            /\ t \in Kernel /\ at[t] # "new" => phase = "loop"
        BY DEF Control, CpuControl, TaskControl
      <4> QED
        BY <2>9, <2>a, <4>1 DEF UserAt, KernelAt
    <3> QED
      BY <2>a, <3>1, <3>2, Zenon DEF Control, CpuControl, TaskControl
  <2> QED
    BY <2>10, <2>11, Zenon
<1>Wake. ASSUME NEW c \in Cpu, Wake(c)
         PROVE  TypeOK' /\ Control'
  <2> USE <1>Wake
  <2> DEFINE t == Head(batch[c])
  <2>1. /\ pc[c] = "wake" /\ state' = [state EXCEPT ![t] = "READY"] /\ left' = [left EXCEPT ![t] = -1]
        /\ EnqueueOn(c, t) /\ cpu_id' = Pinned(c, t)
        /\ batch' = [batch EXCEPT ![c] = Tail(batch[c])]
        /\ pc' = [pc EXCEPT ![c] = IF Len(batch[c]) = 1 THEN "boost" ELSE "wake"]
        /\ UNCHANGED <<current, boost_in, sleeping_list, stk, picked, victim, at, scpu>>
        /\ UNCHANGED <<blocked_task_list, dead_task_list, to_clean, freed, phase, keys, dropped>>
    BY Zenon DEF Wake, Goto, globalVars
  <2>2. /\ t \in Task /\ Tail(batch[c]) \in Seq(Task)
        /\ Tail(batch[c]) = <<>> <=> Len(batch[c]) = 1
    BY <2>1, BatchFacts, Zenon
  <2> HIDE DEF t
  <2>3. rq' \in [Cpu -> RqType] /\ Pinned(c, t) \in [Task -> Cpu \cup {None}]
    BY <2>1, <2>2, <1>EnqueueTyped, Zenon
  <2>a. /\ state' \in [Task -> State] /\ left' \in [Task -> Int] /\ batch' \in [Cpu -> Seq(Task)]
        /\ pc' \in [Cpu -> Pc]
    BY <2>1, <2>2, CpuTypes, TaskTypes DEF Pc, State
  <2>4. TypeOK'
    BY <2>1, <2>3, <2>a, Zenon DEF TypeOK
  <2>5. Control'
    BY <2>1, <2>2, Zenon DEF TypeOK, Control, CpuControl, TaskControl
  <2> QED
    BY <2>4, <2>5
<1>Schedule. ASSUME NEW c \in Cpu, Boost(c) \/ Requeue(c) \/ Affinity(c)
             PROVE  TypeOK' /\ Control'
  <2> USE <1>Schedule
  <2> USE ConstantFacts
  <2>1. CASE Boost(c)
    <3>1. /\ pc[c] = "boost" /\ pc' = [pc EXCEPT ![c] = "requeue"]
          /\ \/ /\ rq' = [rq EXCEPT ![c] = PrioBoost(rq[c])]
                /\ boost_in' = [boost_in EXCEPT ![c] = BoostPeriod]
             \/ UNCHANGED <<rq, boost_in>>
          /\ UNCHANGED <<current, sleeping_list, stk, batch, picked, victim, state, cpu_id, left, at, scpu>>
          /\ UNCHANGED <<blocked_task_list, dead_task_list, to_clean, freed, phase, keys, dropped>>
      BY <2>1, Zenon DEF Boost, Goto, taskVars, globalVars
    <3>2. PrioBoost(rq[c]) \in RqType
      <4>1. rq[c] \in RqType /\ 0 \in Level
        BY DEF TypeOK, Level, PRIO_HIGH, PRIO_LOW
      <4> QED
        BY <4>1, RqFacts, Zenon
    <3>a. rq' \in [Cpu -> RqType] /\ boost_in' \in [Cpu -> Nat]
      <4>1. rq \in [Cpu -> RqType] /\ boost_in \in [Cpu -> Nat] /\ BoostPeriod \in Nat
        BY Zenon DEF TypeOK
      <4>2. CASE rq' = [rq EXCEPT ![c] = PrioBoost(rq[c])] /\ boost_in' = [boost_in EXCEPT ![c] = BoostPeriod]
        BY <3>2, <4>1, <4>2
      <4> QED
        BY <3>1, <4>1, <4>2
    <3>3. TypeOK'
      BY <3>1, <3>a, Zenon DEF TypeOK, Pc
    <3>4. Control'
      BY <3>1, CpuTypes DEF Control, CpuControl, TaskControl
    <3> QED
      BY <3>3, <3>4, Zenon
  <2>2. CASE Requeue(c)
    <3> DEFINE t == current[c]
    <3>1. /\ pc[c] = "requeue" /\ pc' = [pc EXCEPT ![c] = IF t \in Migratable THEN "affinity" ELSE "pick"]
          /\ \/ t # Idle /\ state' = [state EXCEPT ![t] = "READY"] /\ EnqueueOn(c, t) /\ cpu_id' = Pinned(c, t)
             \/ UNCHANGED <<rq, state, cpu_id>>
          /\ dropped' = Dropping(c)
          /\ UNCHANGED <<current, boost_in, sleeping_list, stk, batch, picked, victim, left, at, scpu>>
          /\ UNCHANGED <<blocked_task_list, dead_task_list, to_clean, freed, phase, keys>>
      BY <2>2 DEF Requeue, Goto
    <3>2. t # Idle => t \in Task
      BY Zenon DEF TypeOK
    <3>3. rq' \in [Cpu -> RqType] /\ cpu_id' \in [Task -> Cpu \cup {None}] /\ state' \in [Task -> State]
      <4>1. CASE UNCHANGED <<rq, state, cpu_id>>
        BY <4>1, Zenon DEF TypeOK
      <4>2. CASE t # Idle /\ state' = [state EXCEPT ![t] = "READY"] /\ EnqueueOn(c, t) /\ cpu_id' = Pinned(c, t)
        <5> HIDE DEF t
        <5>1. rq' \in [Cpu -> RqType] /\ cpu_id' \in [Task -> Cpu \cup {None}]
          BY <3>2, <4>2, <1>EnqueueTyped, Zenon
        <5> QED
          BY <3>2, <4>2, <5>1, Zenon DEF TypeOK, State
      <4> QED
        BY <3>1, <4>1, <4>2, Zenon
    <3>4. dropped' \subseteq Task
      BY <3>1, <3>2, Zenon DEF TypeOK, Dropping
    <3>5. TypeOK'
      BY <3>1, <3>3, <3>4, Zenon DEF TypeOK, Pc
    <3>6. Control'
      BY <3>1, CpuTypes DEF Control, CpuControl, TaskControl
    <3> QED
      BY <3>5, <3>6
  <2>3. CASE Affinity(c)
    <3>1. /\ pc[c] = "affinity" /\ pc' = [pc EXCEPT ![c] = "pick"]
          /\ cpu_id' = [cpu_id EXCEPT ![current[c]] = None]
          /\ UNCHANGED <<rq, current, boost_in, sleeping_list, stk, batch, picked, victim, state, left, at, scpu>>
          /\ UNCHANGED <<blocked_task_list, dead_task_list, to_clean, freed, phase, keys, dropped>>
      BY <2>3 DEF Affinity, Goto, globalVars
    <3>2. TypeOK'
      BY <3>1, Zenon DEF TypeOK, Pc
    <3>3. Control'
      BY <3>1, CpuTypes DEF Control, CpuControl, TaskControl
    <3> QED
      BY <3>2, <3>3
  <2> QED
    BY <2>1, <2>2, <2>3
<1>Pick. ASSUME NEW c \in Cpu, Pick(c)
         PROVE  TypeOK' /\ Control'
  <2> USE <1>Pick
  <2> USE ConstantFacts
  <2>1. /\ pc[c] = "pick"
        /\ UNCHANGED <<current, boost_in, sleeping_list, stk, batch, state, cpu_id, left, at, scpu>>
        /\ UNCHANGED <<blocked_task_list, dead_task_list, to_clean, freed, phase, keys, dropped>>
    BY Zenon DEF Pick, taskVars, globalVars
  <2>2. rq[c] \in RqType /\ 0 \in Level
    BY DEF TypeOK, Level, PRIO_HIGH, PRIO_LOW
  <2>3. CASE \E p \in Served(rq[c]) : /\ picked' = [picked EXCEPT ![c] = Head(rq[c].q[p])]
                                      /\ rq' = [rq EXCEPT ![c] = Dequeue(@, p)]
                                      /\ Goto(c, "switch") /\ UNCHANGED victim
    <3>1. PICK p \in Level : /\ rq[c].q[p] # <<>>
                             /\ picked' = [picked EXCEPT ![c] = Head(rq[c].q[p])]
                             /\ rq' = [rq EXCEPT ![c] = Dequeue(rq[c], p)]
                             /\ pc' = [pc EXCEPT ![c] = "switch"] /\ victim' = victim
      BY <2>3, Zenon DEF Goto, Served, Serves
    <3>2. Dequeue(rq[c], p) \in RqType
      BY <2>2, <3>1, RqFacts, Zenon
    <3>3. Head(rq[c].q[p]) \in Task
      <4>1. rq[c].q[p] \in Seq(Task)
        BY <2>2 DEF RqType
      <4> QED
        BY <3>1, <4>1, TailFacts
    <3>4. TypeOK'
      BY <2>1, <3>1, <3>2, <3>3, Zenon DEF TypeOK, Pc
    <3>5. Control'
      BY <2>1, <3>1, <3>3, CpuTypes DEF Control, CpuControl, TaskControl
    <3> QED
      BY <3>4, <3>5, Zenon
  <2>4. CASE rq' = [rq EXCEPT ![c] = DequeueNone(@)] /\ TryNext(c, Others(c, 0))
    <3>1. DequeueNone(rq[c]) \in RqType
      BY <2>2, RqFacts, Zenon
    <3>2. rq' \in [Cpu -> RqType]
      BY <2>4, <3>1, Zenon DEF TypeOK
    <3>3. \/ /\ picked' = [picked EXCEPT ![c] = Idle]
             /\ victim' \in [Cpu -> Cpu] /\ \A d \in Cpu : d # c => victim'[d] = victim[d]
             /\ pc' = [pc EXCEPT ![c] = "switch"]
          \/ /\ picked' = picked /\ pc' = [pc EXCEPT ![c] = "steal"]
             /\ victim' \in [Cpu -> Cpu] /\ victim'[c] # c
             /\ \A d \in Cpu : d # c => victim'[d] = victim[d]
      BY <2>4, TryNextFacts, Zenon
    <3>4. TypeOK'
      BY <2>1, <3>2, <3>3, Zenon DEF TypeOK, Pc
    <3>5. \A d \in Cpu : /\ pc'[d] = "switch" <=> picked'[d] # None
                         /\ pc'[d] \in {"wake", "kwake"} <=> batch'[d] # <<>>
                         /\ pc'[d] = "kwake" => d = 0 /\ "kbd" \in Calls
                         /\ pc'[d] = "affinity" => current'[d] \in Migratable
                         /\ pc'[d] = "ap" => current'[d] = Idle
                         /\ pc'[d] = "steal" => victim'[d] # d
      <4>1. CASE picked' = [picked EXCEPT ![c] = Idle] /\ pc' = [pc EXCEPT ![c] = "switch"]
        BY <2>1, <3>3, <4>1, CpuTypes DEF Control, CpuControl, TaskControl
      <4>2. CASE picked' = picked /\ pc' = [pc EXCEPT ![c] = "steal"] /\ victim'[c] # c
        BY <2>1, <3>3, <4>2, CpuTypes DEF Control, CpuControl, TaskControl
      <4> QED
        BY <3>3, <4>1, <4>2, Zenon
    <3>6. Control'
      BY <2>1, <3>5, Zenon DEF Control, CpuControl, TaskControl
    <3> QED
      BY <3>4, <3>6
  <2> QED
    BY <2>3, <2>4, Zenon DEF Pick
<1>Steal. ASSUME NEW c \in Cpu, StealFrom(c)
          PROVE  TypeOK' /\ Control'
  <2> USE <1>Steal
  <2> DEFINE v == victim[c]
  <2>1. /\ pc[c] = "steal"
        /\ UNCHANGED <<current, boost_in, sleeping_list, stk, batch, state, cpu_id, left, at, scpu>>
        /\ UNCHANGED <<blocked_task_list, dead_task_list, to_clean, freed, phase, keys, dropped>>
    BY Zenon DEF StealFrom, taskVars, globalVars
  <2>2. v \in Cpu /\ rq[v] \in RqType /\ v + 1 \in Nat /\ 0 \in Cpu
    <3>1. v \in Cpu /\ rq[v] \in RqType
      BY Zenon DEF TypeOK
    <3> HIDE DEF v
    <3> QED
      BY <3>1, ConstantFacts
  <2>3. CASE \E p \in StealLevel(rq[v], Migratable) : \E i \in FirstIn(rq[v].q[p], Migratable) :
               /\ picked' = [picked EXCEPT ![c] = rq[v].q[p][i]]
               /\ rq' = [rq EXCEPT ![v] = Steal(@, p, i)]
               /\ victim' = [victim EXCEPT ![c] = 0] /\ Goto(c, "switch")
    <3>0. PICK p \in Level : \E i \in DOMAIN rq[v].q[p] :
               /\ rq[v].q[p][i] \in Migratable
               /\ picked' = [picked EXCEPT ![c] = rq[v].q[p][i]]
               /\ rq' = [rq EXCEPT ![v] = Steal(rq[v], p, i)]
               /\ victim' = [victim EXCEPT ![c] = 0] /\ pc' = [pc EXCEPT ![c] = "switch"]
      BY <2>3, Zenon DEF StealLevel, FirstIn, Goto
    <3>1. PICK i \in DOMAIN rq[v].q[p] :
               /\ rq[v].q[p][i] \in Migratable
               /\ picked' = [picked EXCEPT ![c] = rq[v].q[p][i]]
               /\ rq' = [rq EXCEPT ![v] = Steal(rq[v], p, i)]
               /\ victim' = [victim EXCEPT ![c] = 0] /\ pc' = [pc EXCEPT ![c] = "switch"]
      BY <3>0, Zenon
    <3> HIDE DEF v
    <3>2. rq[v].q[p] \in Seq(Task) /\ i \in 1 .. Len(rq[v].q[p])
      BY <2>2, <3>1 DEF RqType
    <3>3. Steal(rq[v], p, i) \in RqType
      BY <2>2, <3>2, RqFacts, Zenon
    <3>4. rq[v].q[p][i] \in Task /\ None \notin Task
      BY <3>1, ConstantFacts
    <3>5. rq' \in [Cpu -> RqType] /\ picked' \in [Cpu -> Task \cup {Idle, None}] /\ victim' \in [Cpu -> Cpu]
      BY <2>2, <3>1, <3>3, <3>4, Zenon DEF TypeOK
    <3>6. TypeOK'
      BY <2>1, <3>1, <3>5, Zenon DEF TypeOK, Pc
    <3>7. Control'
      BY <2>1, <3>1, <3>4, Zenon DEF TypeOK, Control, CpuControl, TaskControl
    <3> QED
      BY <3>6, <3>7
  <2>4. CASE UNCHANGED rq /\ TryNext(c, Others(c, v + 1))
    <3>3. \/ /\ picked' = [picked EXCEPT ![c] = Idle]
             /\ victim' \in [Cpu -> Cpu] /\ \A d \in Cpu : d # c => victim'[d] = victim[d]
             /\ pc' = [pc EXCEPT ![c] = "switch"]
          \/ /\ picked' = picked /\ pc' = [pc EXCEPT ![c] = "steal"]
             /\ victim' \in [Cpu -> Cpu] /\ victim'[c] # c
             /\ \A d \in Cpu : d # c => victim'[d] = victim[d]
      <4> DEFINE i == v + 1
      <4>1. i \in Nat /\ TryNext(c, Others(c, i))
        BY <2>2, <2>4, Zenon
      <4> HIDE DEF i
      <4> QED
        BY <4>1, TryNextFacts, Zenon
    <3> HIDE DEF v
    <3>4. TypeOK'
      BY <2>1, <2>4, <3>3, Zenon DEF TypeOK, Pc
    <3>5. \A d \in Cpu : /\ pc'[d] = "switch" <=> picked'[d] # None
                         /\ pc'[d] \in {"wake", "kwake"} <=> batch'[d] # <<>>
                         /\ pc'[d] = "kwake" => d = 0 /\ "kbd" \in Calls
                         /\ pc'[d] = "affinity" => current'[d] \in Migratable
                         /\ pc'[d] = "ap" => current'[d] = Idle
                         /\ pc'[d] = "steal" => victim'[d] # d
      <4>1. CASE picked' = [picked EXCEPT ![c] = Idle] /\ pc' = [pc EXCEPT ![c] = "switch"]
        BY <2>1, <3>3, <4>1, ConstantFacts, CpuTypes DEF Control, CpuControl, TaskControl
      <4>2. CASE picked' = picked /\ pc' = [pc EXCEPT ![c] = "steal"] /\ victim'[c] # c
        BY <2>1, <3>3, <4>2, Zenon DEF TypeOK, Control, CpuControl, TaskControl
      <4> QED
        BY <3>3, <4>1, <4>2, Zenon
    <3>6. Control'
      BY <2>1, <3>5, Zenon DEF Control, CpuControl, TaskControl
    <3> QED
      BY <3>4, <3>6
  <2> QED
    BY <2>3, <2>4, Zenon DEF StealFrom
<1>Switch. ASSUME NEW c \in Cpu, Switch(c)
           PROVE  TypeOK' /\ Control'
  <2> USE <1>Switch
  <2> USE ConstantFacts
  <2> DEFINE t == picked[c]
  <2>1. /\ pc[c] = "switch" /\ pc' = [pc EXCEPT ![c] = "task"]
        /\ current' = [current EXCEPT ![c] = t] /\ stk' = [stk EXCEPT ![c] = t]
        /\ picked' = [picked EXCEPT ![c] = None]
        /\ \/ t = Idle /\ UNCHANGED <<state, cpu_id>>
           \/ t # Idle /\ state' = [state EXCEPT ![t] = "RUNNING"] /\ cpu_id' = [cpu_id EXCEPT ![t] = c]
        /\ UNCHANGED <<rq, boost_in, sleeping_list, batch, victim, left, at, scpu>>
        /\ UNCHANGED <<blocked_task_list, dead_task_list, to_clean, freed, phase, keys, dropped>>
    BY Zenon DEF Switch, Goto, globalVars
  <2>2. t \in Task \cup {Idle}
    BY <2>1 DEF TypeOK, Control, CpuControl, TaskControl
  <2> HIDE DEF t
  <2>3. state' \in [Task -> State] /\ cpu_id' \in [Task -> Cpu \cup {None}]
    <3>1. state \in [Task -> State] /\ cpu_id \in [Task -> Cpu \cup {None}] /\ "RUNNING" \in State
      BY Zenon DEF TypeOK, State
    <3>2. CASE t # Idle /\ state' = [state EXCEPT ![t] = "RUNNING"] /\ cpu_id' = [cpu_id EXCEPT ![t] = c]
      BY <2>2, <3>1, <3>2, Zenon
    <3> QED
      BY <2>1, <3>1, <3>2, Zenon
  <2>4. TypeOK'
    BY <2>1, <2>2, <2>3, Zenon DEF TypeOK, Pc
  <2>5. Control'
    BY <2>1, <2>2, CpuTypes DEF Control, CpuControl, TaskControl
  <2> QED
    BY <2>4, <2>5
\* An insertion at its place in a sleeping list.
<1>InsertTyped. ASSUME NEW c \in Cpu, NEW t \in Task, NEW n \in Int,
                       sleeping_list' = [sleeping_list EXCEPT ![c] = InsertAt(@, Place(@, n), t)]
                PROVE  sleeping_list' \in [Cpu -> Seq(Task)]
  <2> USE <1>InsertTyped
  <2> DEFINE l == sleeping_list[c]
             i == Place(l, n)
  <2>1. l \in Seq(Task) /\ left \in [Task -> Int]
    BY DEF TypeOK
  <2>2. i \in 1 .. Len(l) + 1
    <3> HIDE DEF l
    <3> QED
      BY <2>1, PlaceFacts, Zenon
  <2>3. InsertAt(l, i, t) \in Seq(Task)
    <3> HIDE DEF l, i
    <3> QED
      BY <2>1, <2>2, InsertFacts
  <2>4. sleeping_list' = [sleeping_list EXCEPT ![c] = InsertAt(l, i, t)]
    OBVIOUS
  <2> HIDE DEF l, i
  <2> QED
    BY <2>3, <2>4 DEF TypeOK
<1>Sleep. ASSUME NEW c \in Cpu, NEW t \in Task, NEW n \in 0 .. MaxSleep,
                 SysSleep(c, t, n) \/ MsleepMark(c, t, n) \/ MsleepInsert(c, t)
          PROVE  TypeOK' /\ Control'
  <2> USE <1>Sleep
  <2>0. n \in Int
    OBVIOUS
  <2>1. CASE SysSleep(c, t, n)
    <3>1. /\ pc[c] = "task" /\ pc' = [pc EXCEPT ![c] = "boost"]
          /\ UNCHANGED <<rq, current, boost_in, stk, batch, picked, victim, cpu_id, at, scpu>>
          /\ UNCHANGED <<blocked_task_list, dead_task_list, to_clean, freed, phase, keys, dropped>>
      BY <2>1 DEF SysSleep, Goto, Runs, globalVars
    <3>2. state' \in [Task -> State] /\ left' \in [Task -> Int] /\ sleeping_list' \in [Cpu -> Seq(Task)]
      <4>1. CASE n = 0
        BY <2>1, <4>1, Zenon DEF SysSleep, TypeOK
      <4>2. CASE n # 0
        <5>1. sleeping_list' \in [Cpu -> Seq(Task)]
          BY <2>0, <2>1, <4>2, <1>InsertTyped, Zenon DEF SysSleep
        <5>2. state' = [state EXCEPT ![t] = "SLEEPING"] /\ left' = [left EXCEPT ![t] = n]
          BY <2>1, <4>2, Zenon DEF SysSleep
        <5> QED
          BY <2>0, <5>1, <5>2, Zenon DEF TypeOK, State
      <4> QED
        BY <4>1, <4>2, Zenon
    <3>3. TypeOK'
      BY <3>1, <3>2, Zenon DEF TypeOK, Pc
    <3>4. Control'
      BY <3>1, Zenon DEF TypeOK, Control, CpuControl, TaskControl
    <3> QED
      BY <3>3, <3>4, Zenon
  <2>2. CASE MsleepMark(c, t, n)
    <3>1. /\ at[t] = "kernel" /\ "msleep" \in Calls
          /\ state' = [state EXCEPT ![t] = "SLEEPING"] /\ left' = [left EXCEPT ![t] = n]
          /\ scpu' = [scpu EXCEPT ![t] = c] /\ at' = [at EXCEPT ![t] = "ks_insert"]
          /\ UNCHANGED <<rq, current, boost_in, sleeping_list, pc, stk, batch, picked, victim, cpu_id>>
          /\ UNCHANGED <<blocked_task_list, dead_task_list, to_clean, freed, phase, keys, dropped>>
      BY <2>2, Zenon DEF MsleepMark, Move, cpuVars, globalVars
    <3>2. TypeOK'
      BY <2>0, <3>1, Zenon DEF TypeOK, State, KernelAt
    <3>3. \A u \in Task : \/ at'[u] = at[u] /\ scpu'[u] = scpu[u]
                          \/ u = t /\ at'[u] = "ks_insert" /\ scpu'[u] = c
      BY <3>1, Zenon DEF TypeOK
    <3>4. Control'
      <4>1. \A d \in Cpu : CpuControl(d)'
        BY <3>1, Zenon DEF Control, CpuControl
      <4>2. \A u \in Task : TaskControl(u)'
        BY <3>1, <3>3 DEF Control, TaskControl, UserAt, KernelAt
      <4>3. at'[Main] \notin {"new", "zombie"} /\ (blocked_task_list' # <<>> => "kbd" \in Calls)
        BY <3>1, <3>3, ConstantFacts, Zenon DEF Control
      <4> QED
        BY <4>1, <4>2, <4>3, Zenon DEF Control
    <3> QED
      BY <3>2, <3>4
  <2>3. CASE MsleepInsert(c, t)
    <3>1. /\ at[t] = "ks_insert"
          /\ sleeping_list' = [sleeping_list EXCEPT ![scpu[t]] = InsertAt(@, Place(@, left[t]), t)]
          /\ scpu' = [scpu EXCEPT ![t] = None] /\ at' = [at EXCEPT ![t] = "ks_yield"]
          /\ UNCHANGED <<rq, current, boost_in, pc, stk, batch, picked, victim, state, cpu_id, left>>
          /\ UNCHANGED <<blocked_task_list, dead_task_list, to_clean, freed, phase, keys, dropped>>
      BY <2>3 DEF MsleepInsert, Move, globalVars
    <3>2. sleeping_list' \in [Cpu -> Seq(Task)]
      <4> DEFINE d == scpu[t]
                 k == left[t]
      <4>1. d \in Cpu /\ k \in Int /\ sleeping_list' = [sleeping_list EXCEPT ![d] = InsertAt(@, Place(@, k), t)]
        BY <3>1, Zenon DEF TypeOK, Control, CpuControl, TaskControl
      <4> HIDE DEF d, k
      <4> QED
        BY <4>1, <1>InsertTyped, Zenon
    <3>3. TypeOK'
      BY <3>1, <3>2, Zenon DEF TypeOK, KernelAt
    <3>4. \A u \in Task : \/ at'[u] = at[u] /\ scpu'[u] = scpu[u]
                          \/ u = t /\ at'[u] = "ks_yield"
      BY <3>1, Zenon DEF TypeOK
    <3>5. Control'
      <4>1. \A d \in Cpu : CpuControl(d)'
        BY <3>1, Zenon DEF Control, CpuControl
      <4>2. ASSUME NEW u \in Task PROVE TaskControl(u)'
        <5>1. phase' = phase /\ TaskControl(u) /\ TaskControl(t)
          BY <3>1, Zenon DEF Control
        <5>2. CASE at'[u] = at[u] /\ scpu'[u] = scpu[u]
          BY <5>1, <5>2, Zenon DEF TaskControl
        <5>3. CASE u = t /\ at'[u] = "ks_yield"
          <6>1. t \notin User /\ "msleep" \in Calls /\ (t \in Kernel => phase = "loop")
            BY <3>1, <5>1, Zenon DEF TaskControl, UserAt
          <6> QED
            BY <5>1, <5>3, <6>1, Zenon DEF TaskControl, KernelAt
        <5> QED
          BY <3>4, <5>2, <5>3, Zenon
      <4>3. at'[Main] \notin {"new", "zombie"} /\ (blocked_task_list' # <<>> => "kbd" \in Calls)
        BY <3>1, <3>4, ConstantFacts, Zenon DEF Control
      <4> QED
        BY <4>1, <4>2, <4>3, Zenon DEF Control
    <3> QED
      BY <3>3, <3>5
  <2> QED
    BY <2>1, <2>2, <2>3
<1>Kbd. ASSUME NEW c \in Cpu, NEW t \in Task, KbdPop(c, t) \/ KbdBlock(c, t)
        PROVE  TypeOK' /\ Control'
  <2> USE <1>Kbd
  <2>1. CASE KbdPop(c, t)
    <3>1. /\ at[t] \in {"user", "kbd"} /\ t \in User /\ "kbd" \in Calls
          /\ keys' = Elapse(keys, 0) /\ at' = [at EXCEPT ![t] = IF keys > 0 THEN "user" ELSE "kbd_block"]
          /\ UNCHANGED <<rq, current, boost_in, sleeping_list, pc, stk, batch, picked, victim, state, cpu_id, left, scpu>>
          /\ UNCHANGED <<blocked_task_list, dead_task_list, to_clean, freed, phase, dropped>>
      BY <2>1 DEF KbdPop, Move, cpuVars
    <3>2. keys' \in Nat /\ at' \in [Task -> UserAt \cup KernelAt]
      BY <3>1 DEF TypeOK, Elapse, UserAt
    <3>3. TypeOK'
      BY <3>1, <3>2, Zenon DEF TypeOK
    <3>4. \A u \in Task : at'[u] = at[u] \/ (u = t /\ at'[u] \in {"user", "kbd_block"})
      BY <3>1, Zenon DEF TypeOK
    <3>5. Main \notin User /\ t \notin Kernel
      BY <3>1, ConstantFacts, Zenon
    <3>6. Control'
      <4>1. \A d \in Cpu : CpuControl(d)'
        BY <3>1, Zenon DEF Control, CpuControl
      <4>2. \A u \in Task : TaskControl(u)'
        BY <3>1, <3>4, <3>5 DEF Control, TaskControl, UserAt, KernelAt
      <4>3. at'[Main] \notin {"new", "zombie"} /\ (blocked_task_list' # <<>> => "kbd" \in Calls)
        BY <3>1, <3>4, <3>5, ConstantFacts, Zenon DEF Control
      <4> QED
        BY <4>1, <4>2, <4>3, Zenon DEF Control
    <3> QED
      BY <3>3, <3>6
  <2>2. CASE KbdBlock(c, t)
    <3>1. /\ at[t] = "kbd_block" /\ at' = [at EXCEPT ![t] = "kbd_yield"]
          /\ state' = [state EXCEPT ![t] = "BLOCKED"]
          /\ blocked_task_list' = <<t>> \o blocked_task_list
          /\ UNCHANGED <<rq, current, boost_in, sleeping_list, pc, stk, batch, picked, victim, cpu_id, left, scpu>>
          /\ UNCHANGED <<dead_task_list, to_clean, freed, phase, keys, dropped>>
      BY <2>2 DEF KbdBlock, Move, cpuVars
    <3>2. /\ blocked_task_list' \in Seq(Task) /\ state' \in [Task -> State]
          /\ at' \in [Task -> UserAt \cup KernelAt]
      BY <3>1 DEF TypeOK, UserAt, State
    <3>3. TypeOK'
      BY <3>1, <3>2, Zenon DEF TypeOK
    <3>4. \A u \in Task : at'[u] = at[u] \/ (u = t /\ at'[u] = "kbd_yield")
      BY <3>1 DEF TypeOK
    <3>5. "kbd" \in Calls /\ t \in User
      BY <3>1, Zenon DEF Control, CpuControl, TaskControl, KernelAt
    <3>6. Control'
      <4>1. \A d \in Cpu : CpuControl(d)'
        BY <3>1, Zenon DEF Control, CpuControl
      <4>2. \A u \in Task : TaskControl(u)'
        BY <3>1, <3>4, <3>5, ConstantFacts DEF Control, TaskControl, UserAt, KernelAt
      <4>3. at'[Main] \notin {"new", "zombie"} /\ (blocked_task_list' # <<>> => "kbd" \in Calls)
        BY <3>1, <3>4, <3>5, ConstantFacts, Zenon DEF Control
      <4> QED
        BY <4>1, <4>2, <4>3, Zenon DEF Control
    <3> QED
      BY <3>3, <3>6
  <2> QED
    BY <2>1, <2>2
<1>KeyPress. ASSUME NEW c \in Cpu, KeyPress(c)
             PROVE  TypeOK' /\ Control'
  <2> USE <1>KeyPress
  <2>1. /\ c = 0 /\ "kbd" \in Calls /\ pc[c] = "task"
        /\ keys' = IF keys < KeyCap THEN keys + 1 ELSE keys
        /\ batch' = [batch EXCEPT ![c] = Reverse(blocked_task_list)]
        /\ state' = [t \in Task |-> IF t \in ToSet(blocked_task_list) THEN "READY" ELSE state[t]]
        /\ blocked_task_list' = <<>>
        /\ pc' = [pc EXCEPT ![c] = IF blocked_task_list = <<>> THEN "task" ELSE "kwake"]
        /\ UNCHANGED <<rq, current, boost_in, sleeping_list, stk, picked, victim, cpu_id, left, at, scpu>>
        /\ UNCHANGED <<dead_task_list, to_clean, freed, phase, dropped>>
    BY Zenon DEF KeyPress, Goto, Interruptible
  <2>2. /\ Reverse(blocked_task_list) \in Seq(Task)
        /\ Reverse(blocked_task_list) = <<>> <=> blocked_task_list = <<>>
    <3>1. blocked_task_list \in Seq(Task)
      BY Zenon DEF TypeOK
    <3> QED
      BY <3>1, ReverseFacts
  <2>3. /\ keys' \in Nat /\ state' \in [Task -> State] /\ batch' \in [Cpu -> Seq(Task)]
        /\ blocked_task_list' \in Seq(Task) /\ pc' \in [Cpu -> Pc]
    <3>1. state' \in [Task -> State]
      BY <2>1 DEF TypeOK, State
    <3> QED
      BY <2>1, <2>2, <3>1, ConstantFacts DEF TypeOK, Pc
  <2>4. TypeOK'
    BY <2>1, <2>3, Zenon DEF TypeOK
  <2>5. Control'
    BY <2>1, <2>2, Zenon DEF TypeOK, Control, CpuControl, TaskControl
  <2> QED
    BY <2>4, <2>5
<1>KbdWake. ASSUME NEW c \in Cpu, KbdWake(c)
            PROVE  TypeOK' /\ Control'
  <2> USE <1>KbdWake
  <2> DEFINE t == Head(batch[c])
             target == IF cpu_id[t] = None THEN c ELSE cpu_id[t]
  <2>1. /\ pc[c] = "kwake" /\ EnqueueOn(target, t) /\ cpu_id' = Pinned(target, t)
        /\ batch' = [batch EXCEPT ![c] = Tail(batch[c])]
        /\ pc' = [pc EXCEPT ![c] = IF Len(batch[c]) = 1 THEN "task" ELSE "kwake"]
        /\ UNCHANGED <<current, boost_in, sleeping_list, stk, picked, victim, state, left, at, scpu>>
        /\ UNCHANGED <<blocked_task_list, dead_task_list, to_clean, freed, phase, keys, dropped>>
    BY Zenon DEF KbdWake, Goto, globalVars
  <2>2. /\ t \in Task /\ Tail(batch[c]) \in Seq(Task)
        /\ Tail(batch[c]) = <<>> <=> Len(batch[c]) = 1
    BY <2>1, BatchFacts, Zenon
  <2> HIDE DEF t
  <2>3. target \in Cpu
    BY <2>2, Zenon DEF TypeOK
  <2> HIDE DEF target
  <2>4. rq' \in [Cpu -> RqType] /\ cpu_id' \in [Task -> Cpu \cup {None}]
    BY <2>1, <2>2, <2>3, <1>EnqueueTyped, Zenon
  <2>5. batch' \in [Cpu -> Seq(Task)] /\ pc' \in [Cpu -> Pc]
    BY <2>1, <2>2, Zenon DEF TypeOK, Pc
  <2>6. TypeOK'
    BY <2>1, <2>4, <2>5, Zenon DEF TypeOK
  <2>7. Control'
    BY <2>1, <2>2, Zenon DEF TypeOK, Control, CpuControl, TaskControl
  <2> QED
    BY <2>6, <2>7
<1>Exit. ASSUME NEW c \in Cpu, NEW t \in Task, TaskExit(c, t)
         PROVE  TypeOK' /\ Control'
  <2> USE <1>Exit
  <2>1. /\ t # Main /\ at[t] \in {"user", "kernel"}
        /\ state' = [state EXCEPT ![t] = "ZOMBIE"] /\ cpu_id' = [cpu_id EXCEPT ![t] = None]
        /\ dead_task_list' = <<t>> \o dead_task_list /\ at' = [at EXCEPT ![t] = "zombie"]
        /\ UNCHANGED <<rq, current, boost_in, sleeping_list, pc, stk, batch, picked, victim, left, scpu>>
        /\ UNCHANGED <<blocked_task_list, to_clean, freed, phase, keys, dropped>>
    BY Zenon DEF TaskExit, Move, cpuVars
  <2>2. /\ dead_task_list' \in Seq(Task) /\ state' \in [Task -> State]
        /\ at' \in [Task -> UserAt \cup KernelAt] /\ cpu_id' \in [Task -> Cpu \cup {None}]
    BY <2>1 DEF TypeOK, UserAt, State
  <2>3. TypeOK'
    BY <2>1, <2>2, Zenon DEF TypeOK
  <2>4. \A u \in Task : at'[u] = at[u] \/ (u = t /\ at'[u] = "zombie")
    BY <2>1, Zenon DEF TypeOK
  <2>5. Control'
    <3>1. \A d \in Cpu : CpuControl(d)'
      BY <2>1, Zenon DEF Control, CpuControl
    <3>2. \A u \in Task : TaskControl(u)'
      BY <2>1, <2>4, ConstantFacts DEF Control, TaskControl, UserAt, KernelAt
    <3>3. at'[Main] \notin {"new", "zombie"} /\ (blocked_task_list' # <<>> => "kbd" \in Calls)
      BY <2>1, <2>4, ConstantFacts, Zenon DEF Control
    <3> QED
      BY <3>1, <3>2, <3>3, Zenon DEF Control
  <2> QED
    BY <2>3, <2>5
<1>Reap. ASSUME NEW c \in Cpu, ReapTake(c) \/ ReapFree(c)
         PROVE  TypeOK' /\ Control'
  <2> USE <1>Reap
  <2>1. CASE ReapTake(c)
    BY <2>1, Zenon DEF ReapTake, TypeOK, Control, CpuControl, TaskControl, cpuVars, taskVars
  <2>2. CASE ReapFree(c)
    <3>1. to_clean \in Seq(Task) /\ to_clean # <<>>
      BY <2>2 DEF ReapFree, TypeOK
    <3>2. Head(to_clean) \in Task /\ Tail(to_clean) \in Seq(Task)
      BY <3>1, TailFacts
    <3> QED
      BY <2>2, <3>2, Zenon DEF ReapFree, TypeOK, Control, CpuControl, TaskControl, cpuVars, taskVars
  <2> QED
    BY <2>1, <2>2
<1>1. CASE UNCHANGED vars
  BY <1>1, Zenon DEF TypeOK, Control, CpuControl, TaskControl, vars, cpuVars, taskVars, globalVars
<1>2. CASE Next
  <2>1. PICK c \in Cpu :
             \/ StartIdle(c) \/ MainOn(c) \/ Tick(c) \/ KeyPress(c) \/ Wake(c) \/ Boost(c) \/ Requeue(c)
             \/ Affinity(c) \/ Pick(c) \/ StealFrom(c) \/ Switch(c) \/ KbdWake(c) \/ ReapTake(c) \/ ReapFree(c)
             \/ \E t \in Task : \/ Spawn(c, t) \/ MsleepInsert(c, t) \/ KbdPop(c, t) \/ KbdBlock(c, t)
                                \/ TaskExit(c, t)
                                \/ \E n \in 0 .. MaxSleep : SysSleep(c, t, n) \/ MsleepMark(c, t, n)
    BY <1>2, NextSteps, Zenon
  <2>2. ASSUME NEW t \in Task,
               \/ Spawn(c, t) \/ MsleepInsert(c, t) \/ KbdPop(c, t) \/ KbdBlock(c, t) \/ TaskExit(c, t)
               \/ \E n \in 0 .. MaxSleep : SysSleep(c, t, n) \/ MsleepMark(c, t, n)
        PROVE  TypeOK' /\ Control'
    <3>1. 0 \in 0 .. MaxSleep
      BY ConstantFacts
    <3> QED
      BY <2>2, <3>1, <1>Spawn, <1>Sleep, <1>Kbd, <1>Exit, Zenon
  <2> QED
    BY <2>1, <2>2, <1>Boot, <1>Tick, <1>KeyPress, <1>Wake, <1>Schedule, <1>Pick, <1>Steal,
       <1>Switch, <1>KbdWake, <1>Reap, Zenon
<1> QED
  BY <1>1, <1>2

=============================================================================
