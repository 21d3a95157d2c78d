----------------------------- MODULE ThreadLists ----------------------------
(***************************************************************************)
(* Facts about the kernel's lists of threads, which are sequences without  *)
(* repetition: what taking the first thread, adding one at the end, moving *)
(* a whole list and removing one from the middle do to their members.      *)
(***************************************************************************)
EXTENDS Integers, Sequences, Functions, TLAPS

(* A list of length zero is the empty one. *)
LEMMA NoElements ==
  ASSUME NEW S, NEW s \in Seq(S), Len(s) = 0
  PROVE  s = <<>>
  OBVIOUS

(* The members of a thread list without its head. *)
LEMMA TailMembers ==
  ASSUME NEW S, NEW s \in Seq(S), s # <<>>
  PROVE  /\ Tail(s) \in Seq(S)
         /\ Head(s) \in Range(s)
         /\ Range(s) = {Head(s)} \cup Range(Tail(s))
         /\ IsInjective(s) => IsInjective(Tail(s)) /\ Head(s) \notin Range(Tail(s))
  <1>1. Len(s) \in Nat \ {0} /\ Head(s) = s[1]
    OBVIOUS
  <1>2. /\ DOMAIN Tail(s) = 1..(Len(s) - 1)
        /\ \A i \in 1..(Len(s) - 1) : Tail(s)[i] = s[i + 1]
    BY <1>1
  <1>3. DOMAIN s = 1..Len(s)
    OBVIOUS
  <1>4. \A i \in 1..Len(s) : i = 1 \/ (i - 1 \in 1..(Len(s) - 1) /\ Tail(s)[i - 1] = s[i])
    BY <1>1, <1>2
  <1>5. \A i \in 1..(Len(s) - 1) : i + 1 \in 1..Len(s) /\ i + 1 # 1
    BY <1>1
  <1> HIDE <1>1
  <1>6. Head(s) = s[1] /\ 1 \in DOMAIN s
    BY <1>1, <1>3
  <1>7. Range(s) = {Head(s)} \cup Range(Tail(s))
    <2>1. ASSUME NEW i \in 1..Len(s) PROVE s[i] \in {Head(s)} \cup Range(Tail(s))
      BY <1>2, <1>4, <1>6, ZenonT(30) DEF Range
    <2>2. ASSUME NEW i \in 1..(Len(s) - 1) PROVE Tail(s)[i] \in Range(s)
      BY <1>2, <1>3, <1>5 DEF Range
    <2>3. Head(s) \in Range(s)
      BY <1>6 DEF Range
    <2>4. Range(s) \subseteq {Head(s)} \cup Range(Tail(s))
      BY <1>3, <2>1 DEF Range
    <2>5. Range(Tail(s)) \subseteq Range(s)
      BY <1>2, <2>2 DEF Range
    <2>6. QED
      BY <2>3, <2>4, <2>5
  <1>8. ASSUME IsInjective(s) PROVE IsInjective(Tail(s)) /\ Head(s) \notin Range(Tail(s))
    BY <1>2, <1>3, <1>5, <1>6, <1>8 DEF Range, IsInjective
  <1>9. Tail(s) \in Seq(S)
    OBVIOUS
  <1>10. QED
    BY <1>6, <1>7, <1>8, <1>9, ZenonT(30) DEF Range

(* The members of a thread list with a thread added at its end. *)
LEMMA AppendMembers ==
  ASSUME NEW S, NEW s \in Seq(S), NEW e \in S
  PROVE  /\ Append(s, e) \in Seq(S)
         /\ Append(s, e) # <<>>
         /\ Range(Append(s, e)) = Range(s) \cup {e}
         /\ IsInjective(s) /\ e \notin Range(s) => IsInjective(Append(s, e))
  <1>1. /\ DOMAIN s = 1..Len(s) /\ DOMAIN Append(s, e) = 1..(Len(s) + 1)
        /\ Len(s) \in Nat
        /\ \A i \in 1..Len(s) : Append(s, e)[i] = s[i]
        /\ Append(s, e)[Len(s) + 1] = e
    OBVIOUS
  <1>2. Range(Append(s, e)) = Range(s) \cup {e}
    BY <1>1 DEF Range
  <1>3. IsInjective(s) /\ e \notin Range(s) => IsInjective(Append(s, e))
    BY <1>1 DEF Range, IsInjective
  <1>4. Append(s, e) \in Seq(S) /\ Len(Append(s, e)) = Len(s) + 1
    OBVIOUS
  <1>5. Append(s, e) # <<>>
    BY <1>1, <1>4
  <1>6. QED
    BY <1>2, <1>3, <1>4, <1>5

(* The members of two thread lists, one moved behind the other. *)
LEMMA ConcatMembers ==
  ASSUME NEW S, NEW s \in Seq(S), NEW t \in Seq(S)
  PROVE  /\ s \o t \in Seq(S)
         /\ Range(s \o t) = Range(s) \cup Range(t)
         /\ IsInjective(s) /\ IsInjective(t) /\ Range(s) \cap Range(t) = {}
              => IsInjective(s \o t)
  <1>1. /\ DOMAIN s = 1..Len(s) /\ DOMAIN t = 1..Len(t)
        /\ DOMAIN (s \o t) = 1..(Len(s) + Len(t))
        /\ Len(s) \in Nat /\ Len(t) \in Nat
        /\ \A i \in 1..Len(s) : (s \o t)[i] = s[i]
        /\ \A i \in 1..Len(t) : (s \o t)[Len(s) + i] = t[i]
    OBVIOUS
  <1>2. \A i \in 1..(Len(s) + Len(t)) :
          \/ i \in 1..Len(s) /\ (s \o t)[i] = s[i]
          \/ i - Len(s) \in 1..Len(t) /\ (s \o t)[i] = t[i - Len(s)]
    BY <1>1
  <1> DEFINE c == s \o t
  <1>3. /\ c \in Seq(S)
        /\ DOMAIN c = 1..(Len(s) + Len(t))
        /\ \A i \in 1..Len(s) : i \in DOMAIN c /\ c[i] = s[i]
        /\ \A i \in 1..Len(t) : Len(s) + i \in DOMAIN c /\ c[Len(s) + i] = t[i]
        /\ \A i \in DOMAIN c :
             \/ i \in 1..Len(s) /\ c[i] = s[i]
             \/ i - Len(s) \in 1..Len(t) /\ c[i] = t[i - Len(s)]
    BY <1>1, <1>2
  <1> HIDE DEF c
  <1>4. Range(c) = Range(s) \cup Range(t)
    <2>1. ASSUME NEW i \in DOMAIN c PROVE c[i] \in Range(s) \cup Range(t)
      BY <1>1, <1>3 DEF Range
    <2>2. ASSUME NEW i \in 1..Len(s) PROVE s[i] \in Range(c)
      BY <1>3 DEF Range
    <2>3. ASSUME NEW i \in 1..Len(t) PROVE t[i] \in Range(c)
      BY <1>3, ZenonT(30) DEF Range
    <2>4. Range(c) \subseteq Range(s) \cup Range(t)
      BY <2>1 DEF Range
    <2>5. Range(s) \subseteq Range(c) /\ Range(t) \subseteq Range(c)
      BY <1>1, <2>2, <2>3 DEF Range
    <2>6. QED
      BY <2>4, <2>5
  <1>5. ASSUME IsInjective(s), IsInjective(t), Range(s) \cap Range(t) = {},
               NEW a \in DOMAIN c, NEW b \in DOMAIN c, c[a] = c[b]
        PROVE  a = b
    <2>1. \A i \in 1..Len(s), k \in 1..Len(t) : s[i] # t[k]
      BY <1>1, <1>5, ZenonT(30) DEF Range
    <2>2. CASE a \in 1..Len(s) /\ c[a] = s[a] /\ b \in 1..Len(s) /\ c[b] = s[b]
      BY <1>1, <1>5, <2>2, ZenonT(30) DEF IsInjective
    <2>3. CASE /\ a - Len(s) \in 1..Len(t) /\ c[a] = t[a - Len(s)]
               /\ b - Len(s) \in 1..Len(t) /\ c[b] = t[b - Len(s)]
      <3>1. a - Len(s) = b - Len(s)
        BY <1>1, <1>5, <2>3, ZenonT(30) DEF IsInjective
      <3>2. QED
        BY <1>1, <1>3, <3>1
    <2>4. QED
      BY <1>3, <1>5, <2>1, <2>2, <2>3
  <1>6. QED
    BY <1>3, <1>4, <1>5 DEF IsInjective, c

(* The threads of two lists, one moved behind the other, by position. *)
LEMMA ConcatElements ==
  ASSUME NEW S, NEW p \in Seq(S), NEW q \in Seq(S)
  PROVE  /\ p \o q \in Seq(S) /\ Len(p \o q) = Len(p) + Len(q)
         /\ \A k \in 1..(Len(p) + Len(q)) :
              (p \o q)[k] = IF k <= Len(p) THEN p[k] ELSE q[k - Len(p)]
  OBVIOUS

(* A thread list without its i-th thread. *)
Without(s, i) == SubSeq(s, 1, i - 1) \o SubSeq(s, i + 1, Len(s))

(* The threads of a list without its i-th thread, by position. *)
LEMMA RemoveElements ==
  ASSUME NEW S, NEW s \in Seq(S), NEW i \in 1..Len(s)
  PROVE  /\ Without(s, i) \in Seq(S) /\ Len(Without(s, i)) = Len(s) - 1
         /\ \A k \in 1..(Len(s) - 1) : Without(s, i)[k] = IF k < i THEN s[k] ELSE s[k + 1]
  <1> DEFINE r == Without(s, i)
             p == SubSeq(s, 1, i - 1)
             q == SubSeq(s, i + 1, Len(s))
             n == Len(p)
             m == Len(q)
  <1>1. Len(s) \in Nat /\ i \in 1..Len(s)
    OBVIOUS
  <1>2. /\ p \in Seq(S) /\ Len(p) = i - 1 /\ \A k \in 1..(i - 1) : p[k] = s[k]
        /\ q \in Seq(S) /\ Len(q) = Len(s) - i
        /\ \A k \in 1..(Len(s) - i) : q[k] = s[k + i]
    <2>1. p \in Seq(S) /\ Len(p) = i - 1 /\ \A k \in 1..(i - 1) : p[k] = s[k]
      BY <1>1
    <2>2. /\ q \in Seq(S) /\ Len(q) = Len(s) - i
          /\ \A k \in 1..(Len(s) - i) : q[k] = s[k + i]
      BY <1>1
    <2>3. QED
      BY <2>1, <2>2, ZenonT(30)
  <1>3. r = p \o q
    BY DEF Without
  <1> HIDE DEF r, p, q
  <1>4. /\ r \in Seq(S) /\ Len(r) = n + m
        /\ \A k \in 1..(n + m) : r[k] = IF k <= n THEN p[k] ELSE q[k - n]
    BY <1>2, <1>3, ConcatElements, ZenonT(30)
  <1>5. n = i - 1 /\ m = Len(s) - i
    BY <1>2
  <1> HIDE DEF n, m
  <1>6. r \in Seq(S) /\ Len(r) = Len(s) - 1
    BY <1>1, <1>4, <1>5
  <1>7. ASSUME NEW k \in 1..(Len(s) - 1), k < i PROVE r[k] = s[k]
    <2>1. k \in 1..(i - 1) /\ k \in 1..(n + m) /\ k <= n
      BY <1>1, <1>5, <1>7
    <2>2. r[k] = p[k]
      BY <1>4, <2>1
    <2>3. QED
      BY <1>2, <2>1, <2>2
  <1>8. ASSUME NEW k \in 1..(Len(s) - 1), ~(k < i) PROVE r[k] = s[k + 1]
    <2>1. /\ k - (i - 1) \in 1..(Len(s) - i) /\ k - (i - 1) + i = k + 1
          /\ k \in 1..(n + m) /\ ~(k <= n) /\ k - n = k - (i - 1)
      BY <1>1, <1>5, <1>8
    <2>2. r[k] = q[k - (i - 1)]
      BY <1>4, <2>1
    <2>3. QED
      BY <1>2, <2>1, <2>2
  <1>9. QED
    BY <1>6, <1>7, <1>8 DEF r

(* The members of a thread list without its i-th thread. *)
LEMMA RemoveMembers ==
  ASSUME NEW S, NEW s \in Seq(S), NEW i \in DOMAIN s, IsInjective(s)
  PROVE  /\ Without(s, i) \in Seq(S)
         /\ Range(Without(s, i)) = Range(s) \ {s[i]}
         /\ IsInjective(Without(s, i))
  <1> DEFINE r == Without(s, i)
  <1>1. DOMAIN s = 1..Len(s) /\ Len(s) \in Nat /\ i \in 1..Len(s)
    OBVIOUS
  <1> HIDE DEF r
  <1>2. /\ r \in Seq(S) /\ Len(r) = Len(s) - 1
        /\ \A k \in 1..(Len(s) - 1) : r[k] = IF k < i THEN s[k] ELSE s[k + 1]
    BY <1>1, RemoveElements DEF r
  <1>3. DOMAIN r = 1..(Len(s) - 1)
    BY <1>2
  <1>4. \A k \in 1..Len(s) : k = i \/ (k < i /\ k \in 1..(Len(s) - 1) /\ r[k] = s[k])
                            \/ (k - 1 \in 1..(Len(s) - 1) /\ r[k - 1] = s[k])
    BY <1>1, <1>2, SMTT(30)
  <1>5. Range(r) = Range(s) \ {s[i]}
    <2>1. ASSUME NEW k \in 1..(Len(s) - 1) PROVE r[k] \in Range(s) \ {s[i]}
      <3>1. PICK n \in 1..Len(s) : n # i /\ r[k] = s[n]
        BY <1>1, <1>2
      <3>2. QED
        BY <1>1, <3>1 DEF Range, IsInjective
    <2>2. ASSUME NEW k \in 1..Len(s), s[k] # s[i] PROVE s[k] \in Range(r)
      BY <1>1, <1>3, <1>4, <2>2, ZenonT(30) DEF Range
    <2>3. QED
      BY <1>1, <1>3, <2>1, <2>2 DEF Range
  <1>6. ASSUME NEW a \in 1..(Len(s) - 1), NEW b \in 1..(Len(s) - 1), r[a] = r[b]
         PROVE  a = b
    <2>1. \A k \in 1..(Len(s) - 1) : k \in 1..Len(s) /\ k + 1 \in 1..Len(s)
      BY <1>1
    <2>2. \A k, m \in 1..Len(s) : s[k] = s[m] => k = m
      BY <1>1 DEF IsInjective
    <2>3. (IF a < i THEN a ELSE a + 1) = (IF b < i THEN b ELSE b + 1)
      BY <1>2, <1>6, <2>1, <2>2
    <2>4. QED
      BY <1>1, <2>3
  <1>7. QED
    BY <1>2, <1>3, <1>5, <1>6 DEF r, IsInjective

(* A list of threads with one more as its i-th. *)
With(s, i, e) == SubSeq(s, 1, i - 1) \o <<e>> \o SubSeq(s, i, Len(s))

(* The threads of that list, by position. *)
LEMMA InsertElements ==
  ASSUME NEW S, NEW s \in Seq(S), NEW i \in 1..(Len(s) + 1), NEW e \in S
  PROVE  /\ With(s, i, e) \in Seq(S) /\ Len(With(s, i, e)) = Len(s) + 1
         /\ \A k \in 1..(Len(s) + 1) :
              With(s, i, e)[k] = IF k < i THEN s[k] ELSE IF k = i THEN e ELSE s[k - 1]
  <1> DEFINE r == With(s, i, e)
             p == SubSeq(s, 1, i - 1)
             b == <<e>>
             c == p \o b
             q == SubSeq(s, i, Len(s))
             n == Len(c)
             m == Len(q)
  <1>1. Len(s) \in Nat /\ i \in 1..(Len(s) + 1)
    OBVIOUS
  <1>2. /\ p \in Seq(S) /\ Len(p) = i - 1 /\ \A k \in 1..(i - 1) : p[k] = s[k]
        /\ q \in Seq(S) /\ Len(q) = Len(s) - i + 1
        /\ \A k \in 1..(Len(s) - i + 1) : q[k] = s[k + i - 1]
        /\ b \in Seq(S) /\ Len(b) = 1 /\ b[1] = e
    BY <1>1
  <1>3. r = c \o q
    BY DEF With
  <1> HIDE DEF r, p, q, b
  <1>4. c \in Seq(S) /\ Len(c) = i /\ \A k \in 1..i : c[k] = IF k < i THEN s[k] ELSE e
    <2> DEFINE x == Len(p)
               y == Len(b)
    <2>1. /\ c \in Seq(S) /\ Len(c) = x + y
          /\ \A k \in 1..(x + y) : c[k] = IF k <= x THEN p[k] ELSE b[k - x]
      <3>1. p \in Seq(S) /\ b \in Seq(S)
        BY <1>2
      <3>2. QED
        BY <3>1, ConcatElements, ZenonT(30)
    <2>2. x = i - 1 /\ y = 1 /\ x + y = i
      BY <1>1, <1>2
    <2> HIDE DEF x, y, c
    <2>3. ASSUME NEW k \in 1..i, k < i PROVE c[k] = s[k]
      <3>1. k \in 1..(i - 1) /\ k \in 1..(x + y) /\ k <= x
        BY <1>1, <2>2, <2>3
      <3>2. c[k] = p[k]
        BY <2>1, <3>1
      <3>3. QED
        BY <1>2, <3>1, <3>2
    <2>4. c[i] = e
      <3>1. i \in 1..(x + y) /\ ~(i <= x) /\ i - x = 1
        BY <1>1, <2>2
      <3>2. QED
        BY <1>2, <2>1, <3>1
    <2>5. QED
      BY <1>1, <2>1, <2>2, <2>3, <2>4
  <1> HIDE DEF c
  <1>5. /\ r \in Seq(S) /\ Len(r) = n + m
        /\ \A k \in 1..(n + m) : r[k] = IF k <= n THEN c[k] ELSE q[k - n]
    <2>1. c \in Seq(S) /\ q \in Seq(S)
      BY <1>2, <1>4
    <2>2. QED
      BY <1>3, <2>1, ConcatElements, ZenonT(30)
  <1>6. n = i /\ m = Len(s) - i + 1 /\ n + m = Len(s) + 1
    BY <1>1, <1>2, <1>4
  <1> HIDE DEF n, m
  <1>7. ASSUME NEW k \in 1..(Len(s) + 1), k <= i
        PROVE  r[k] = IF k < i THEN s[k] ELSE e
    <2>1. k \in 1..i /\ k \in 1..(n + m) /\ k <= n
      BY <1>1, <1>6, <1>7
    <2>2. r[k] = c[k]
      BY <1>5, <2>1
    <2>3. QED
      BY <1>4, <2>1, <2>2
  <1>8. ASSUME NEW k \in 1..(Len(s) + 1), ~(k <= i) PROVE r[k] = s[k - 1]
    <2>1. /\ k - i \in 1..(Len(s) - i + 1) /\ (k - i) + i - 1 = k - 1
          /\ k \in 1..(n + m) /\ ~(k <= n) /\ k - n = k - i
      BY <1>1, <1>6, <1>8
    <2>2. r[k] = q[k - i]
      BY <1>5, <2>1
    <2>3. QED
      BY <1>2, <2>1, <2>2
  <1>9. QED
    BY <1>1, <1>5, <1>6, <1>7, <1>8 DEF r

(* The members of a list with a thread inserted that was not on it. *)
LEMMA InsertMembers ==
  ASSUME NEW S, NEW s \in Seq(S), NEW i \in 1..(Len(s) + 1), NEW e \in S,
         IsInjective(s), e \notin Range(s)
  PROVE  /\ Range(With(s, i, e)) = Range(s) \cup {e}
         /\ IsInjective(With(s, i, e))
  <1> DEFINE r == With(s, i, e)
             n == Len(s)
  <1>1. DOMAIN s = 1..n /\ n \in Nat /\ i \in 1..(n + 1)
    OBVIOUS
  <1>2. /\ DOMAIN r = 1..(n + 1)
        /\ \A k \in 1..(n + 1) : r[k] = IF k < i THEN s[k] ELSE IF k = i THEN e ELSE s[k - 1]
    BY InsertElements
  <1> HIDE DEF r, n
  <1>3. \A k \in 1..n : s[k] # e
    BY <1>1 DEF Range
  <1>4. \A k \in 1..n : \/ k < i /\ k \in 1..(n + 1) /\ r[k] = s[k]
                        \/ k + 1 \in 1..(n + 1) /\ r[k + 1] = s[k]
    BY <1>1, <1>2
  <1>5. \A k \in 1..(n + 1) : \/ k = i /\ r[k] = e
                              \/ k < i /\ k \in 1..n /\ r[k] = s[k]
                              \/ k > i /\ k - 1 \in 1..n /\ r[k] = s[k - 1]
    BY <1>1, <1>2
  <1>6. Range(r) = Range(s) \cup {e}
    <2>1. ASSUME NEW k \in 1..(n + 1) PROVE r[k] \in Range(s) \cup {e}
      BY <1>1, <1>5, ZenonT(30) DEF Range
    <2>2. ASSUME NEW k \in 1..n PROVE s[k] \in Range(r)
      BY <1>2, <1>4, ZenonT(30) DEF Range
    <2>3. e \in Range(r)
      BY <1>1, <1>2 DEF Range
    <2>4. QED
      BY <1>1, <1>2, <2>1, <2>2, <2>3 DEF Range
  <1>7. ASSUME NEW a \in 1..(n + 1), NEW b \in 1..(n + 1), r[a] = r[b] PROVE a = b
    <2>1. \A k, m \in 1..n : s[k] = s[m] => k = m
      BY <1>1 DEF IsInjective
    <2>2. CASE a = i \/ b = i
      BY <1>3, <1>5, <1>7, <2>2
    <2>3. CASE a < i /\ b < i
      BY <1>1, <1>5, <1>7, <2>1, <2>3
    <2>4. CASE a > i /\ b > i
      <3>1. a - 1 = b - 1
        BY <1>1, <1>5, <1>7, <2>1, <2>4
      <3>2. QED
        BY <3>1
    <2>5. CASE a < i /\ b > i
      <3>1. a = b - 1
        BY <1>1, <1>5, <1>7, <2>1, <2>5
      <3>2. QED
        BY <1>1, <2>5, <3>1
    <2>6. CASE a > i /\ b < i
      <3>1. a - 1 = b
        BY <1>1, <1>5, <1>7, <2>1, <2>6
      <3>2. QED
        BY <1>1, <2>6, <3>1
    <2>7. QED
      BY <1>1, <2>2, <2>3, <2>4, <2>5, <2>6
  <1>8. QED
    BY <1>2, <1>6, <1>7 DEF r, IsInjective
=============================================================================
