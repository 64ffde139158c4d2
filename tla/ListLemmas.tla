----------------------------- MODULE ListLemmas -----------------------------
(* What the operations on lists do to the members of a list. *)
EXTENDS Lists, TLAPS

\* Appending an entry that is not on the list (wait_exclusive).
LEMMA RngAppend ==
  ASSUME NEW S, NEW s \in Seq(S), NEW e \in S
  PROVE  /\ Append(s, e) \in Seq(S)
         /\ Range(Append(s, e)) = Range(s) \union {e}
         /\ IsInjective(s) /\ e \notin Range(s) => IsInjective(Append(s, e))
<1> DEFINE r == Append(s, e)
<1>1. /\ r \in Seq(S) /\ Len(r) = Len(s) + 1
      /\ \A k \in 1..Len(s) : r[k] = s[k]
      /\ r[Len(s) + 1] = e
  OBVIOUS
<1>2. Range(r) = Range(s) \union {e}
  BY <1>1 DEF Range
<1>3. ASSUME IsInjective(s), e \notin Range(s) PROVE IsInjective(r)
  BY <1>1, <1>3 DEF IsInjective, Range
<1> QED BY <1>1, <1>2, <1>3

\* Adding an entry at the head (wait, prepare_to_wait, multi_wait).
LEMMA RngCons ==
  ASSUME NEW S, NEW s \in Seq(S), NEW e \in S
  PROVE  /\ <<e>> \o s \in Seq(S)
         /\ Range(<<e>> \o s) = Range(s) \union {e}
         /\ IsInjective(s) /\ e \notin Range(s) => IsInjective(<<e>> \o s)
<1> DEFINE r == <<e>> \o s
<1>1. /\ r \in Seq(S) /\ Len(r) = Len(s) + 1
      /\ r[1] = e
      /\ \A k \in 1..Len(s) : r[k + 1] = s[k]
      /\ DOMAIN r = 1..Len(r)
  OBVIOUS
<1> HIDE DEF r
<1>2. \A k \in 1..Len(r) : k = 1 \/ (k - 1 \in 1..Len(s) /\ r[k] = s[k - 1])
  BY <1>1
<1>3. Range(r) = Range(s) \union {e}
  <2>1. ASSUME NEW x \in Range(r) PROVE x \in Range(s) \union {e}
    BY <1>1, <1>2 DEF Range
  <2>2. ASSUME NEW x \in Range(s) \union {e} PROVE x \in Range(r)
    <3>1. CASE x = e
      <4>1. 1 \in DOMAIN r
        BY <1>1
      <4> QED BY <1>1, <3>1, <4>1 DEF Range
    <3>2. CASE x \in Range(s)
      <4>1. PICK k \in 1..Len(s) : x = s[k]
        BY <3>2 DEF Range
      <4>2. k + 1 \in DOMAIN r /\ r[k + 1] = x
        BY <1>1, <4>1
      <4> QED BY <4>2 DEF Range
    <3> QED BY <3>1, <3>2
  <2> QED BY <2>1, <2>2
<1>4. ASSUME IsInjective(s), e \notin Range(s) PROVE IsInjective(r)
  <2>1. \A k \in 1..Len(s) : s[k] # e
    BY <1>4 DEF Range
  <2>2. \A m \in 1..Len(s), n \in 1..Len(s) : s[m] = s[n] => m = n
    BY <1>4 DEF IsInjective
  <2>3. ASSUME NEW i \in 1..Len(r), NEW j \in 1..Len(r), r[i] = r[j] PROVE i = j
    <3>1. CASE i = 1 \/ j = 1
      BY <1>1, <1>2, <2>1, <2>3, <3>1
    <3>2. CASE i # 1 /\ j # 1
      <4>1. i - 1 = j - 1
        BY <1>2, <2>2, <2>3, <3>2
      <4> QED BY <4>1
    <3> QED BY <3>1, <3>2
  <2> QED BY <1>1, <2>3 DEF IsInjective
<1> QED BY <1>1, <1>3, <1>4 DEF r

\* Unlinking the head (autoremove_wake_function).
LEMMA RngTail ==
  ASSUME NEW S, NEW s \in Seq(S), s # <<>>, IsInjective(s)
  PROVE  /\ Head(s) \in Range(s) /\ Head(s) \in S
         /\ Tail(s) \in Seq(S)
         /\ Range(Tail(s)) = Range(s) \ {Head(s)}
         /\ IsInjective(Tail(s))
<1> DEFINE r == Tail(s)
<1>1. /\ r \in Seq(S) /\ Len(r) = Len(s) - 1 /\ Len(s) >= 1
      /\ \A k \in 1..Len(r) : r[k] = s[k + 1]
      /\ Head(s) = s[1] /\ s[1] \in S
      /\ DOMAIN r = 1..Len(r)
  OBVIOUS
<1> HIDE DEF r
<1>2. Head(s) \in Range(s)
  BY <1>1 DEF Range
<1>3. Range(r) = Range(s) \ {Head(s)}
  <2>1. ASSUME NEW x \in Range(r) PROVE x \in Range(s) \ {Head(s)}
    BY <1>1 DEF Range, IsInjective
  <2>2. ASSUME NEW x \in Range(s), x # Head(s) PROVE x \in Range(r)
    <3>1. PICK k \in 1..Len(s) : x = s[k]
      BY DEF Range
    <3>2. k - 1 \in 1..Len(r) /\ r[k - 1] = s[k]
      BY <1>1, <2>2, <3>1
    <3> QED BY <1>1, <3>1, <3>2 DEF Range
  <2> QED BY <2>1, <2>2
<1>4. IsInjective(r)
  <2>1. \A m \in 1..Len(s), n \in 1..Len(s) : s[m] = s[n] => m = n
    BY DEF IsInjective
  <2>2. ASSUME NEW i \in 1..Len(r), NEW j \in 1..Len(r), r[i] = r[j] PROVE i = j
    <3>1. /\ i + 1 \in 1..Len(s) /\ j + 1 \in 1..Len(s)
          /\ s[i + 1] = s[j + 1]
      BY <1>1, <2>2
    <3>2. i + 1 = j + 1
      BY <2>1, <3>1
    <3> QED BY <3>2
  <2> QED BY <1>1, <2>2 DEF IsInjective
<1> QED BY <1>1, <1>2, <1>3, <1>4 DEF r

\* del_init removes the entry, and only it.
LEMMA RngDel ==
  ASSUME NEW S, NEW s \in Seq(S), NEW e, IsInjective(s)
  PROVE  /\ Del(s, e) \in Seq(S)
         /\ Range(Del(s, e)) = Range(s) \ {e}
         /\ IsInjective(Del(s, e))
<1>1. CASE ~ \E k \in DOMAIN s : s[k] = e
  BY <1>1 DEF Del, Range
<1>2. CASE \E k \in DOMAIN s : s[k] = e
  <2> DEFINE k == CHOOSE k \in DOMAIN s : s[k] = e
             r == [j \in 1..(Len(s) - 1) |-> IF j < k THEN s[j] ELSE s[j + 1]]
  <2>1. k \in 1..Len(s) /\ s[k] = e
    BY <1>2
  <2>2. Del(s, e) = r
    BY <1>2 DEF Del
  <2> HIDE DEF k
  <2>3. /\ Len(s) - 1 \in Nat
        /\ \A j \in 1..(Len(s) - 1) : j \in 1..Len(s) /\ j + 1 \in 1..Len(s) /\ r[j] \in S
    BY <2>1
  <2>4. r \in Seq(S) /\ Len(r) = Len(s) - 1 /\ DOMAIN r = 1..(Len(s) - 1)
    BY <2>3
  <2>5. \A j \in 1..Len(r) : r[j] = IF j < k THEN s[j] ELSE s[j + 1]
    BY <2>4
  <2> HIDE DEF r
  <2>6. Range(r) = Range(s) \ {e}
    <3>1. ASSUME NEW x \in Range(r) PROVE x \in Range(s) \ {e}
      <4>1. PICK j \in 1..Len(r) : x = r[j]
        BY <2>4 DEF Range
      <4>2. PICK m \in 1..Len(s) : m # k /\ x = s[m]
        <5>1. CASE j < k
          BY <2>3, <2>4, <2>5, <4>1, <5>1
        <5>2. CASE ~(j < k)
          BY <2>1, <2>3, <2>4, <2>5, <4>1, <5>2
        <5> QED BY <5>1, <5>2
      <4>3. x # e
        BY <2>1, <4>2 DEF IsInjective
      <4> QED BY <4>2, <4>3 DEF Range
    <3>2. ASSUME NEW x \in Range(s), x # e PROVE x \in Range(r)
      <4>1. PICK m \in 1..Len(s) : x = s[m]
        BY DEF Range
      <4>2. m # k
        BY <2>1, <3>2, <4>1
      <4>3. CASE m < k
        BY <2>1, <2>4, <2>5, <4>1, <4>3 DEF Range
      <4>4. CASE m > k
        <5>1. m - 1 \in 1..Len(r) /\ r[m - 1] = s[m]
          BY <2>1, <2>4, <2>5, <4>1, <4>4
        <5> QED BY <2>4, <4>1, <5>1 DEF Range
      <4> QED BY <2>1, <4>1, <4>2, <4>3, <4>4
    <3> QED BY <3>1, <3>2
  <2>7. IsInjective(r)
    <3> DEFINE at(j) == IF j < k THEN j ELSE j + 1
    <3>1. ASSUME NEW i \in 1..Len(r) PROVE at(i) \in 1..Len(s) /\ r[i] = s[at(i)]
      BY <2>1, <2>4, <2>5
    <3>2. ASSUME NEW i \in 1..Len(r), NEW j \in 1..Len(r), at(i) = at(j) PROVE i = j
      BY <2>1, <2>4, <3>2
    <3>3. \A m \in DOMAIN s, n \in DOMAIN s : s[m] = s[n] => m = n
      BY DEF IsInjective
    <3> HIDE DEF at
    <3>4. ASSUME NEW i \in 1..Len(r), NEW j \in 1..Len(r), r[i] = r[j] PROVE i = j
      <4>1. at(i) \in DOMAIN s /\ at(j) \in DOMAIN s
        BY <3>1
      <4>2. s[at(i)] = s[at(j)]
        BY <3>1, <3>4
      <4> QED BY <3>2, <3>3, <4>1, <4>2
    <3> QED BY <2>4, <3>4 DEF IsInjective
  <2> QED BY <2>2, <2>4, <2>6, <2>7
<1> QED BY <1>1, <1>2

\* What follows an entry that leaves the list moves up.
LEMMA DelAt ==
  ASSUME NEW S, NEW s \in Seq(S), IsInjective(s), NEW k \in DOMAIN s
  PROVE  /\ DOMAIN Del(s, s[k]) = 1..(Len(s) - 1)
         /\ \A j \in 1..(Len(s) - 1) : Del(s, s[k])[j] = IF j < k THEN s[j] ELSE s[j + 1]
<1>1. k = CHOOSE i \in DOMAIN s : s[i] = s[k]
  BY DEF IsInjective
<1> QED
  BY <1>1 DEF Del
=============================================================================
