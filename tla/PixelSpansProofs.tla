-------------------------- MODULE PixelSpansProofs --------------------------
(***************************************************************************)
(* The scan of an output file takes out of a frame's list the pixels that  *)
(* are not black, and nothing else, whatever the file holds.               *)
(*                                                                         *)
(* list_remove goes wrong when a run meets more than one span.  It never   *)
(* does here: the runs come in increasing order, and the list's last span  *)
(* always reaches from before the next run to the end of the frame         *)
(* (RunAhead), so that it is the only one a run meets.                     *)
(***************************************************************************)
EXTENDS PixelSpans, SequenceTheorems, WellFoundedInduction, TLAPS

(* The least element of a set of naturals.                                 *)
LEMMA MinOfNaturals ==
    ASSUME NEW S, S \subseteq Nat, S # {}
    PROVE  Min(S) \in S /\ \A y \in S : Min(S) <= y
<1> DEFINE R == {ss \in Nat \X Nat : ss[1] < ss[2]}
<1>1. R = OpToRel(<, Nat)
  BY Zenon DEF OpToRel
<1>2. IsWellFoundedOn(R, Nat)
  BY <1>1, NatLessThanWellFounded
<1>3. PICK x \in S : \A y \in S : ~ (<<y, x>> \in R)
  <2> HIDE DEF R
  <2> QED BY <1>2, WFMin
<1>4. ASSUME NEW y \in S PROVE x <= y
  <2>1. x \in Nat /\ y \in Nat
    OBVIOUS
  <2>2. ~ (<<y, x>> \in R)
    BY <1>3
  <2>3. ~ (y < x)
    BY <2>1, <2>2
  <2>4. QED BY <2>1, <2>3
<1>5. QED BY <1>4 DEF Min

(* The greatest element of a bounded one.                                  *)
LEMMA MaxOfNaturals ==
    ASSUME NEW N \in Nat, NEW S, S \subseteq 0 .. N, S # {}
    PROVE  Max(S) \in S /\ \A y \in S : Max(S) >= y
<1> DEFINE T == {N - x : x \in S}
<1>1. T \subseteq Nat /\ T # {}
  <2>1. ASSUME NEW x \in S PROVE N - x \in Nat
    <3>1. x \in 0 .. N
      OBVIOUS
    <3>2. QED BY <3>1
  <2>2. QED BY <2>1
<1>2. Min(T) \in T /\ \A y \in T : Min(T) <= y
  <2> HIDE DEF T
  <2> QED BY <1>1, MinOfNaturals
<1>3. PICK x \in S : Min(T) = N - x
  BY <1>2
<1>4. ASSUME NEW y \in S PROVE x >= y
  <2>1. N - y \in T
    OBVIOUS
  <2>2. N - x <= N - y
    <3> HIDE DEF T
    <3> QED BY <2>1, <1>2, <1>3
  <2>3. QED BY <2>2
<1>5. QED BY <1>4 DEF Max

-----------------------------------------------------------------------------
(* Lists of spans.                                                         *)

Spans(npix) == [lo : 0 .. npix - 1, hi : 0 .. npix - 1]

Ordered(list) ==
    /\ \A i \in DOMAIN list : list[i].lo <= list[i].hi
    /\ \A i, j \in DOMAIN list : i < j => list[i].hi < list[j].lo

(* The two parts of a list in turn.                                        *)
LEMMA ConcatElements ==
    ASSUME NEW T, NEW s \in Seq(T), NEW t \in Seq(T)
    PROVE  /\ s \o t \in Seq(T)
           /\ DOMAIN (s \o t) = 1 .. Len(s) + Len(t)
           /\ \A i \in DOMAIN s : i \in DOMAIN (s \o t) /\ (s \o t)[i] = s[i]
           /\ \A i \in DOMAIN t : /\ Len(s) + i \in DOMAIN (s \o t)
                                  /\ (s \o t)[Len(s) + i] = t[i]
           /\ \A k \in DOMAIN (s \o t) :
                 \/ k \in DOMAIN s /\ (s \o t)[k] = s[k]
                 \/ k - Len(s) \in DOMAIN t /\ (s \o t)[k] = t[k - Len(s)]
<1>1. /\ s \o t \in Seq(T)
      /\ Len(s \o t) = Len(s) + Len(t)
      /\ \A i \in 1 .. Len(s) + Len(t) :
            (s \o t)[i] = IF i <= Len(s) THEN s[i] ELSE t[i - Len(s)]
  BY ConcatProperties
<1>2. /\ Len(s) \in Nat /\ DOMAIN s = 1 .. Len(s)
      /\ Len(t) \in Nat /\ DOMAIN t = 1 .. Len(t)
      /\ DOMAIN (s \o t) = 1 .. Len(s \o t)
  BY <1>1, LenProperties
<1>3. QED BY <1>1, <1>2

LEMMA ConcatOrdered ==
    ASSUME NEW npix \in Nat, NEW s \in Seq(Spans(npix)), NEW t \in Seq(Spans(npix)),
           Ordered(s), Ordered(t),
           \A i \in DOMAIN s, j \in DOMAIN t : s[i].hi < t[j].lo
    PROVE  Ordered(s \o t)
<1> DEFINE u == s \o t
<1>1. /\ \A k \in DOMAIN u :
            \/ k \in DOMAIN s /\ u[k] = s[k]
            \/ k - Len(s) \in DOMAIN t /\ u[k] = t[k - Len(s)]
      /\ DOMAIN u = 1 .. Len(s) + Len(t)
  BY ConcatElements, Zenon
<1>2. /\ Len(s) \in Nat /\ DOMAIN s = 1 .. Len(s)
      /\ Len(t) \in Nat /\ DOMAIN t = 1 .. Len(t)
  BY LenProperties
<1> HIDE DEF u
<1>3. ASSUME NEW i \in DOMAIN u, NEW j \in DOMAIN u, i < j
      PROVE  u[i].hi < u[j].lo
  <2>1. CASE i \in DOMAIN s /\ j \in DOMAIN s
    BY <1>1, <1>2, <1>3, <2>1 DEF Ordered
  <2>2. CASE i \in DOMAIN s /\ j \notin DOMAIN s
    BY <1>1, <1>2, <1>3, <2>2
  <2>3. CASE i \notin DOMAIN s
    BY <1>1, <1>2, <1>3, <2>3 DEF Ordered
  <2>4. QED BY <2>1, <2>2, <2>3
<1>4. \A i \in DOMAIN u : u[i].lo <= u[i].hi
  BY <1>1 DEF Ordered
<1>5. Ordered(u)
  BY <1>3, <1>4 DEF Ordered
<1>6. QED BY <1>5 DEF u

LEMMA ConcatPixels ==
    ASSUME NEW T, NEW s \in Seq(T), NEW t \in Seq(T)
    PROVE  SpanPixels(s \o t) = SpanPixels(s) \cup SpanPixels(t)
<1> DEFINE u == s \o t
<1>1. /\ \A i \in DOMAIN s : i \in DOMAIN u /\ u[i] = s[i]
      /\ \A i \in DOMAIN t : Len(s) + i \in DOMAIN u /\ u[Len(s) + i] = t[i]
      /\ \A k \in DOMAIN u :
            \/ k \in DOMAIN s /\ u[k] = s[k]
            \/ k - Len(s) \in DOMAIN t /\ u[k] = t[k - Len(s)]
  BY ConcatElements
<1> HIDE DEF u
<1>2. SpanPixels(u) = SpanPixels(s) \cup SpanPixels(t)
  <2>1. ASSUME NEW p \in SpanPixels(u) PROVE p \in SpanPixels(s) \cup SpanPixels(t)
    <3>1. PICK k \in DOMAIN u : p \in u[k].lo .. u[k].hi
      BY DEF SpanPixels
    <3>2. QED BY <1>1, <3>1 DEF SpanPixels
  <2>2. ASSUME NEW p \in SpanPixels(s) PROVE p \in SpanPixels(u)
    <3>1. PICK k \in DOMAIN s : p \in s[k].lo .. s[k].hi
      BY DEF SpanPixels
    <3>2. QED BY <1>1, <3>1 DEF SpanPixels
  <2>3. ASSUME NEW p \in SpanPixels(t) PROVE p \in SpanPixels(u)
    <3>1. PICK k \in DOMAIN t : p \in t[k].lo .. t[k].hi
      BY DEF SpanPixels
    <3>2. QED BY <1>1, <3>1 DEF SpanPixels
  <2>4. QED BY <2>1, <2>2, <2>3
<1>3. QED BY <1>2 DEF u

-----------------------------------------------------------------------------
(* list_remove on a run inside the last span of a list.                    *)

(* What is left of the span s without a..b.                                *)
Rest(s, a, b) ==
    CASE s.lo = a /\ s.hi = b -> <<>>
      [] s.lo = a /\ s.hi # b -> <<Span(b + 1, s.hi)>>
      [] s.lo # a /\ s.hi = b -> <<Span(s.lo, a - 1)>>
      [] OTHER -> <<Span(s.lo, a - 1), Span(b + 1, s.hi)>>

LEMMA OneSpan ==
    ASSUME NEW npix \in Nat, NEW t \in Spans(npix), t.lo <= t.hi
    PROVE  /\ <<t>> \in Seq(Spans(npix)) /\ <<t>> # <<>> /\ Last(<<t>>) = t
           /\ Ordered(<<t>>)
           /\ \A i \in DOMAIN <<t>> : <<t>>[i] = t
           /\ SpanPixels(<<t>>) = t.lo .. t.hi
<1> DEFINE r == <<t>>
<1>1. r \in Seq(Spans(npix)) /\ Len(r) = 1 /\ DOMAIN r = {1} /\ r[1] = t /\ r # <<>>
  OBVIOUS
<1> HIDE DEF r
<1>2. SpanPixels(r) = t.lo .. t.hi
  BY <1>1 DEF SpanPixels
<1>3. Ordered(r)
  BY <1>1 DEF Ordered
<1>4. Last(r) = t
  BY <1>1 DEF Last
<1>5. QED BY <1>1, <1>2, <1>3, <1>4 DEF r

LEMMA RestProperties ==
    ASSUME NEW npix \in Nat, NEW s \in Spans(npix), NEW a \in s.lo .. s.hi,
           NEW b \in a .. s.hi
    PROVE  /\ Rest(s, a, b) \in Seq(Spans(npix))
           /\ Ordered(Rest(s, a, b))
           /\ \A i \in DOMAIN Rest(s, a, b) : Rest(s, a, b)[i].lo >= s.lo
           /\ SpanPixels(Rest(s, a, b)) = (s.lo .. s.hi) \ (a .. b)
           /\ b < s.hi => /\ Rest(s, a, b) # <<>>
                          /\ Last(Rest(s, a, b)) = Span(b + 1, s.hi)
<1> DEFINE r == Rest(s, a, b)
<1>0. s.lo \in 0 .. npix - 1 /\ s.hi \in 0 .. npix - 1
  BY DEF Spans
<1>1. CASE s.lo = a /\ s.hi = b
  <2>1. r = <<>>
    BY <1>1 DEF Rest
  <2>2. QED BY <1>0, <1>1, <2>1 DEF Ordered, SpanPixels, Last
<1>2. CASE s.lo = a /\ s.hi # b
  <2>1. r = <<Span(b + 1, s.hi)>>
    BY <1>2 DEF Rest
  <2> DEFINE t == Span(b + 1, s.hi)
  <2>2. t \in Spans(npix) /\ t.lo = b + 1 /\ t.hi = s.hi /\ t.lo <= t.hi
    BY <1>0, <1>2 DEF Spans, Span
  <2> HIDE DEF t
  <2>3. r = <<t>>
    BY <2>1 DEF t
  <2>4. /\ r \in Seq(Spans(npix)) /\ r # <<>> /\ Last(r) = t /\ Ordered(r)
        /\ \A i \in DOMAIN r : r[i] = t
        /\ SpanPixels(r) = t.lo .. t.hi
    BY <2>2, <2>3, OneSpan
  <2> HIDE DEF r
  <2>5. SpanPixels(r) = (s.lo .. s.hi) \ (a .. b)
    BY <1>0, <1>2, <2>2, <2>4
  <2>6. \A i \in DOMAIN r : r[i].lo >= s.lo
    BY <1>0, <1>2, <2>2, <2>4
  <2>7. QED BY <2>4, <2>5, <2>6 DEF r, t
<1>3. CASE s.lo # a /\ s.hi = b
  <2>1. r = <<Span(s.lo, a - 1)>>
    BY <1>3 DEF Rest
  <2> DEFINE t == Span(s.lo, a - 1)
  <2>2. t \in Spans(npix) /\ t.lo = s.lo /\ t.hi = a - 1 /\ t.lo <= t.hi
    BY <1>0, <1>3 DEF Spans, Span
  <2> HIDE DEF t
  <2>3. r = <<t>>
    BY <2>1 DEF t
  <2>4. /\ r \in Seq(Spans(npix)) /\ Ordered(r)
        /\ \A i \in DOMAIN r : r[i] = t
        /\ SpanPixels(r) = t.lo .. t.hi
    BY <2>2, <2>3, OneSpan
  <2> HIDE DEF r
  <2>5. SpanPixels(r) = (s.lo .. s.hi) \ (a .. b)
    BY <1>0, <1>3, <2>2, <2>4
  <2>6. \A i \in DOMAIN r : r[i].lo >= s.lo
    BY <1>0, <2>2, <2>4
  <2>7. QED BY <1>0, <1>3, <2>4, <2>5, <2>6 DEF r
<1>4. CASE s.lo # a /\ s.hi # b
  <2>1. r = <<Span(s.lo, a - 1), Span(b + 1, s.hi)>>
    BY <1>4 DEF Rest
  <2>2. Span(s.lo, a - 1) \in Spans(npix) /\ Span(b + 1, s.hi) \in Spans(npix)
    BY <1>0, <1>4 DEF Spans, Span
  <2>3. r \in Seq(Spans(npix)) /\ Len(r) = 2 /\ DOMAIN r = {1, 2}
        /\ r[1] = Span(s.lo, a - 1) /\ r[2] = Span(b + 1, s.hi)
    BY <2>1, <2>2
  <2> HIDE DEF r
  <2>4. SpanPixels(r) = (s.lo .. a - 1) \cup (b + 1 .. s.hi)
    <3>1. SpanPixels(r) = (r[1].lo .. r[1].hi) \cup (r[2].lo .. r[2].hi)
      BY <2>3 DEF SpanPixels
    <3>2. QED BY <2>3, <3>1 DEF Span
  <2>5. SpanPixels(r) = (s.lo .. s.hi) \ (a .. b)
    BY <1>0, <2>4
  <2>6. Ordered(r)
    BY <1>0, <1>4, <2>3 DEF Ordered, Span
  <2>7. \A i \in DOMAIN r : r[i].lo >= s.lo
    BY <1>0, <1>4, <2>3 DEF Span
  <2>8. r # <<>> /\ Last(r) = Span(b + 1, s.hi)
    <3>1. r # <<>>
      BY <2>1 DEF r
    <3>2. QED BY <2>3, <3>1 DEF Last
  <2>9. QED BY <2>3, <2>5, <2>6, <2>7, <2>8 DEF r
<1>5. QED BY <1>1, <1>2, <1>3, <1>4

LEMMA RemoveFromLast ==
    ASSUME NEW npix \in Nat, NEW list \in Seq(Spans(npix)), list # <<>>, Ordered(list),
           NEW a \in Last(list).lo .. Last(list).hi, NEW b \in a .. Last(list).hi
    PROVE  ListRemove(list, a, b) =
              SubSeq(list, 1, Len(list) - 1) \o Rest(Last(list), a, b)
<1> DEFINE n == Len(list)
           meets == {i \in DOMAIN list :
                        \/ list[i].lo = a
                        \/ list[i].hi = b
                        \/ a <= list[i].hi /\ b >= list[i].lo}
<1>1. n \in Nat \ {0} /\ DOMAIN list = 1 .. n /\ Last(list) = list[n]
      /\ \A i \in 1 .. n : list[i] \in Spans(npix)
  BY EmptySeq, LenProperties, ElementOfSeq DEF Last
<1>2. \A i \in 1 .. n : list[i].lo \in 0 .. npix - 1 /\ list[i].hi \in 0 .. npix - 1
  BY <1>1 DEF Spans
<1>3. \A i \in 1 .. n : i < n => list[i].hi < a /\ list[i].lo < a
  BY <1>1, <1>2 DEF Ordered
<1>4. meets = {n}
  BY <1>1, <1>2, <1>3
<1>5. Min({n}) = n
  <2>1. {n} \subseteq Nat /\ {n} # {}
    BY <1>1
  <2> HIDE DEF n
  <2>2. QED BY <2>1, MinOfNaturals
<1>6. ListRemove(list, a, b) = Splice(list, n, Rest(list[n], a, b))
  <2>1. Min(meets) = n /\ meets # {}
    BY <1>4, <1>5
  <2> HIDE DEF n
  <2>2. QED BY <2>1 DEF ListRemove, Rest
<1>7. SubSeq(list, n + 1, n) = <<>>
  BY <1>1, SubSeqEmpty
<1>8. /\ SubSeq(list, 1, n - 1) \in Seq(Spans(npix))
      /\ Rest(list[n], a, b) \in Seq(Spans(npix))
  <2>1. SubSeq(list, 1, n - 1) \in Seq(Spans(npix))
    BY <1>1, SubSeqProperties
  <2>2. QED BY <1>1, <2>1, RestProperties
<1>9. SubSeq(list, 1, n - 1) \o Rest(list[n], a, b) \in Seq(Spans(npix))
  BY <1>8, ConcatProperties
<1>10. QED BY <1>1, <1>6, <1>7, <1>9, ConcatEmptySeq DEF Splice

(* What list_remove leaves then: no span of its own but the rest.          *)
LEMMA RemoveProperties ==
    ASSUME NEW npix \in Nat, NEW list \in Seq(Spans(npix)), list # <<>>, Ordered(list),
           NEW a \in Last(list).lo .. Last(list).hi, NEW b \in a .. Last(list).hi
    PROVE  /\ ListRemove(list, a, b) \in Seq(Spans(npix))
           /\ Ordered(ListRemove(list, a, b))
           /\ SpanPixels(ListRemove(list, a, b)) = SpanPixels(list) \ (a .. b)
           /\ b < Last(list).hi =>
                 /\ ListRemove(list, a, b) # <<>>
                 /\ Last(ListRemove(list, a, b)) = Span(b + 1, Last(list).hi)
<1> DEFINE n == Len(list)
           front == SubSeq(list, 1, n - 1)
           s == Last(list)
           r == Rest(s, a, b)
<1>1. n \in Nat \ {0} /\ DOMAIN list = 1 .. n /\ s = list[n]
      /\ \A i \in 1 .. n : list[i] \in Spans(npix)
  BY EmptySeq, LenProperties, ElementOfSeq DEF Last
<1>2. \A i \in 1 .. n : list[i].lo \in 0 .. npix - 1 /\ list[i].hi \in 0 .. npix - 1
  BY <1>1 DEF Spans
<1>3. /\ front \in Seq(Spans(npix))
      /\ Len(front) = n - 1
      /\ DOMAIN front = 1 .. n - 1
      /\ \A i \in 1 .. n - 1 : front[i] = list[i]
  <2>1. /\ front \in Seq(Spans(npix))
        /\ Len(front) = IF 1 <= n - 1 THEN n - 1 - 1 + 1 ELSE 0
        /\ \A i \in 1 .. n - 1 - 1 + 1 : front[i] = list[1 + i - 1]
    BY <1>1, SubSeqProperties
  <2>2. DOMAIN front = 1 .. Len(front)
    BY <2>1, LenProperties
  <2> HIDE DEF front, n
  <2>3. QED BY <1>1, <2>1, <2>2
<1>4. /\ r \in Seq(Spans(npix))
      /\ Ordered(r)
      /\ \A i \in DOMAIN r : r[i].lo >= s.lo
      /\ SpanPixels(r) = (s.lo .. s.hi) \ (a .. b)
      /\ b < s.hi => r # <<>> /\ Last(r) = Span(b + 1, s.hi)
  <2>1. s \in Spans(npix)
    BY <1>1
  <2>2. a \in s.lo .. s.hi /\ b \in a .. s.hi
    OBVIOUS
  <2> HIDE DEF s
  <2>3. QED BY <2>1, <2>2, RestProperties
<1>5. ListRemove(list, a, b) = front \o r
  BY RemoveFromLast
<1>6. front \o r \in Seq(Spans(npix)) /\ Len(front \o r) = n - 1 + Len(r)
  BY <1>3, <1>4, ConcatProperties
<1>7. Ordered(front)
  <2> HIDE DEF front, n
  <2> QED BY <1>1, <1>3 DEF Ordered
<1>8. \A i \in DOMAIN front, j \in DOMAIN r : front[i].hi < r[j].lo
  <2>1. ASSUME NEW i \in DOMAIN front, NEW j \in DOMAIN r PROVE front[i].hi < r[j].lo
    <3>1. i \in 1 .. n /\ i < n /\ front[i] = list[i]
      BY <1>1, <1>3
    <3>2. list[i].hi < s.lo
      BY <1>1, <3>1 DEF Ordered
    <3>3. r[j].lo \in Nat /\ r[j].lo >= s.lo
      <4>1. r[j] \in Spans(npix)
        <5> HIDE DEF r
        <5> QED BY <1>4, LenProperties, ElementOfSeq
      <4>2. r[j].lo >= s.lo
        BY <1>4
      <4> HIDE DEF r, s
      <4>3. r[j].lo \in 0 .. npix - 1
        BY <4>1 DEF Spans
      <4>4. QED BY <4>2, <4>3
    <3> HIDE DEF front, n, r, s
    <3>4. QED BY <1>1, <1>2, <3>1, <3>2, <3>3
  <2>2. QED BY <2>1
<1>9. Ordered(front \o r)
  <2> HIDE DEF front, n, r, s
  <2> QED BY <1>3, <1>4, <1>7, <1>8, ConcatOrdered
<1>10. SpanPixels(front \o r) = SpanPixels(list) \ (a .. b)
  <2>1. SpanPixels(front \o r) = SpanPixels(front) \cup SpanPixels(r)
    <3> HIDE DEF front, n, r, s
    <3> QED BY <1>3, <1>4, ConcatPixels
  <2>2. SpanPixels(list) = SpanPixels(front) \cup (s.lo .. s.hi)
    <3>1. SpanPixels(list) = UNION {list[i].lo .. list[i].hi : i \in 1 .. n}
      BY <1>1 DEF SpanPixels
    <3>2. SpanPixels(front) = UNION {list[i].lo .. list[i].hi : i \in 1 .. n - 1}
      <4> HIDE DEF front, n
      <4> QED BY <1>3 DEF SpanPixels
    <3>3. 1 .. n = (1 .. n - 1) \cup {n}
      BY <1>1
    <3> HIDE DEF n, front
    <3>4. QED BY <1>1, <3>1, <3>2, <3>3
  <2>3. \A p \in SpanPixels(front) : p \notin a .. b
    <3>1. ASSUME NEW p \in SpanPixels(front) PROVE p \notin a .. b
      <4>1. PICK i \in DOMAIN front : p \in front[i].lo .. front[i].hi
        <5> HIDE DEF front
        <5> QED BY DEF SpanPixels
      <4>2. i \in 1 .. n /\ i < n /\ front[i] = list[i]
        BY <1>1, <1>3, <4>1
      <4>3. list[i].hi < s.lo
        BY <1>1, <4>2 DEF Ordered
      <4>4. s.lo \in Nat /\ a \in Nat /\ s.lo <= a /\ b \in Nat
        BY <1>1, <1>2
      <4>5. list[i].lo \in Nat /\ list[i].hi \in Nat
        BY <1>2, <4>2
      <4> HIDE DEF n, front, s
      <4>6. QED BY <4>1, <4>2, <4>3, <4>4, <4>5
    <3>2. QED BY <3>1
  <2> HIDE DEF n, front, s, r
  <2>4. QED BY <1>4, <2>1, <2>2, <2>3
<1>11. ASSUME b < s.hi
       PROVE  front \o r # <<>> /\ Last(front \o r) = Span(b + 1, s.hi)
  <2>1. r # <<>> /\ Last(r) = Span(b + 1, s.hi)
    BY <1>4, <1>11
  <2>2. Len(r) \in Nat \ {0} /\ DOMAIN r = 1 .. Len(r)
    BY <1>4, <2>1, EmptySeq, LenProperties
  <2>3. (front \o r)[Len(front) + Len(r)] = r[Len(r)]
    <3> HIDE DEF front, r, n, s
    <3> QED BY <1>3, <1>4, <2>2, ConcatElements
  <2> HIDE DEF front, r, n, s
  <2>4. QED BY <1>1, <1>3, <1>6, <2>1, <2>2, <2>3, EmptySeq DEF Last
<1>12. QED BY <1>5, <1>6, <1>9, <1>10, <1>11

-----------------------------------------------------------------------------
(* The scan, pixel by pixel: TodoWhenRead is the function its recursion    *)
(* says it is.                                                             *)

(* A function defined by recursion on 0 .. N exists.                       *)
LEMMA RecursionExists ==
    ASSUME NEW S, NEW base \in S, NEW N \in Nat, NEW step \in [1 .. N -> [S -> S]]
    PROVE  \E f \in [0 .. N -> S] :
              f[0] = base /\ \A n \in 1 .. N : f[n] = step[n][f[n - 1]]
<1> DEFINE Is(f, k) == f[0] = base /\ \A n \in 1 .. k : f[n] = step[n][f[n - 1]]
           bad == {k \in 0 .. N : ~ \E f \in [0 .. k -> S] : Is(f, k)}
<1>1. ASSUME bad # {} PROVE FALSE
  <2>1. bad \subseteq Nat
    OBVIOUS
  <2>2. PICK k \in bad : \A y \in bad : k <= y
    <3> HIDE DEF bad
    <3> QED BY <1>1, <2>1, MinOfNaturals
  <2>3. k \in 0 .. N /\ ~ \E f \in [0 .. k -> S] : Is(f, k)
    OBVIOUS
  <2>4. CASE k = 0
    <3> DEFINE f == [n \in 0 .. 0 |-> base]
    <3>1. Is(f, 0) /\ f \in [0 .. 0 -> S]
      OBVIOUS
    <3>2. QED BY <2>3, <2>4, <3>1
  <2>5. CASE k # 0
    <3>1. k - 1 \in 0 .. N /\ k \in 1 .. N
      BY <2>3, <2>5
    <3>2. PICK g \in [0 .. k - 1 -> S] : Is(g, k - 1)
      <4>1. k - 1 \notin bad
        <5> HIDE DEF bad
        <5> QED BY <2>2, <2>1, <3>1
      <4> HIDE DEF Is
      <4> QED BY <3>1, <4>1
    <3> DEFINE f == [n \in 0 .. k |-> IF n = k THEN step[k][g[k - 1]] ELSE g[n]]
    <3>3. g[k - 1] \in S /\ step[k][g[k - 1]] \in S
      BY <3>1
    <3>4. f \in [0 .. k -> S]
      BY <3>1, <3>3
    <3>5. f[0] = base
      BY <3>1, <3>2
    <3>6. ASSUME NEW n \in 1 .. k PROVE f[n] = step[n][f[n - 1]]
      <4>1. CASE n = k
        BY <4>1, <3>1
      <4>2. CASE n # k
        <5>1. n \in 1 .. k - 1 /\ n - 1 \in 0 .. k - 1 /\ n - 1 # k
          BY <4>2, <3>1
        <5>2. f[n] = g[n] /\ f[n - 1] = g[n - 1]
          BY <5>1, <4>2
        <5>3. QED BY <5>1, <5>2, <3>2
      <4>3. QED BY <4>1, <4>2
    <3>7. QED BY <3>4, <3>5, <3>6, <2>3
  <2>6. QED BY <2>4, <2>5
<1>2. \E f \in [0 .. N -> S] : Is(f, N)
  <2> HIDE DEF Is
  <2> QED BY <1>1
<1> QED BY <1>2

LEMMA Length ==
    ASSUME NEW npix \in Nat \ {0}, NEW file \in SUBSET (0 .. npix - 1)
    PROVE  /\ FileLength(file) \in 0 .. npix
           /\ file \subseteq 0 .. FileLength(file) - 1
           /\ FileLength(file) > 0 => FileLength(file) - 1 \in file
<1>1. CASE file = {}
  BY <1>1 DEF FileLength
<1>2. CASE file # {}
  <2>1. Max(file) \in file /\ \A y \in file : Max(file) >= y
    <3>1. npix - 1 \in Nat /\ file \subseteq 0 .. npix - 1
      OBVIOUS
    <3>2. QED BY <1>2, <3>1, MaxOfNaturals
  <2>2. FileLength(file) = Max(file) + 1
    BY <1>2 DEF FileLength
  <2>3. Max(file) \in 0 .. npix - 1
    BY <2>1
  <2>4. QED BY <2>1, <2>2, <2>3
<1>3. QED BY <1>1, <1>2

LEMMA RunStarts ==
    ASSUME NEW npix \in Nat \ {0}, NEW file \in SUBSET (0 .. npix - 1), NEW p \in file
    PROVE  /\ StartOfRun(file, p) \in file
           /\ StartOfRun(file, p) <= p
           /\ StartOfRun(file, p) .. p \subseteq file
           /\ \A q \in file : q <= p /\ q .. p \subseteq file => StartOfRun(file, p) <= q
<1> DEFINE starts == {q \in file : q <= p /\ q .. p \subseteq file}
<1>1. starts \subseteq Nat
  <2>1. \A q \in file : q \in 0 .. npix - 1
    OBVIOUS
  <2>2. \A q \in file : q \in Nat
    BY <2>1
  <2>3. \A q \in starts : q \in file
    OBVIOUS
  <2> HIDE DEF starts
  <2>4. QED BY <2>2, <2>3
<1>2. p \in starts
  <2>1. p \in Nat /\ p .. p = {p}
    OBVIOUS
  <2>2. QED BY <2>1
<1>3. Min(starts) \in starts /\ \A y \in starts : Min(starts) <= y
  <2> HIDE DEF starts
  <2> QED BY <1>1, <1>2, MinOfNaturals
<1>4. QED BY <1>3 DEF StartOfRun

(* Whatever it is given, list_remove makes a list of spans.                *)
LEMMA RemoveType ==
    ASSUME NEW list \in Seq([lo : Int, hi : Int]), NEW a \in Int, NEW b \in Int
    PROVE  ListRemove(list, a, b) \in Seq([lo : Int, hi : Int])
<1> DEFINE T == [lo : Int, hi : Int]
           meets == {k \in DOMAIN list :
                        \/ list[k].lo = a
                        \/ list[k].hi = b
                        \/ a <= list[k].hi /\ b >= list[k].lo}
           i == Min(meets)
           s == list[i]
           rest == Rest(s, a, b)
<1>1. CASE meets = {}
  <2>1. ListRemove(list, a, b) = list
    BY <1>1, Zenon DEF ListRemove
  <2>2. QED BY <2>1
<1>2. CASE meets # {}
  <2>1. Len(list) \in Nat /\ DOMAIN list = 1 .. Len(list)
    BY LenProperties
  <2>2. i \in 1 .. Len(list)
    <3>1. meets \subseteq 1 .. Len(list) /\ 1 .. Len(list) \subseteq Nat
      BY <2>1
    <3> HIDE DEF meets
    <3>2. QED BY <1>2, <3>1, MinOfNaturals
  <2>3. s \in T
    <3> HIDE DEF i
    <3> QED BY <2>2, ElementOfSeq
  <2>4. s.lo \in Int /\ s.hi \in Int
    <3> HIDE DEF s
    <3> QED BY <2>3
  <2>5. /\ Span(b + 1, s.hi) \in T
        /\ Span(s.lo, a - 1) \in T
    <3> HIDE DEF s
    <3> QED BY <2>4 DEF Span
  <2>6. rest \in Seq(T)
    <3> HIDE DEF s, T
    <3> QED BY <2>5 DEF Rest
  <2>7. SubSeq(list, 1, i - 1) \in Seq(T) /\ SubSeq(list, i + 1, Len(list)) \in Seq(T)
    <3>0. \A k \in 1 .. Len(list) : list[k] \in T
      BY ElementOfSeq
    <3> HIDE DEF i, T
    <3>1. SubSeq(list, 1, i - 1) \in Seq(T)
      <4>1. 1 \in Int /\ i - 1 \in Int /\ \A k \in 1 .. i - 1 : k \in 1 .. Len(list)
        BY <2>1, <2>2
      <4>2. \A k \in 1 .. i - 1 : list[k] \in T
        BY <4>1, <3>0
      <4>3. QED BY <4>1, <4>2, SubSeqProperties
    <3>2. SubSeq(list, i + 1, Len(list)) \in Seq(T)
      <4>1. i + 1 \in Int /\ Len(list) \in Int
            /\ \A k \in i + 1 .. Len(list) : k \in 1 .. Len(list)
        BY <2>1, <2>2
      <4>2. \A k \in i + 1 .. Len(list) : list[k] \in T
        BY <4>1, <3>0
      <4>3. QED BY <4>1, <4>2, SubSeqProperties
    <3>3. QED BY <3>1, <3>2
  <2>8. Splice(list, i, rest) \in Seq(T)
    <3> HIDE DEF i, rest, T
    <3> QED BY <2>6, <2>7, ConcatProperties DEF Splice
  <2>9. ListRemove(list, a, b) = Splice(list, i, rest)
    BY <1>2, Zenon DEF ListRemove, Rest
  <2>10. QED BY <2>8, <2>9
<1>3. QED BY <1>1, <1>2

LEMMA TodoUnfolds ==
    ASSUME NEW npix \in Nat \ {0}, NEW file \in SUBSET (0 .. npix - 1),
           NEW n \in 0 .. FileLength(file)
    PROVE  TodoWhenRead(npix, file)[n] =
              IF n = 0 THEN <<Span(0, npix - 1)>>
              ELSE IF EndsRun(file, n - 1)
                   THEN ListRemove(TodoWhenRead(npix, file)[n - 1],
                                   StartOfRun(file, n - 1), n - 1)
                   ELSE TodoWhenRead(npix, file)[n - 1]
<1> DEFINE L == FileLength(file)
           base == <<Span(0, npix - 1)>>
           F(f) == [m \in 0 .. L |->
                       IF m = 0 THEN base
                       ELSE IF EndsRun(file, m - 1)
                            THEN ListRemove(f[m - 1], StartOfRun(file, m - 1), m - 1)
                            ELSE f[m - 1]]
           S == Seq([lo : Int, hi : Int])
           step == [m \in 1 .. L |-> [x \in S |->
                       IF EndsRun(file, m - 1)
                       THEN ListRemove(x, StartOfRun(file, m - 1), m - 1)
                       ELSE x]]
<1>1. L \in Nat
  BY Length
<1>2. base \in S
  BY DEF Span
<1>3. step \in [1 .. L -> [S -> S]]
  <2>1. ASSUME NEW m \in 1 .. L, NEW x \in S, EndsRun(file, m - 1)
        PROVE  ListRemove(x, StartOfRun(file, m - 1), m - 1) \in S
    <3>1. m - 1 \in file /\ m - 1 \in Int
      BY <1>1, <2>1 DEF EndsRun
    <3>2. StartOfRun(file, m - 1) \in file
      BY <3>1, RunStarts
    <3>3. StartOfRun(file, m - 1) \in Int
      <4>1. \A q \in file : q \in Int
        OBVIOUS
      <4>2. QED BY <3>2, <4>1
    <3>4. QED BY <3>1, <3>3, RemoveType
  <2> HIDE DEF S, L
  <2>2. QED BY <2>1
<1>4. PICK f \in [0 .. L -> S] :
          f[0] = base /\ \A m \in 1 .. L : f[m] = step[m][f[m - 1]]
  <2> HIDE DEF L, S, base, step
  <2> QED BY <1>1, <1>2, <1>3, RecursionExists
<1>5. f = F(f)
  <2>1. ASSUME NEW m \in 0 .. L PROVE f[m] = F(f)[m]
    <3>1. CASE m = 0
      <4> HIDE DEF base
      <4> QED BY <1>4, <3>1
    <3>2. CASE m # 0
      <4>1. m \in 1 .. L /\ m - 1 \in 0 .. L
        BY <1>1, <3>2
      <4> HIDE DEF L, S, base
      <4>2. f[m - 1] \in S
        BY <4>1
      <4>3. QED BY <1>4, <3>2, <4>1, <4>2
    <3>3. QED BY <3>1, <3>2
  <2> HIDE DEF L, S, base
  <2>2. QED BY <2>1
<1>6. TodoWhenRead(npix, file) = CHOOSE g : g = F(g)
  BY Zenon DEF TodoWhenRead
<1>7. PICK g : g = F(g) /\ TodoWhenRead(npix, file) = g
  <2> HIDE DEF F
  <2>1. QED BY <1>5, <1>6
<1>8. g[n] = F(g)[n]
  <2> HIDE DEF F
  <2> QED BY <1>7
<1>9. F(g)[n] = IF n = 0 THEN base
                ELSE IF EndsRun(file, n - 1)
                     THEN ListRemove(g[n - 1], StartOfRun(file, n - 1), n - 1)
                     ELSE g[n - 1]
  BY Zenon
<1>10. QED BY <1>7, <1>8, <1>9, Zenon

(* While no run ends the list stays as it is.                              *)
LEMMA NoRunEnds ==
    ASSUME NEW npix \in Nat \ {0}, NEW file \in SUBSET (0 .. npix - 1),
           NEW i \in 0 .. FileLength(file), NEW j \in i .. FileLength(file),
           \A m \in i .. j - 1 : ~EndsRun(file, m)
    PROVE  TodoWhenRead(npix, file)[j] = TodoWhenRead(npix, file)[i]
<1> DEFINE todo == TodoWhenRead(npix, file)
           bad == {n \in i .. j : todo[n] # todo[i]}
<1>0. i \in Nat /\ j \in Nat /\ i <= j /\ FileLength(file) \in Nat /\ j <= FileLength(file)
  BY Length
<1>1. ASSUME bad # {} PROVE FALSE
  <2>1. bad \subseteq Nat
    BY <1>0
  <2>2. PICK k \in bad : \A y \in bad : k <= y
    <3> HIDE DEF bad
    <3> QED BY <1>1, <2>1, MinOfNaturals
  <2>3. k \in i .. j /\ todo[k] # todo[i]
    OBVIOUS
  <2>4. k # i /\ k - 1 \in i .. j - 1 /\ k - 1 \in i .. j /\ k \in 0 .. FileLength(file) /\ k # 0
    BY <1>0, <2>3
  <2>5. k - 1 \notin bad
    <3> HIDE DEF bad
    <3> QED BY <2>1, <2>2, <2>4
  <2>6. todo[k - 1] = todo[i]
    BY <2>4, <2>5
  <2>7. todo[k] = todo[k - 1]
    BY <2>4, TodoUnfolds
  <2>8. QED BY <2>3, <2>6, <2>7
<1>2. j \in i .. j
  BY <1>0
<1>3. QED BY <1>1, <1>2

-----------------------------------------------------------------------------
(* The list when n pixels have been read.                                  *)

(* The run that is being read, and all that follow it, are in the last     *)
(* span, which reaches to the end of the frame.                            *)
RunAhead(npix, file, n, list) ==
    n < npix =>
        /\ list # <<>>
        /\ Last(list).hi = npix - 1
        /\ Last(list).lo <= n
        /\ \A p \in 0 .. n : p .. n \subseteq file => Last(list).lo <= p

(* Pixels of a run that is being read are still in the list.               *)
ReadTo(npix, file, n, list) ==
    /\ list \in Seq(Spans(npix))
    /\ Ordered(list)
    /\ SpanPixels(list) = {p \in 0 .. npix - 1 : p \notin file \/ p .. n \subseteq file}
    /\ RunAhead(npix, file, n, list)

LEMMA ReadNone ==
    ASSUME NEW npix \in Nat \ {0}, NEW file \in SUBSET (0 .. npix - 1)
    PROVE  ReadTo(npix, file, 0, <<Span(0, npix - 1)>>)
<1> DEFINE t == Span(0, npix - 1)
           list == <<t>>
<1>1. t \in Spans(npix) /\ t.lo = 0 /\ t.hi = npix - 1 /\ t.lo <= t.hi
  BY DEF Span, Spans
<1>2. /\ list \in Seq(Spans(npix)) /\ list # <<>> /\ Last(list) = t
      /\ Ordered(list)
      /\ SpanPixels(list) = t.lo .. t.hi
  <2> HIDE DEF t
  <2> QED BY <1>1, OneSpan
<1> HIDE DEF t, list
<1>3. \A p \in 0 .. npix - 1 : p \notin file \/ p .. 0 \subseteq file
  OBVIOUS
<1>4. SpanPixels(list) = {p \in 0 .. npix - 1 : p \notin file \/ p .. 0 \subseteq file}
  BY <1>1, <1>2, <1>3
<1>5. RunAhead(npix, file, 0, list)
  BY <1>1, <1>2 DEF RunAhead
<1>6. ReadTo(npix, file, 0, list)
  BY <1>2, <1>4, <1>5 DEF ReadTo
<1>7. QED BY <1>6 DEF list, t

LEMMA ReadOn ==
    ASSUME NEW npix \in Nat \ {0}, NEW file \in SUBSET (0 .. npix - 1),
           NEW m \in 0 .. npix - 1, NEW list, ReadTo(npix, file, m, list),
           ~EndsRun(file, m)
    PROVE  ReadTo(npix, file, m + 1, list)
<1>1. m \notin file \/ m + 1 \in file
  BY DEF EndsRun
<1>2. ASSUME NEW p \in 0 .. npix - 1
      PROVE  p \notin file \/ p .. m \subseteq file <=> p \notin file \/ p .. m + 1 \subseteq file
  <2>1. CASE p > m
    <3>1. p .. m + 1 \subseteq {p}
      BY <2>1
    <3>2. p .. m = {}
      BY <2>1
    <3>3. QED BY <3>1, <3>2
  <2>2. CASE p <= m
    <3>1. p .. m + 1 = (p .. m) \cup {m + 1} /\ m \in p .. m
      BY <2>2
    <3>2. QED BY <1>1, <3>1
  <2>3. QED BY <2>1, <2>2
<1>3. RunAhead(npix, file, m + 1, list)
  <2>1. ASSUME m + 1 < npix PROVE list # <<>> /\ Last(list).hi = npix - 1
                                  /\ Last(list) \in Spans(npix)
                                  /\ Last(list).lo <= m
                                  /\ \A p \in 0 .. m : p .. m \subseteq file => Last(list).lo <= p
    <3>1. list # <<>> => Last(list) \in Spans(npix)
      BY LenProperties, EmptySeq, ElementOfSeq DEF ReadTo, Last
    <3>2. QED BY <3>1 DEF ReadTo, RunAhead
  <2>2. ASSUME m + 1 < npix, NEW p \in 0 .. m + 1, p .. m + 1 \subseteq file
        PROVE  Last(list).lo <= p
    <3>1. Last(list).lo \in Nat
      BY <2>1, <2>2 DEF Spans
    <3>2. CASE p = m + 1
      BY <2>1, <2>2, <3>1, <3>2
    <3>3. CASE p # m + 1
      <4>1. p \in 0 .. m /\ p .. m \subseteq p .. m + 1
        BY <3>3
      <4>2. QED BY <2>1, <2>2, <4>1
    <3>4. QED BY <3>2, <3>3
  <2>3. m + 1 < npix => Last(list).lo <= m + 1
    <3>1. m + 1 < npix => Last(list).lo \in Nat
      BY <2>1 DEF Spans
    <3>2. QED BY <2>1, <3>1
  <2>4. QED BY <2>1, <2>2, <2>3 DEF RunAhead
<1>4. QED BY <1>2, <1>3 DEF ReadTo

LEMMA ReadRun ==
    ASSUME NEW npix \in Nat \ {0}, NEW file \in SUBSET (0 .. npix - 1),
           NEW m \in 0 .. npix - 1, NEW list, ReadTo(npix, file, m, list),
           EndsRun(file, m)
    PROVE  ReadTo(npix, file, m + 1, ListRemove(list, StartOfRun(file, m), m))
<1> DEFINE a == StartOfRun(file, m)
           new == ListRemove(list, a, m)
<1>1. m \in file /\ m + 1 \notin file
  BY DEF EndsRun
<1>2. /\ a \in file /\ a <= m /\ a .. m \subseteq file
      /\ \A q \in file : q <= m /\ q .. m \subseteq file => a <= q
  BY <1>1, RunStarts
<1>3. a \in 0 .. m
  <2>1. \A q \in file : q \in 0 .. npix - 1
    OBVIOUS
  <2> HIDE DEF a
  <2>2. QED BY <1>2, <2>1
<1> HIDE DEF a
<1>4. /\ list \in Seq(Spans(npix)) /\ Ordered(list) /\ list # <<>>
      /\ Last(list).hi = npix - 1 /\ Last(list).lo <= a
  BY <1>2, <1>3 DEF ReadTo, RunAhead
<1>5. Last(list).lo \in Nat
  <2>1. Last(list) \in Spans(npix)
    BY <1>4, LenProperties, EmptySeq, ElementOfSeq DEF Last
  <2>2. QED BY <2>1 DEF Spans
<1>6. a \in Last(list).lo .. Last(list).hi /\ m \in a .. Last(list).hi
  BY <1>3, <1>4, <1>5
<1>7. /\ new \in Seq(Spans(npix))
      /\ Ordered(new)
      /\ SpanPixels(new) = SpanPixels(list) \ (a .. m)
      /\ m < npix - 1 => new # <<>> /\ Last(new) = Span(m + 1, npix - 1)
  BY <1>4, <1>6, RemoveProperties
<1> HIDE DEF new
<1>8. ASSUME NEW p \in 0 .. npix - 1
      PROVE  (p \notin file \/ p .. m \subseteq file) /\ p \notin a .. m
             <=> p \notin file \/ p .. m + 1 \subseteq file
  <2>1. CASE p > m
    <3>1. p .. m = {} /\ p \notin a .. m
      BY <1>3, <2>1
    <3>2. p .. m + 1 \subseteq {p}
      BY <2>1
    <3>3. QED BY <3>1, <3>2
  <2>2. CASE p <= m
    <3>1. m + 1 \in p .. m + 1
      BY <2>2
    <3>2. ~(p .. m + 1 \subseteq file)
      BY <1>1, <3>1
    <3>3. p \in file /\ p .. m \subseteq file => p \in a .. m
      BY <1>2, <1>3, <2>2
    <3>4. QED BY <1>2, <3>2, <3>3
  <2>3. QED BY <2>1, <2>2
<1>9. SpanPixels(new) = {p \in 0 .. npix - 1 : p \notin file \/ p .. m + 1 \subseteq file}
  BY <1>7, <1>8 DEF ReadTo
<1>10. RunAhead(npix, file, m + 1, new)
  <2>1. \A p \in 0 .. m + 1 : ~(p .. m + 1 \subseteq file)
    <3>1. \A p \in 0 .. m + 1 : m + 1 \in p .. m + 1
      OBVIOUS
    <3>2. QED BY <1>1, <3>1
  <2>2. QED BY <1>7, <2>1 DEF RunAhead, Span
<1>11. ReadTo(npix, file, m + 1, new)
  BY <1>7, <1>9, <1>10 DEF ReadTo
<1>12. QED BY <1>11 DEF new, a

LEMMA TodoRead ==
    ASSUME NEW npix \in Nat \ {0}, NEW file \in SUBSET (0 .. npix - 1),
           NEW n \in 0 .. FileLength(file)
    PROVE  ReadTo(npix, file, n, TodoWhenRead(npix, file)[n])
<1> DEFINE todo == TodoWhenRead(npix, file)
           L == FileLength(file)
           bad == {k \in 0 .. L : ~ReadTo(npix, file, k, todo[k])}
<1>0. L \in Nat /\ L <= npix
  BY Length
<1>1. ASSUME bad # {} PROVE FALSE
  <2>1. bad \subseteq Nat
    BY <1>0
  <2>2. PICK k \in bad : \A y \in bad : k <= y
    <3> HIDE DEF bad
    <3> QED BY <1>1, <2>1, MinOfNaturals
  <2>3. k \in 0 .. L /\ ~ReadTo(npix, file, k, todo[k])
    OBVIOUS
  <2>4. CASE k = 0
    <3>1. todo[k] = <<Span(0, npix - 1)>>
      BY <2>3, <2>4, TodoUnfolds
    <3>2. QED BY <2>3, <2>4, <3>1, ReadNone
  <2>5. CASE k # 0
    <3>1. k - 1 \in 0 .. L /\ k - 1 \in 0 .. npix - 1 /\ k - 1 < k /\ (k - 1) + 1 = k
      BY <1>0, <2>3, <2>5
    <3>2. ReadTo(npix, file, k - 1, todo[k - 1])
      <4>1. k - 1 \notin bad
        <5> HIDE DEF bad
        <5> QED BY <2>1, <2>2, <3>1
      <4>2. QED BY <3>1, <4>1
    <3>3. todo[k] = IF EndsRun(file, k - 1)
                    THEN ListRemove(todo[k - 1], StartOfRun(file, k - 1), k - 1)
                    ELSE todo[k - 1]
      BY <2>3, <2>5, TodoUnfolds
    <3> HIDE DEF todo, L
    <3>4. CASE EndsRun(file, k - 1)
      BY <2>3, <3>1, <3>2, <3>3, <3>4, ReadRun
    <3>5. CASE ~EndsRun(file, k - 1)
      BY <2>3, <3>1, <3>2, <3>3, <3>5, ReadOn
    <3>6. QED BY <3>4, <3>5
  <2>6. QED BY <2>4, <2>5
<1>2. QED BY <1>1

(* The whole scan: the list holds the black pixels of the file, each once. *)
THEOREM ScanLeavesTheBlackPixels ==
    ASSUME NEW npix \in Nat \ {0}, NEW file \in SUBSET (0 .. npix - 1)
    PROVE  /\ ScanFrame(npix, file) \in Seq(Spans(npix))
           /\ SpanPixels(ScanFrame(npix, file)) = (0 .. npix - 1) \ file
           /\ Ordered(ScanFrame(npix, file))
<1> DEFINE L == FileLength(file)
           list == ScanFrame(npix, file)
<1>1. L \in 0 .. npix /\ file \subseteq 0 .. L - 1
  BY Length
<1>2. ReadTo(npix, file, L, list)
  BY <1>1, TodoRead DEF ScanFrame
<1> HIDE DEF L, list
<1>3. ASSUME NEW p \in file PROVE ~(p .. L \subseteq file)
  <2>1. p \in 0 .. L - 1
    BY <1>1
  <2>2. L \in p .. L /\ L \notin file
    BY <1>1, <2>1
  <2>3. QED BY <2>2
<1>4. SpanPixels(list) = (0 .. npix - 1) \ file
  BY <1>2, <1>3 DEF ReadTo
<1>5. list \in Seq(Spans(npix)) /\ Ordered(list)
  BY <1>2 DEF ReadTo
<1>6. QED BY <1>4, <1>5 DEF list

=============================================================================
