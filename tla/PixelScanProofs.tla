-------------------------- MODULE PixelScanProofs --------------------------
(***************************************************************************)
(* The loop of scan_frame_for_finished_pixels, for a file of any size that *)
(* has no pixels beyond its frame (NoExcess: a run of them would end       *)
(* outside every span, and list_remove would leave a span that ends before *)
(* it starts).                                                             *)
(*                                                                         *)
(* The loop reads a run and the black pixel after it in one step; what it  *)
(* has then in the list is what the scan has pixel by pixel when it has    *)
(* read as many (InStep), because no run ends between two of its steps.    *)
(***************************************************************************)
EXTENDS PixelScan, PixelSpansProofs

NoExcess == Excess = 0

FileEnd == FileLength(rendered)

(* The last run's black pixel is the end of the file.                      *)
Read == IF pno <= FileEnd THEN pno ELSE FileEnd

InStep ==
    /\ size \in Nat \ {0}
    /\ rendered \in SUBSET (0 .. size - 1)
    /\ pno \in 0 .. FileEnd + 1
    /\ pno > 0 => pno - 1 \notin rendered
    /\ list = TodoWhenRead(size, rendered)[Read]

LEMMA InStepAtFirst ==
    ASSUME NoExcess, ScanInit
    PROVE  InStep
<1>1. size \in Nat \ {0} /\ rendered \in SUBSET (0 .. size - 1)
  <2>1. size \in 1 .. MaxSize /\ MaxSize \in Nat
    BY SizeAssumption DEF ScanInit
  <2>2. size - 1 + Excess = size - 1
    BY <2>1 DEF NoExcess
  <2>3. QED BY <2>1, <2>2 DEF ScanInit
<1>2. FileEnd \in Nat
  BY <1>1, Length DEF FileEnd
<1>3. pno = 0 /\ Read = 0 /\ list = <<Span(0, size - 1)>>
  BY <1>2 DEF ScanInit, Read
<1>4. TodoWhenRead(size, rendered)[0] = <<Span(0, size - 1)>>
  <2>1. 0 \in 0 .. FileLength(rendered)
    BY <1>2 DEF FileEnd
  <2>2. QED BY <1>1, <2>1, TodoUnfolds
<1>5. QED BY <1>1, <1>2, <1>3, <1>4 DEF InStep

LEMMA InStepAfterRun ==
    ASSUME InStep, ScanRun
    PROVE  InStep'
<1> DEFINE file == rendered
           L == FileEnd
           todo == TodoWhenRead(size, file)
           first == Min(Unread)
           last == EndOfRun(file, first)
           tails == {q \in file : first <= q /\ first .. q \subseteq file}
<1>1. size \in Nat \ {0} /\ file \in SUBSET (0 .. size - 1)
  BY DEF InStep
<1>2. L \in Nat /\ L \in 0 .. size /\ \A p \in file : p \in 0 .. L - 1
  BY <1>1, Length DEF FileEnd
<1>3. pno \in Nat /\ (pno > 0 => pno - 1 \notin file)
  BY <1>2 DEF InStep
<1>4. first \in file /\ first >= pno /\ \A y \in file : y >= pno => first <= y
  <2>1. Unread \subseteq Nat /\ Unread # {}
    <3>1. \A p \in Unread : p \in file
      BY DEF Unread
    <3>2. \A p \in file : p \in Nat
      BY <1>2
    <3>3. QED BY <3>1, <3>2 DEF ScanRun
  <2>2. Min(Unread) \in Unread /\ \A y \in Unread : Min(Unread) <= y
    BY <2>1, MinOfNaturals
  <2>3. QED BY <2>2 DEF Unread
<1>5. first \in 0 .. L - 1
  <2> HIDE DEF first, L
  <2> QED BY <1>2, <1>4
<1> HIDE DEF first, L
<1>6. last \in file /\ first <= last /\ first .. last \subseteq file /\ last \in 0 .. L - 1
      /\ \A q \in file : first <= q /\ first .. q \subseteq file => q <= last
  <2>1. tails \subseteq 0 .. L - 1
    <3>1. \A q \in tails : q \in file
      OBVIOUS
    <3> HIDE DEF tails
    <3>2. QED BY <1>2, <3>1
  <2>2. first \in tails
    <3>1. first .. first = {first} /\ first <= first
      BY <1>5
    <3>2. QED BY <1>4, <3>1
  <2>3. L - 1 \in Nat
    BY <1>2, <1>5
  <2>4. Max(tails) \in tails /\ \A y \in tails : Max(tails) >= y
    <3> HIDE DEF tails
    <3> QED BY <2>1, <2>2, <2>3, MaxOfNaturals
  <2>5. last = Max(tails)
    BY DEF EndOfRun
  <2>6. last \in 0 .. L - 1
    <3> HIDE DEF last, tails
    <3> QED BY <2>1, <2>4, <2>5
  <2>7. /\ last \in tails
        /\ \A y \in tails : y <= last
    <3>1. \A y \in tails : y \in Nat
      <4> HIDE DEF tails
      <4> QED BY <2>1
    <3> HIDE DEF last, tails
    <3>2. QED BY <2>4, <2>5, <2>6, <3>1
  <2> HIDE DEF last
  <2>8. QED BY <2>6, <2>7
<1>7. list' = ListRemove(list, first, last) /\ pno' = last + 2
      /\ size' = size /\ rendered' = rendered
  BY DEF ScanRun, first
<1> HIDE DEF last
<1>8. last + 1 \notin file
  <2>1. ASSUME last + 1 \in file PROVE FALSE
    <3>1. first .. last + 1 = (first .. last) \cup {last + 1} /\ first <= last + 1
      BY <1>5, <1>6
    <3>2. last + 1 <= last
      BY <1>6, <2>1, <3>1
    <3>3. QED BY <1>6, <3>2
  <2>2. QED BY <2>1
<1>9. todo[last] = list
  <2>1. pno <= L /\ Read = pno
    BY <1>3, <1>4, <1>5, <1>2 DEF Read, L
  <2>2. ASSUME NEW k \in pno .. last - 1 PROVE ~EndsRun(file, k)
    <3>1. CASE k < first
      <4>1. k \notin file
        BY <1>3, <1>4, <1>5, <2>2, <3>1
      <4>2. QED BY <4>1 DEF EndsRun
    <3>2. CASE k >= first
      <4>1. k + 1 \in first .. last
        BY <1>3, <1>5, <1>6, <2>2, <3>2
      <4>2. k + 1 \in file
        BY <1>6, <4>1
      <4>3. QED BY <4>2 DEF EndsRun
    <3>3. QED BY <1>3, <1>5, <2>2, <3>1, <3>2
  <2>3. pno \in 0 .. FileLength(file) /\ last \in pno .. FileLength(file)
    BY <1>2, <1>3, <1>4, <1>5, <1>6, <2>1 DEF L, FileEnd
  <2> HIDE DEF file
  <2>4. todo[last] = todo[pno]
    BY <1>1, <2>2, <2>3, NoRunEnds
  <2>5. list = TodoWhenRead(size, file)[Read]
    BY DEF InStep, file
  <2>6. QED BY <2>1, <2>4, <2>5
<1>10. StartOfRun(file, last) = first
  <2> DEFINE start == StartOfRun(file, last)
  <2>1. /\ start \in file /\ start <= last /\ start .. last \subseteq file
        /\ \A q \in file : q <= last /\ q .. last \subseteq file => start <= q
    <3> HIDE DEF file
    <3> QED BY <1>1, <1>6, RunStarts
  <2>2. start \in 0 .. L - 1
    <3> HIDE DEF start
    <3> QED BY <1>2, <2>1
  <2>3. start <= first
    BY <1>4, <1>6, <2>1
  <2> HIDE DEF start
  <2>4. ASSUME start < first PROVE FALSE
    <3>1. first - 1 \in start .. last
      BY <1>5, <1>6, <2>2, <2>4
    <3>2. first - 1 \in file
      BY <2>1, <3>1
    <3>3. first = pno
      BY <1>3, <1>4, <1>5, <3>2
    <3>4. QED BY <1>3, <2>2, <2>4, <3>2, <3>3
  <2>5. start = first
    BY <1>5, <2>2, <2>3, <2>4
  <2>6. QED BY <2>5 DEF start
<1>11. todo[last + 1] = list'
  <2>1. last + 1 \in 0 .. FileLength(file) /\ last + 1 # 0 /\ (last + 1) - 1 = last
    BY <1>2, <1>6 DEF L, FileEnd
  <2>2. EndsRun(file, last)
    BY <1>6, <1>8 DEF EndsRun
  <2> HIDE DEF file
  <2>3. todo[last + 1] = ListRemove(todo[last], StartOfRun(file, last), last)
    BY <1>1, <2>1, <2>2, TodoUnfolds
  <2>4. QED BY <1>7, <1>9, <1>10, <2>3
<1>12. L' = L /\ pno' \in 0 .. L + 1 /\ pno' - 1 = last + 1
  BY <1>2, <1>6, <1>7 DEF L, FileEnd
<1>13. list' = todo[IF pno' <= L THEN pno' ELSE L]
  <2>1. CASE last + 1 = L
    BY <1>2, <1>6, <1>7, <1>11, <2>1
  <2>2. CASE last + 1 # L
    <3>1. last + 2 \in 0 .. FileLength(file) /\ last + 2 # 0 /\ (last + 2) - 1 = last + 1
      BY <1>2, <1>6, <2>2 DEF L, FileEnd
    <3>2. ~EndsRun(file, last + 1)
      BY <1>8 DEF EndsRun
    <3>3. todo[last + 2] = todo[last + 1]
      <4> HIDE DEF file
      <4> QED BY <1>1, <3>1, <3>2, TodoUnfolds
    <3>4. last + 2 <= L
      BY <1>2, <1>6, <2>2
    <3>5. QED BY <1>7, <1>11, <3>3, <3>4
  <2>3. QED BY <2>1, <2>2
<1>14. list' = TodoWhenRead(size', rendered')[Read']
  BY <1>7, <1>12, <1>13 DEF Read, L
<1>15. QED BY <1>1, <1>7, <1>8, <1>12, <1>14 DEF InStep, L

THEOREM LoopInStep ==
    ASSUME NoExcess
    PROVE  ScanSpec => []InStep
<1>1. ScanInit => InStep
  BY InStepAtFirst
<1>2. InStep /\ [ScanRun]_spanVars => InStep'
  <2>1. ASSUME InStep, UNCHANGED spanVars PROVE InStep'
    BY <2>1 DEF InStep, Read, FileEnd, spanVars
  <2>2. QED BY <2>1, InStepAfterRun
<1>3. QED BY <1>1, <1>2, PTL DEF ScanSpec

LEMMA ReadSoFar ==
    ASSUME InStep
    PROVE  /\ ReadTo(size, rendered, Read, list)
           /\ Read \in 0 .. size
           /\ \A p \in rendered : p .. Read \subseteq rendered <=> p >= pno
<1>1. size \in Nat \ {0} /\ rendered \in SUBSET (0 .. size - 1) /\ pno \in 0 .. FileEnd + 1
  BY DEF InStep
<1>2. FileEnd \in 0 .. size /\ \A p \in rendered : p \in 0 .. FileEnd - 1
  BY <1>1, Length DEF FileEnd
<1>3. Read \in 0 .. FileEnd
  BY <1>1, <1>2 DEF Read
<1>4. ReadTo(size, rendered, Read, list)
  BY <1>1, <1>3, TodoRead DEF InStep, FileEnd
<1>5. ASSUME NEW p \in rendered PROVE p .. Read \subseteq rendered <=> p >= pno
  <2>1. p \in 0 .. FileEnd - 1
    BY <1>2
  <2>2. CASE p >= pno
    <3>1. Read = pno
      BY <1>1, <1>2, <2>1, <2>2 DEF Read
    <3>2. p .. Read \subseteq {p}
      BY <1>1, <2>1, <2>2, <3>1
    <3>3. QED BY <2>2, <3>2
  <2>3. CASE p < pno
    <3>1. pno - 1 \notin rendered
      BY <1>1, <2>1, <2>3 DEF InStep
    <3>2. CASE pno <= FileEnd
      <4>1. pno - 1 \in p .. Read
        BY <1>1, <2>1, <2>3, <3>2 DEF Read
      <4>2. QED BY <1>1, <2>1, <2>3, <3>1, <4>1
    <3>3. CASE pno > FileEnd
      <4>1. Read = FileEnd
        BY <1>1, <1>2, <3>3 DEF Read
      <4>2. FileEnd \in p .. Read /\ FileEnd \notin rendered
        BY <1>2, <2>1, <4>1
      <4>3. QED BY <1>1, <2>1, <2>3, <4>2
    <3>4. QED BY <1>1, <1>2, <3>2, <3>3
  <2>4. p >= pno \/ p < pno
    BY <1>1, <1>2, <2>1
  <2>5. QED BY <2>2, <2>3, <2>4
<1>6. Read \in 0 .. size
  BY <1>1, <1>2, <1>3
<1>7. QED BY <1>4, <1>5, <1>6

(* At every step of the scan the work left is the black pixels, and those  *)
(* not yet read, of a frame and a file of any size.                        *)
THEOREM WorkIsBlack ==
    ASSUME NoExcess
    PROVE  ScanSpec => []WorkIsTheBlackPixels
<1>1. ASSUME InStep PROVE WorkIsTheBlackPixels
  <2>1. SpanPixels(list) =
            {p \in 0 .. size - 1 : p \notin rendered \/ p .. Read \subseteq rendered}
    BY <1>1, ReadSoFar DEF ReadTo
  <2>2. \A p \in rendered : p .. Read \subseteq rendered <=> p >= pno
    BY <1>1, ReadSoFar
  <2>3. QED BY <2>1, <2>2 DEF WorkIsTheBlackPixels
<1>2. QED BY <1>1, LoopInStep, PTL

(* Every span of the list can always be sent as an assignment: list_remove *)
(* splits none into an empty one, and leaves them apart.                   *)
THEOREM EverySpanIsSendable ==
    ASSUME NoExcess
    PROVE  ScanSpec => []SpansAreSendable
<1>1. ASSUME InStep PROVE SpansAreSendable
  <2>1. list \in Seq(Spans(size)) /\ Ordered(list) /\ size \in Nat
    BY <1>1, ReadSoFar DEF ReadTo, InStep
  <2>2. ASSUME NEW i \in DOMAIN list PROVE list[i].lo >= 0 /\ list[i].hi < size
    <3>1. list[i] \in Spans(size)
      BY <2>1, LenProperties, ElementOfSeq
    <3>2. list[i].lo \in 0 .. size - 1 /\ list[i].hi \in 0 .. size - 1
      BY <3>1 DEF Spans
    <3>3. QED BY <2>1, <3>2
  <2>3. QED BY <2>1, <2>2 DEF SpansAreSendable, Ordered
<1>2. QED BY <1>1, LoopInStep, PTL

(* What the loop leaves is the list of ScanFrame, with which the frames of *)
(* Remrt begin.                                                            *)
THEOREM LoopComputesScanFrame ==
    ASSUME NoExcess
    PROVE  ScanSpec => []LoopIsScanFrame
<1>1. ASSUME InStep, Unread = {} PROVE list = ScanFrame(size, rendered)
  <2>1. size \in Nat \ {0} /\ rendered \in SUBSET (0 .. size - 1) /\ pno \in 0 .. FileEnd + 1
    BY <1>1 DEF InStep
  <2>2. FileEnd \in Nat /\ (FileEnd > 0 => FileEnd - 1 \in rendered)
    BY <2>1, Length DEF FileEnd
  <2>3. pno >= FileEnd
    <3>1. \A p \in rendered : ~(p >= pno)
      BY <1>1 DEF Unread
    <3>2. QED BY <2>1, <2>2, <3>1
  <2>4. Read = FileEnd
    BY <2>1, <2>2, <2>3 DEF Read
  <2>5. QED BY <1>1, <2>4 DEF InStep, ScanFrame, FileEnd
<1>2. InStep => LoopIsScanFrame
  BY <1>1 DEF LoopIsScanFrame
<1>3. QED BY <1>2, LoopInStep, PTL

=============================================================================
