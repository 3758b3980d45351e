----------------------------- MODULE PixelSpans -----------------------------
(***************************************************************************)
(* The lists of pixel spans remrt keeps its work in (struct list, fr_todo, *)
(* sr_work), and the scan of an output file that takes the pixels of an    *)
(* earlier, aborted run out of them.  A span is inclusive at both ends.    *)
(*                                                                         *)
(* PixelScan.tla checks them on the loop of the scan; Remrt.tla starts     *)
(* from the lists they compute.                                            *)
(***************************************************************************)
EXTENDS Integers, Sequences, FiniteSetsExt, SequencesExt

Span(lo, hi) == [lo |-> lo, hi |-> hi]

(* The pixel numbers of the spans of a list.                               *)
SpanPixels(list) == UNION {list[i].lo .. list[i].hi : i \in DOMAIN list}

Splice(list, i, new) ==
    SubSeq(list, 1, i - 1) \o new \o SubSeq(list, i + 1, Len(list))

(* Not part of the specification: a mistake the runs are shown to find.    *)
BugListRemoveSplit(list, a, b) ==       \* every span is split
    LET meets == {i \in DOMAIN list : a <= list[i].hi /\ b >= list[i].lo}
        i == Min(meets)
    IN  IF meets = {} THEN list
        ELSE Splice(list, i, <<Span(list[i].lo, a - 1), Span(b + 1, list[i].hi)>>)

(* list_remove: the first span that starts at a, or ends at b, or overlaps *)
(* a..b is the one changed; a span with neither end in common is split.    *)
ListRemove(list, a, b) ==
    LET meets == {i \in DOMAIN list :
                     \/ list[i].lo = a
                     \/ list[i].hi = b
                     \/ a <= list[i].hi /\ b >= list[i].lo}
        i == Min(meets)
        s == list[i]
    IN  IF meets = {} THEN list
        ELSE Splice(list, i,
                CASE s.lo = a /\ s.hi = b -> <<>>
                  [] s.lo = a /\ s.hi # b -> <<Span(b + 1, s.hi)>>
                  [] s.lo # a /\ s.hi = b -> <<Span(s.lo, a - 1)>>
                  [] OTHER -> <<Span(s.lo, a - 1), Span(b + 1, s.hi)>>)

(* The run of non-black pixels of a file that has p, and those that end.   *)
EndOfRun(file, p) == Max({q \in file : p <= q /\ p .. q \subseteq file})

StartOfRun(file, p) == Min({q \in file : q <= p /\ q .. p \subseteq file})

EndsRun(file, p) == p \in file /\ p + 1 \notin file

FileLength(file) == IF file = {} THEN 0 ELSE Max(file) + 1

(* fr_todo when n pixels of the file have been read: prep_frame's single   *)
(* span, less the runs that have ended.                                    *)
TodoWhenRead(npix, file) ==
    LET todo[n \in 0 .. FileLength(file)] ==
            IF n = 0 THEN <<Span(0, npix - 1)>>
            ELSE IF EndsRun(file, n - 1)
                 THEN ListRemove(todo[n - 1], StartOfRun(file, n - 1), n - 1)
                 ELSE todo[n - 1]
    IN  todo

ScanFrame(npix, file) == TodoWhenRead(npix, file)[FileLength(file)]

=============================================================================
