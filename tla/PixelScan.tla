------------------------------ MODULE PixelScan ------------------------------
(***************************************************************************)
(* The loop of scan_frame_for_finished_pixels, over every content an       *)
(* output file of a bounded size may have: the checkpoint-restart of       *)
(* remrt, which renders again only the black pixels of a file it finds.    *)
(***************************************************************************)
EXTENDS PixelSpans

CONSTANTS
    MaxSize,    \* largest frame, in pixels
    Excess      \* pixels a file left by another run may have beyond the frame

ASSUME SizeAssumption == MaxSize \in Nat \ {0} /\ Excess \in Nat

VARIABLES
    size,       \* fr_width * fr_height
    rendered,   \* non-black pixels of the output file
    list,       \* fr_todo
    pno         \* index of the next unread pixel of the file

spanVars == <<size, rendered, list, pno>>

(* prep_frame has built the frame's list; the file exists and is writable. *)
ScanInit ==
    /\ size \in 1 .. MaxSize
    /\ rendered \in SUBSET (0 .. size - 1 + Excess)
    /\ list = <<Span(0, size - 1)>>
    /\ pno = 0

Unread == {p \in rendered : p >= pno}

(* Not part of the specification: the pixel before the black one is left.  *)
BugScanRun ==
    /\ Unread # {}
    /\ LET first == Min(Unread)
           last == EndOfRun(rendered, first)
       IN  /\ list' = ListRemove(list, first, IF last > first THEN last - 1 ELSE last)
           /\ pno' = last + 2
    /\ UNCHANGED <<size, rendered>>

(* Black pixels are skipped, a run of others is read, with the black pixel *)
(* that ends it, and taken out of the list.                                *)
ScanRun ==
    /\ Unread # {}
    /\ LET first == Min(Unread)
           last == EndOfRun(rendered, first)
       IN  /\ list' = ListRemove(list, first, last)
           /\ pno' = last + 2
    /\ UNCHANGED <<size, rendered>>

ScanSpec == ScanInit /\ [][ScanRun]_spanVars

-----------------------------------------------------------------------------

(* At every step of the scan the work left is the pixels of the frame that *)
(* are black in the file, as far as it has been read: "For each span of    *)
(* rendered pixels discovered, remove them from the list of work to be     *)
(* done" (scan_frame_for_finished_pixels).                                 *)
WorkIsTheBlackPixels ==
    SpanPixels(list) = {p \in 0 .. size - 1 : p \notin rendered \/ p >= pno}

(* Every span can be sent as an assignment: it has a pixel, lies in the    *)
(* frame, and no pixel is in two spans (send_do_lines, ph_pixels' range    *)
(* check).                                                                 *)
SpansAreSendable ==
    /\ \A i \in DOMAIN list :
          /\ list[i].lo <= list[i].hi
          /\ list[i].lo >= 0 /\ list[i].hi < size
    /\ \A i, j \in DOMAIN list : i < j => list[i].hi < list[j].lo

(* The loop computes ScanFrame, which Remrt.tla starts from.               *)
LoopIsScanFrame == Unread = {} => list = ScanFrame(size, rendered)

=============================================================================
