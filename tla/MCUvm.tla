-------------------------------- MODULE MCUvm --------------------------------
(* Uvm for TLC. *)
EXTENDS Uvm

Segment(b, n) == [begin |-> b, npages |-> n]

\* Programs with two segments, side by side, with a shared page, from page 0 on and
\* into the area of mmap, and one without any.
MCPrograms ==
  {<<Segment(1, 1), Segment(2, 1)>>, <<Segment(1, 2), Segment(2, 1)>>,
   <<Segment(0, 2)>>, <<Segment(1, 1), Segment(4, 1)>>, <<>>}
=============================================================================
