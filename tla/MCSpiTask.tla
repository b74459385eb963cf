----------------------------- MODULE MCSpiTask -----------------------------
(* A screen of 2 x 1 bytes sent in chunks of one byte; full draws of one   *)
(* image and partial draws of a byte of another.                           *)
EXTENDS SpiTask

Shows(left, right) == [c \in Cells |-> IF c[1] = 0 THEN left ELSE right]
Left == [Screen EXCEPT !.x1 = 1]
MCRequests ==
    {OffRequest, DrawRequest(Full(Shows(0, 1))),
     DrawRequest(Partial(Left, Shows(1, 1)))}
MCSlots == 0 .. 1
=============================================================================
