-------------------------- MODULE MCDisplayService --------------------------
(* A screen of 2 x 1 bytes and the four images it can show; the boot screen *)
(* is blank, the lockscreen shares a byte with one terminal image.          *)
EXTENDS DisplayService

Shows(left, right) == [c \in Cells |-> IF c[1] = 0 THEN left ELSE right]
MCBootImage == Shows(1, 1)
MCTermImages == {MCBootImage, Shows(1, 0)}
MCLockImage == Shows(0, 0)
MCByeImage == Shows(0, 1)
=============================================================================
