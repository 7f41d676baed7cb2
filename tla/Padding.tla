------------------------------ MODULE Padding ------------------------------
(***************************************************************************)
(* write_padding_left and write_padding_right, between which a value is    *)
(* written.  The specs are changed on the way: behind the left padding     *)
(* their width is what is left for the right one.                          *)
(***************************************************************************)
EXTENDS Integers

Alignment == {"none", "<", "^", ">"}

(* Mutant: what the left padding took is not taken off the width.          *)
WidthKept(width, align, size) ==
  IF width = 0 \/ width < size THEN 0
  ELSE IF align = "<" THEN width - size ELSE width

(* The characters that are filled in, and the width that remains.          *)
LeftFill(width, align, size) ==
  IF width = 0 \/ width < size \/ align = "<" THEN 0
  ELSE IF align = "^" THEN (width - size) \div 2
  ELSE width - size

WidthLeft(width, align, size) ==
  IF width = 0 \/ width < size THEN 0
  ELSE IF align = "<" THEN width - size
  ELSE width - (LeftFill(width, align, size) + size)

RightFill(width, align) ==
  IF width = 0 \/ align \notin {"<", "^"} THEN 0 ELSE width
=============================================================================
