---------------------------- MODULE MCFrameSections ----------------------------
(***************************************************************************)
(* Small frames for FrameSections: groups of 3 x 3 pixels with a padding   *)
(* of one, so that a group has a centre and borders of its own.            *)
(***************************************************************************)
EXTENDS FrameSectionsInvariants

OnePixel == <<1, 1>>

DcGlobal == <<"dc global">>
AcGlobal == <<"ac global">>
Dc(i) == <<"dc", i>>
Ac(g, p) == <<"ac", g, p>>

A_Frame == [xsize |-> 4, ysize |-> 3, dc_groups |-> 1, passes |-> 1, pauses |-> {},
            full |-> FALSE, pausable |-> TRUE, flushable |-> TRUE, broken |-> {},
            toc |-> <<{DcGlobal}, {Dc(1)}, {AcGlobal}, {Ac(0, 0)}, {Ac(1, 0)}>>]

\* Four groups around one corner; the last row of groups is one pixel high.
\* The client does not subscribe to progression, but may flush.
FourGroups ==
  [A_Frame EXCEPT !.ysize = 4, !.pausable = FALSE,
     !.toc = <<{DcGlobal}, {Dc(1)}, {AcGlobal}, {Ac(3, 0)}, {Ac(0, 0)}, {Ac(2, 0)}, {Ac(1, 0)}>>]

\* Three groups in a row; a kSkipProgressive frame does not pause, and Flush
\* leaves it alone.
Row ==
  [A_Frame EXCEPT !.xsize = 8, !.ysize = 1, !.pausable = FALSE, !.flushable = FALSE,
     !.toc = <<{DcGlobal}, {Dc(1)}, {AcGlobal}, {Ac(1, 0)}, {Ac(0, 0)}, {Ac(2, 0)}>>]

\* Two groups in three passes, a pause after the first and the second, and
\* sections in an order of their own.
Passes ==
  [A_Frame EXCEPT !.passes = 3, !.pauses = {2},
     !.toc = <<{Dc(1)}, {DcGlobal}, {Ac(0, 0)}, {AcGlobal}, {Ac(1, 1)}, {Ac(1, 0)}, {Ac(0, 1)},
               {Ac(0, 2)}, {Ac(1, 2)}>>]

\* Everything in one section.
OneSection ==
  [A_Frame EXCEPT !.xsize = 3, !.toc = <<{DcGlobal, Dc(1), AcGlobal, Ac(0, 0)}>>]

\* A modular frame that needs the whole image before it can be drawn.
Modular == [A_Frame EXCEPT !.full = TRUE, !.pausable = FALSE]

\* Damaged data.
Broken == [A_Frame EXCEPT !.broken = {Ac(0, 0)}]
BrokenDc == [A_Frame EXCEPT !.broken = {Dc(1)}]

SmallFrames == {FourGroups, Row, Passes, OneSection, Modular, Broken, BrokenDc}
==============================================================================
