--------------------------- MODULE MCRecognition ---------------------------
(* Seven characters, as in the code.  The images: a plate whose contours   *)
(* are found in another order, with two characters above each other and    *)
(* specks of the wrong size, behind a region that is no plate; a plate     *)
(* with a contour too many, the leftmost; one with two missing; one with   *)
(* none; one with a character over the edge; and a region without the      *)
(* rows of a plate.                                                        *)
EXTENDS Recognition

C(char, x) == [char |-> char, x |-> x, width |-> 12, height |-> 30, inside |-> TRUE]
R(chars) == [width |-> 144, height |-> 40, jumps |-> <<3, 16, 45, 20, 46>>, white |-> 30,
             chars |-> chars]

Six == <<C("D", 5), C("B", 3), C("A", 1), C("B", 3), C("F", 7), C("C", 4)>>
Speck == [C("A", 2) EXCEPT !.height = 14, !.width = 14]
Bar == [C("A", 2) EXCEPT !.height = 33]

NotAPlate == [R(<<>>) EXCEPT !.height = 20, !.width = 59]
Shuffled == R(<<Speck>> \o Six \o <<Bar, C("E", 6)>>)
TooMany == [R(<<C("F", 7)>> \o Six \o <<C("A", 0)>>) EXCEPT !.white = 50]
TooFew == R(SubSeq(Six, 1, 5))
OverEdge == R(<<[C("E", 9) EXCEPT !.inside = FALSE]>> \o Six)
Plain == [Shuffled EXCEPT !.jumps = <<3, 16, 45, 15, 46>>]

MCImages == {<<NotAPlate, Shuffled, TooMany>>, <<TooMany>>, <<TooFew>>, <<R(<<>>)>>,
             <<OverEdge>>, <<Plain>>, <<NotAPlate>>, <<>>}
\* Past the vector: zeroes, a rectangle over the edge, no number.
MCGarbage == {[C("Junk", 0) EXCEPT !.width = 0, !.height = 0],
              [C("Junk", 6) EXCEPT !.inside = FALSE],
              C("Junk", NaN)}
=============================================================================
