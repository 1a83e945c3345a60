---------------------------- MODULE Recognition ----------------------------
(***************************************************************************)
(* The recognition thread of the platform (opencv_carplate.cpp) on the     *)
(* data its decisions depend on: which regions of the image look like a    *)
(* plate, which contours in it look like a character, in which order the   *)
(* characters stand, and the plate it leaves in the mailbox for the        *)
(* window.  What OpenCV finds in a picture is the picture: an image is the *)
(* sequence of regions it finds, a region has the contours found in it.    *)
(***************************************************************************)
EXTENDS Integers, Sequences, FiniteSets

CONSTANTS
  Length,     \* the characters char_sort expects: 7
  Images,     \* sequences of regions
  Chars,      \* what a contour can be classified as
  Junk,       \* what memory past the end of a vector is classified as
  Garbage,    \* the contours that memory can be taken for
  NaN,        \* the float that is no number
  Blank

Contour == [char : Chars \cup {Junk}, x : Int \cup {NaN}, width : Nat, height : Nat,
            inside : BOOLEAN]
Region == [width : Nat, height : Nat, jumps : Seq(Nat), white : 0..100,
           chars : Seq({c \in Contour : c.x # NaN})]

Plates == [1..Length -> Chars \cup {Junk}]

ASSUME LengthAssumption == Length \in Nat \ {0}
ASSUME ImagesAssumption == /\ Images \subseteq Seq(Region)
                           /\ Garbage \subseteq {c \in Contour : c.char = Junk}
ASSUME BlankAssumption == Blank \notin Plates
ASSUME NaNAssumption == NaN \notin Int

VARIABLES
  pc,         \* where the thread is
  plate_mat,  \* the region car_plate_detect chose last
  itc,        \* the contour char_segment looks at next
  in_char,    \* the characters found, in the order of their contours
  centerX, index, i, j,    \* the locals of char_sort
  out_char,   \* the characters in the order of char_sort
  raisedFirst,   \* history: the flag of the last store came before its bytes
  g_carplate_str, g_carplate_update, window, carplateLab, hurried

Box == INSTANCE Plate

mailbox == <<g_carplate_str, g_carplate_update, window, carplateLab, hurried>>
sort == <<centerX, index, i, j>>
vars == <<pc, plate_mat, itc, in_char, sort, out_char, raisedFirst, mailbox>>

Places == 0..Length-1

Init ==
  /\ pc = "init"
  /\ plate_mat = <<>>
  /\ itc = 1
  /\ in_char = <<>>
  /\ centerX = [k \in Places |-> 0]
  /\ index = [k \in Places |-> k]
  /\ i = 0 /\ j = 0
  /\ out_char = <<>>
  /\ raisedFirst = FALSE
  /\ Box!Init

Goto(from, to) == pc = from /\ pc' = to
-----------------------------------------------------------------------------
(* opencv_car_recogn_thread, car_plate_detect *)

\* car_recogn_init: malloc may fail.
RecognInit ==
  /\ Goto("init", "get") \/ Goto("init", "ended")
  /\ UNCHANGED <<plate_mat, itc, in_char, sort, out_char, raisedFirst, mailbox>>

Longer(r) == IF r.width < r.height THEN r.height ELSE r.width
Shorter(r) == IF r.width < r.height THEN r.width ELSE r.height

\* 44/14 is 3 for the compiler: an area of 20*3*20 to 180*3*180, a side 1.8
\* to 4.2 times the other.
verifySizes_closeImg(r) ==
  /\ r.width * r.height \in 1200..97200
  /\ 10 * Longer(r) \in (18 * Shorter(r))..(42 * Shorter(r))

\* car_plate_detect takes the first region of the right size.  Without a new
\* frame, a picture in it or such a region the thread sleeps and comes back.
Detect ==
  /\ Goto("get", "clear")
  /\ \E image \in Images : \E k \in DOMAIN image :
       /\ verifySizes_closeImg(image[k])
       /\ \A l \in 1..k-1 : ~verifySizes_closeImg(image[l])
       /\ plate_mat' = image[k]
  /\ UNCHANGED <<itc, in_char, sort, out_char, raisedFirst, mailbox>>
-----------------------------------------------------------------------------
(* char_segment *)

\* More than two rows in five change colour as often as characters do, and
\* the white share is theirs.
clearLiuDing(r) ==
  LET iCount == Cardinality({row \in DOMAIN r.jumps : r.jumps[row] \in 16..45})
  IN  /\ 10 * iCount > 4 * Len(r.jumps)
      /\ r.white \in 15..50

Clear ==
  /\ \/ Goto("clear", "filter") /\ clearLiuDing(plate_mat)
     \/ Goto("clear", "get") /\ ~clearLiuDing(plate_mat)
  /\ itc' = 1
  /\ in_char' = <<>>
  /\ UNCHANGED <<plate_mat, sort, out_char, raisedFirst, mailbox>>

char_verifySizes(c) ==
  /\ 20 * Shorter(c) > Longer(c)
  /\ Longer(c) \in 15..32

\* A turn of the loop: contours of another size are erased.
Filter ==
  /\ pc = "filter" /\ itc <= Len(plate_mat.chars)
  /\ in_char' = IF char_verifySizes(plate_mat.chars[itc])
                  THEN Append(in_char, plate_mat.chars[itc])
                  ELSE in_char
  /\ itc' = itc + 1
  /\ UNCHANGED <<pc, plate_mat, sort, out_char, raisedFirst, mailbox>>

\* char_sort reads Length of them, whatever is there: an empty vector has no
\* memory at all.
ReadPastEnd ==
  /\ pc = "filter" /\ itc > Len(plate_mat.chars)
  /\ Len(in_char) < Length
  /\ \/ /\ in_char # <<>>
        /\ \E c \in Garbage : in_char' = Append(in_char, c)
        /\ UNCHANGED pc
     \/ /\ pc' = "crashed"
        /\ UNCHANGED in_char
  /\ UNCHANGED <<plate_mat, itc, sort, out_char, raisedFirst, mailbox>>
-----------------------------------------------------------------------------
(* char_sort: a bubble sort of the centres, with the index beside them *)

\* a > b for the processor: false when either is no number.
Greater(a, b) == a # NaN /\ b # NaN /\ a > b

SortBegin ==
  /\ Goto("filter", "sort") /\ itc > Len(plate_mat.chars)
  /\ Len(in_char) >= Length
  /\ centerX' = [k \in Places |-> in_char[k + 1].x]
  /\ index' = [k \in Places |-> k]
  /\ i' = Length - 2 /\ j' = 0
  /\ UNCHANGED <<plate_mat, itc, in_char, out_char, raisedFirst, mailbox>>

Swapped(f, k) == [f EXCEPT ![k] = f[k + 1], ![k + 1] = f[k]]

\* Mutant: equal centres are exchanged too.
CompareEqual ==
  /\ pc = "sort" /\ j < Length /\ i >= j
  /\ \/ /\ ~Greater(centerX[i + 1], centerX[i])
        /\ centerX' = Swapped(centerX, i)
        /\ index' = Swapped(index, i)
     \/ /\ Greater(centerX[i + 1], centerX[i])
        /\ UNCHANGED <<centerX, index>>
  /\ i' = i - 1
  /\ UNCHANGED <<pc, plate_mat, itc, in_char, j, out_char, raisedFirst, mailbox>>

Compare ==
  /\ pc = "sort" /\ j < Length /\ i >= j
  /\ \/ /\ Greater(centerX[i], centerX[i + 1])
        /\ centerX' = Swapped(centerX, i)
        /\ index' = Swapped(index, i)
     \/ /\ ~Greater(centerX[i], centerX[i + 1])
        /\ UNCHANGED <<centerX, index>>
  /\ i' = i - 1
  /\ UNCHANGED <<pc, plate_mat, itc, in_char, j, out_char, raisedFirst, mailbox>>

\* Mutant: a pass too many.
NextPassPastEnd ==
  /\ pc = "sort" /\ j <= Length /\ i < j
  /\ j' = j + 1
  /\ i' = Length - 2
  /\ UNCHANGED <<pc, plate_mat, itc, in_char, centerX, index, out_char, raisedFirst, mailbox>>

NextPass ==
  /\ pc = "sort" /\ j < Length /\ i < j
  /\ j' = j + 1
  /\ i' = Length - 2
  /\ UNCHANGED <<pc, plate_mat, itc, in_char, centerX, index, out_char, raisedFirst, mailbox>>

SortEnd ==
  /\ Goto("sort", "cut") /\ j = Length
  /\ out_char' = [k \in 1..Length |-> in_char[index[k - 1] + 1]]
  /\ UNCHANGED <<plate_mat, itc, in_char, sort, raisedFirst, mailbox>>
-----------------------------------------------------------------------------
(* The end of char_segment, and car_plate_recogn *)

Text == [k \in 1..Length |-> out_char[k].char]

\* Mutant: the bounds of a character are not looked at.
CutUnchecked ==
  /\ Goto("cut", "wipe")
  /\ UNCHANGED <<plate_mat, itc, in_char, sort, out_char, raisedFirst, mailbox>>

\* A character that lies partly outside the region ends the recognition.
Cut ==
  /\ \/ Goto("cut", "wipe") /\ \A k \in 1..Length : out_char[k].inside
     \/ Goto("cut", "get") /\ \E k \in 1..Length : ~out_char[k].inside
  /\ UNCHANGED <<plate_mat, itc, in_char, sort, out_char, raisedFirst, mailbox>>

Wipe ==
  /\ Goto("wipe", "first")
  /\ Box!Begin(Box!Whole(Blank))
  /\ raisedFirst' = FALSE
  /\ UNCHANGED <<plate_mat, itc, in_char, sort, out_char>>

\* Mutant: the flag is raised with the first bytes.
CopyFirstRaises ==
  /\ Goto("first", "rest")
  /\ g_carplate_str' = <<Text, Blank>>
  /\ g_carplate_update' = TRUE
  /\ UNCHANGED <<plate_mat, itc, in_char, sort, out_char, raisedFirst, window, carplateLab, hurried>>

CopyFirst ==
  /\ Goto("first", "rest")
  /\ Box!Copy(<<Text, Blank>>)
  /\ UNCHANGED <<plate_mat, itc, in_char, sort, out_char, raisedFirst>>

CopyRest ==
  /\ \/ Goto("rest", "raise")
     \/ Goto("raised", "get")
  /\ Box!Copy(Box!Whole(Text))
  /\ UNCHANGED <<plate_mat, itc, in_char, sort, out_char, raisedFirst>>

\* Nothing but the program's order keeps the store of the flag behind those
\* of the string, and the compiler is free to move it.
RaiseFirst ==
  /\ Goto("first", "raised")
  /\ Box!Raise
  /\ raisedFirst' = TRUE
  /\ UNCHANGED <<plate_mat, itc, in_char, sort, out_char>>

\* The plate is then sent by proto_0x10_carplate, and the thread comes back.
Raise ==
  /\ Goto("raise", "get")
  /\ Box!Raise
  /\ UNCHANGED <<plate_mat, itc, in_char, sort, out_char, raisedFirst>>
-----------------------------------------------------------------------------
Display ==
  /\ Box!Window
  /\ UNCHANGED <<pc, plate_mat, itc, in_char, sort, out_char, raisedFirst>>

Next ==
  \/ RecognInit
  \/ Detect
  \/ Clear
  \/ Filter
  \/ ReadPastEnd
  \/ SortBegin
  \/ Compare
  \/ NextPass
  \/ SortEnd
  \/ Cut
  \/ Wipe
  \/ CopyFirst
  \/ CopyRest
  \/ RaiseFirst
  \/ Raise
  \/ Display

Spec == Init /\ [][Next]_vars

\* The timer of the window fires for ever.
FairSpec == Spec /\ WF_vars(Display)
-----------------------------------------------------------------------------
(* Properties *)

\* Every variable has its type; the indices of char_sort stay in its arrays.
TypeOK ==
  /\ pc \in {"init", "ended", "get", "clear", "filter", "crashed", "sort", "cut", "wipe",
             "first", "rest", "raised", "raise"}
  /\ plate_mat \in Region \cup {<<>>}
  /\ itc \in Nat \ {0}
  /\ in_char \in Seq(Contour)
  /\ centerX \in [Places -> Int \cup {NaN}]
  /\ index \in [Places -> Places]
  /\ i \in -1..Length-1 /\ j \in 0..Length
  /\ out_char \in Seq(Contour)
  /\ raisedFirst \in BOOLEAN
  /\ Box!TypeOK(Plates)

\* The first Length centres are numbers: also those past the vector.
AllNumbers == \A k \in Places : in_char[k + 1].x # NaN

\* The characters that leave char_sort are the first Length found, each
\* once, and unless one of them was read where no number is, from left to
\* right, and characters above each other in the order they were found.
LeftToRight ==
  pc \in {"cut", "wipe", "first", "rest", "raised", "raise"} =>
    /\ out_char = [k \in 1..Length |-> in_char[index[k - 1] + 1]]
    /\ \A l \in Places : \E k \in Places : index[k] = l
    /\ \A k, l \in Places : k < l /\ AllNumbers =>
         \/ out_char[k + 1].x < out_char[l + 1].x
         \/ out_char[k + 1].x = out_char[l + 1].x /\ index[k] < index[l]

\* A region read in one go: the first Length contours of the size of a
\* character, by their centres.
Fitting(r) == {k \in DOMAIN r.chars : char_verifySizes(r.chars[k])}
Used(r) == {k \in Fitting(r) : Cardinality({l \in Fitting(r) : l < k}) < Length}
LeftOf(r, k) == {l \in Used(r) : \/ r.chars[l].x < r.chars[k].x
                                 \/ r.chars[l].x = r.chars[k].x /\ l < k}
Reading(r) ==
  [n \in 1..Length |->
     r.chars[CHOOSE k \in Used(r) : Cardinality(LeftOf(r, k)) = n - 1].char]
Readable(r) ==
  /\ clearLiuDing(r)
  /\ Cardinality(Fitting(r)) >= Length
  /\ \A k \in Used(r) : r.chars[k].inside

\* The region of an image that the plate is looked for in.
Chosen(image) ==
  {r \in {image[k] : k \in DOMAIN image} :
     \E k \in DOMAIN image :
       /\ image[k] = r /\ verifySizes_closeImg(r)
       /\ \A l \in 1..k-1 : ~verifySizes_closeImg(image[l])}
Readings == {Reading(r) : r \in {s \in UNION {Chosen(image) : image \in Images} : Readable(s)}}

\* A whole plate in the mailbox is the reading of one image that passed
\* every test, never a mix of two or of one given up, unless characters were
\* missing and memory past the vector was read for them.
PlateOfOneImage ==
  \A plate \in {g_carplate_str[1]} \ {Blank} :
    g_carplate_str = Box!Whole(plate) =>
      plate \in Readings \/ \E k \in 1..Length : plate[k] = Junk

\* The window is about to show a whole plate, unless the plate before it was
\* not shown when its store began, or the flag was moved before the string.
ShowsWholePlate == raisedFirst \/ Box!ShowsWhole

\* A plate stored with the one before it shown by then is shown, unless the
\* next is stored in a hurry, or the flag was moved before the string.
PlatesShown ==
  \A plate \in Readings :
    Box!Waits(plate) /\ ~raisedFirst ~>
      carplateLab = Box!Whole(plate) \/ hurried \/ raisedFirst
=============================================================================
