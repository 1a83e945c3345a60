------------------------- MODULE RecognitionProofs -------------------------
(***************************************************************************)
(* For every Length, Images and Garbage: char_sort sorts, whatever         *)
(* contours were found; a plate in the mailbox is the reading of one       *)
(* image; and the window shows whole plates.                               *)
(***************************************************************************)
EXTENDS Recognition, FiniteSetTheorems, TLAPS

Sorted == {"cut", "wipe", "first", "rest", "raised", "raise"}
Storing == {"first", "rest", "raised"}

\* Contours are looked at in a region.
HasPlate == pc \in {"clear", "filter"} => plate_mat \in Region

\* char_sort and what follows it read in_char only where it is.
Enough == pc \in {"sort"} \cup Sorted => Len(in_char) >= Length

\* The arrays move together: place k holds the centre of character index[k].
InStep == \A k \in Places : centerX[k] = in_char[index[k] + 1].x
Onto == \A l \in Places : \E k \in Places : index[k] = l

\* Equal centres are never exchanged.
Stable == \A k, l \in Places : k < l /\ centerX[k] = centerX[l] => index[k] < index[l]

\* The places below j are settled, and of those above i the first is the least.
InRange == j < Length => i \in j-1..Length-2
Settled == \A k, l \in Places : k < j /\ k < l => centerX[k] <= centerX[l]
Least == j < Length => \A l \in Places : l > i + 1 => centerX[i + 1] <= centerX[l]

\* Without a number in every place nothing is known of the order.
InOrder == AllNumbers => Stable /\ Settled /\ Least

SortInv == pc = "sort" => InStep /\ Onto /\ InRange /\ InOrder

\* Outside a store the mailbox holds a whole plate once the window looks at
\* it; a store that is not in a hurry finds the window at rest.
MailInv ==
  /\ pc \in {"first", "rest", "raise"} /\ ~hurried => ~g_carplate_update /\ window = "idle"
  /\ pc = "raised" => raisedFirst
  /\ pc = "raise" => g_carplate_str = Box!Whole(Text)
  /\ pc \notin Storing /\ (g_carplate_update \/ window # "idle") =>
       /\ g_carplate_str[1] \in Plates
       /\ g_carplate_str = Box!Whole(g_carplate_str[1])

IInv == TypeOK /\ HasPlate /\ Enough /\ SortInv /\ LeftToRight /\ MailInv
-----------------------------------------------------------------------------
(* Types *)

LEMMA InitIInv == Init => IInv
  <1> SUFFICES ASSUME Init PROVE IInv
    OBVIOUS
  <1> USE LengthAssumption
  <1>1. TypeOK
    BY DEF Init, TypeOK, Places, Box!Init, Box!TypeOK, Box!Whole
  <1>2. HasPlate /\ Enough /\ SortInv /\ LeftToRight /\ MailInv
    BY DEF Init, HasPlate, Enough, SortInv, LeftToRight, MailInv, Sorted, Box!Init
  <1>3. QED BY <1>1, <1>2 DEF IInv

\* The type of the program's own variables, and that of the mailbox.
OwnTypes ==
  /\ pc \in {"init", "ended", "get", "clear", "filter", "crashed", "sort", "cut", "wipe",
             "first", "rest", "raised", "raise"}
  /\ plate_mat \in Region \cup {<<>>}
  /\ itc \in Nat \ {0}
  /\ in_char \in Seq(Contour)
  /\ centerX \in [Places -> Int \cup {NaN}]
  /\ index \in [Places -> Places]
  /\ i \in -1..Length-1 /\ j \in 0..Length
  /\ out_char \in Seq(Contour)
  /\ raisedFirst \in BOOLEAN

LEMMA TypesSplit == TypeOK <=> OwnTypes /\ Box!TypeOK(Plates)
  BY DEF TypeOK, OwnTypes

LEMMA ElementTyped ==
  ASSUME NEW S, NEW s \in Seq(S), NEW k \in 1..Len(s)
  PROVE  s[k] \in S
  OBVIOUS

LEMMA CentreTyped ==
  ASSUME NEW c \in Contour
  PROVE  c.x \in Int \cup {NaN} /\ c.char \in Chars \cup {Junk}
  BY DEF Contour

LEMMA RegionTyped ==
  ASSUME NEW r \in Region
  PROVE  /\ r.chars \in Seq(Contour)
         /\ \A k \in 1..Len(r.chars) : r.chars[k].x \in Int
  <1>1. r.chars \in Seq({c \in Contour : c.x # NaN})
    BY DEF Region
  <1>2. r.chars \in Seq(Contour)
    BY <1>1
  <1>3. ASSUME NEW k \in 1..Len(r.chars) PROVE r.chars[k].x \in Int
    <2>1. r.chars[k] \in {c \in Contour : c.x # NaN}
      BY <1>1, ElementTyped
    <2>2. QED BY <2>1, CentreTyped
  <1>4. QED BY <1>2, <1>3

\* The region a step works on.
LEMMA PlateTyped ==
  ASSUME OwnTypes, plate_mat \in Region, itc <= Len(plate_mat.chars)
  PROVE  plate_mat.chars[itc] \in Contour
  <1>1. plate_mat.chars \in Seq(Contour)
    BY RegionTyped
  <1>2. itc \in 1..Len(plate_mat.chars)
    BY <1>1 DEF OwnTypes
  <1>3. QED BY <1>1, <1>2, ElementTyped

LEMMA OwnTypesKept == IInv /\ [Next]_vars => (OwnTypes /\ HasPlate)'
  <1> SUFFICES ASSUME IInv, [Next]_vars PROVE (OwnTypes /\ HasPlate)'
    OBVIOUS
  <1>1. OwnTypes /\ HasPlate /\ Enough /\ SortInv
    BY TypesSplit DEF IInv
  <1> USE LengthAssumption
  <1>2. CASE RecognInit
    BY <1>1, <1>2 DEF OwnTypes, HasPlate, RecognInit, Goto, sort
  <1>3. CASE Detect
    <2> PICK image \in Images : \E k \in DOMAIN image : plate_mat' = image[k]
      BY <1>3 DEF Detect
    <2>1. image \in Seq(Region)
      BY ImagesAssumption
    <2>2. plate_mat' \in Region
      BY <2>1, ElementTyped
    <2>3. QED BY <1>1, <1>3, <2>2 DEF OwnTypes, HasPlate, Detect, Goto, sort
  <1>4. CASE Clear
    BY <1>1, <1>4 DEF OwnTypes, HasPlate, Clear, Goto, sort
  <1>5. CASE Filter
    <2>1. plate_mat.chars[itc] \in Contour
      BY <1>1, <1>5, PlateTyped DEF Filter, HasPlate
    <2>2. in_char' \in Seq(Contour)
      BY <1>1, <1>5, <2>1 DEF OwnTypes, Filter
    <2>3. QED BY <1>1, <1>5, <2>2 DEF OwnTypes, HasPlate, Filter, sort
  <1>6. CASE ReadPastEnd
    <2>1. in_char' \in Seq(Contour)
      <3>1. \A c \in Garbage : c \in Contour
        BY ImagesAssumption
      <3>2. in_char \in Seq(Contour)
        BY <1>1 DEF OwnTypes
      <3>3. in_char' = in_char \/ \E c \in Garbage : in_char' = Append(in_char, c)
        BY <1>6 DEF ReadPastEnd
      <3>4. QED BY <3>1, <3>2, <3>3
    <2>2. pc' \in {"filter", "crashed"} /\ pc = "filter"
      BY <1>6 DEF ReadPastEnd
    <2>3. QED BY <1>1, <1>6, <2>1, <2>2 DEF OwnTypes, HasPlate, ReadPastEnd, sort
  <1>7. CASE SortBegin
    <2>1. ASSUME NEW k \in Places PROVE in_char[k + 1].x \in Int \cup {NaN}
      <3>1. in_char \in Seq(Contour) /\ k + 1 \in 1..Len(in_char)
        BY <1>1, <1>7 DEF OwnTypes, SortBegin, Places
      <3>2. in_char[k + 1] \in Contour
        BY <3>1, ElementTyped
      <3>3. QED BY <3>2, CentreTyped
    <2>2. centerX' \in [Places -> Int \cup {NaN}] /\ index' \in [Places -> Places]
      BY <1>7, <2>1 DEF SortBegin
    <2>3. QED BY <1>1, <1>7, <2>2 DEF OwnTypes, HasPlate, SortBegin, Goto
  <1>8. CASE Compare
    <2>1. i \in Places /\ i + 1 \in Places
      BY <1>1, <1>8 DEF OwnTypes, SortInv, InRange, Compare, Places
    <2>2. centerX' \in [Places -> Int \cup {NaN}] /\ index' \in [Places -> Places]
      BY <1>1, <1>8, <2>1 DEF OwnTypes, Compare, Swapped
    <2>3. i' \in -1..Length-1
      BY <1>1, <1>8 DEF OwnTypes, Compare
    <2>4. QED BY <1>1, <1>8, <2>2, <2>3 DEF OwnTypes, HasPlate, Compare
  <1>9. CASE NextPass
    BY <1>1, <1>9 DEF OwnTypes, HasPlate, NextPass
  <1>10. CASE SortEnd
    <2>1. ASSUME NEW k \in 1..Length PROVE in_char[index[k - 1] + 1] \in Contour
      <3>1. k - 1 \in Places /\ Len(in_char) >= Length /\ in_char \in Seq(Contour)
        BY <1>1, <1>10 DEF OwnTypes, SortEnd, Goto, Enough, Places
      <3>2. index[k - 1] \in 0..Length-1
        BY <1>1, <3>1 DEF OwnTypes, Places
      <3>3. index[k - 1] + 1 \in 1..Len(in_char)
        BY <3>1, <3>2
      <3>4. QED BY <3>1, <3>3, ElementTyped
    <2>2. out_char' \in Seq(Contour)
      BY <1>10, <2>1 DEF SortEnd
    <2>3. QED BY <1>1, <1>10, <2>2 DEF OwnTypes, HasPlate, SortEnd, Goto, sort
  <1>11. CASE Cut
    BY <1>1, <1>11 DEF OwnTypes, HasPlate, Cut, Goto, sort
  <1>12. CASE Wipe
    BY <1>1, <1>12 DEF OwnTypes, HasPlate, Wipe, Goto, sort
  <1>13. CASE CopyFirst \/ CopyRest \/ RaiseFirst \/ Raise
    BY <1>1, <1>13 DEF OwnTypes, HasPlate, CopyFirst, CopyRest, RaiseFirst, Raise, Goto, sort
  <1>14. CASE Display \/ UNCHANGED vars
    BY <1>1, <1>14 DEF OwnTypes, HasPlate, Display, vars, sort
  <1>15. QED BY <1>2, <1>3, <1>4, <1>5, <1>6, <1>7, <1>8, <1>9, <1>10, <1>11, <1>12, <1>13,
               <1>14 DEF Next
-----------------------------------------------------------------------------
(* char_sort *)

\* The arrays as the vector was found.
LEMMA BeginSorts == IInv /\ SortBegin => SortInv'
  <1> SUFFICES ASSUME IInv, SortBegin PROVE (InStep /\ Onto /\ InRange /\ InOrder)'
    BY DEF SortInv
  <1> USE LengthAssumption
  <1>1. OwnTypes
    BY TypesSplit DEF IInv
  <1>2. \A k \in Places : centerX'[k] = in_char'[k + 1].x /\ index'[k] = k
    BY DEF SortBegin
  <1>3. (InStep /\ Onto /\ Stable)'
    BY <1>2 DEF InStep, Onto, Stable, Places
  <1>4. (InRange /\ Settled /\ Least)'
    BY DEF SortBegin, InRange, Settled, Least, Places
  <1>5. QED BY <1>3, <1>4 DEF InOrder

\* In step with their characters, the centres are numbers when those are.
LEMMA Centres ==
  ASSUME OwnTypes, InStep, AllNumbers, Len(in_char) >= Length
  PROVE  \A k \in Places : centerX[k] \in Int /\ centerX[k] # NaN
  <1> USE LengthAssumption
  <1> SUFFICES ASSUME NEW k \in Places PROVE centerX[k] \in Int /\ centerX[k] # NaN
    OBVIOUS
  <1>1. index[k] \in Places
    BY DEF OwnTypes
  <1>2. centerX[k] # NaN
    BY <1>1 DEF InStep, AllNumbers
  <1>3. QED BY <1>2 DEF OwnTypes

\* What Compare does to the order, of numbers.
LEMMA CompareOrders ==
  ASSUME OwnTypes, Compare, Stable, Settled, Least, InRange, NaN \notin Int,
         \A k \in Places : centerX[k] \in Int /\ centerX[k] # NaN
  PROVE  (Stable /\ Settled /\ Least)'
  <1> USE LengthAssumption
  <1>1. /\ j \in Nat /\ j < Length /\ j <= i
        /\ i \in Places /\ i + 1 \in Places
        /\ j' = j /\ in_char' = in_char /\ i' = i - 1 /\ i' + 1 = i
    BY DEF Compare, OwnTypes, InRange, Places
  <1>2. /\ centerX \in [Places -> Int \cup {NaN}] /\ index \in [Places -> Places]
        /\ \A k \in Places : k \in Int /\ centerX[k] \in Int /\ index[k] \in Int
    BY SMTT(20) DEF OwnTypes, Places
  <1>3. Greater(centerX[i], centerX[i + 1]) <=> centerX[i] > centerX[i + 1]
    BY <1>1 DEF Greater
  <1>4. CASE centerX[i] <= centerX[i + 1]
    <2>1. centerX' = centerX /\ index' = index
      BY <1>1, <1>2, <1>3, <1>4 DEF Compare
    <2>2. (Stable /\ Settled)'
      BY <1>1, <2>1 DEF Stable, Settled
    <2>3. Least'
      <3> SUFFICES ASSUME NEW l \in Places, l > i PROVE centerX[i] <= centerX[l]
        BY <1>1, <2>1 DEF Least
      <3>1. l = i + 1 \/ (l > i + 1 /\ centerX[i + 1] <= centerX[l])
        BY <1>1, <1>2 DEF Least
      <3>2. QED BY <1>1, <1>2, <1>4, <3>1
    <2>4. QED BY <2>2, <2>3
  <1>5. CASE centerX[i] > centerX[i + 1]
    <2>1. /\ centerX'[i] = centerX[i + 1] /\ centerX'[i + 1] = centerX[i]
          /\ index'[i] = index[i + 1] /\ index'[i + 1] = index[i]
          /\ \A k \in Places \ {i, i + 1} : centerX'[k] = centerX[k] /\ index'[k] = index[k]
      BY <1>1, <1>2, <1>3, <1>5 DEF Compare, Swapped
    <2>2. Stable'
      <3> SUFFICES ASSUME NEW k \in Places, NEW l \in Places, k < l, centerX'[k] = centerX'[l]
                   PROVE  index'[k] < index'[l]
        BY DEF Stable
      <3>1. CASE k \notin {i, i + 1} /\ l \notin {i, i + 1}
        BY <2>1, <3>1 DEF Stable
      <3>2. CASE k = i \/ k = i + 1
        <4>1. l \notin {i, i + 1}
          BY <1>1, <1>2, <1>5, <2>1, <3>2
        <4>2. QED BY <1>1, <1>2, <2>1, <3>2, <4>1 DEF Stable
      <3>3. CASE (l = i \/ l = i + 1) /\ k \notin {i, i + 1}
        BY <1>1, <1>2, <2>1, <3>3 DEF Stable
      <3>4. QED BY <3>1, <3>2, <3>3
    <2>3. Settled'
      <3> SUFFICES ASSUME NEW k \in Places, NEW l \in Places, k < j, k < l
                   PROVE  centerX'[k] <= centerX'[l]
        BY <1>1 DEF Settled
      <3>1. k \notin {i, i + 1} /\ centerX'[k] = centerX[k]
        BY <1>1, <1>2, <2>1
      <3>2. centerX[k] <= centerX[i] /\ centerX[k] <= centerX[i + 1] /\ centerX[k] <= centerX[l]
        BY <1>1, <1>2 DEF Settled
      <3>3. centerX'[l] \in {centerX[i], centerX[i + 1], centerX[l]}
        BY <2>1
      <3>4. QED BY <3>1, <3>2, <3>3
    <2>4. Least'
      <3> SUFFICES ASSUME NEW l \in Places, l > i PROVE centerX'[i] <= centerX'[l]
        BY <1>1 DEF Least
      <3>1. CASE l = i + 1
        BY <1>1, <1>2, <1>5, <2>1, <3>1
      <3>2. CASE l > i + 1
        <4>1. centerX[i + 1] <= centerX[l]
          BY <1>1, <3>2 DEF Least
        <4>2. centerX'[l] = centerX[l]
          BY <1>1, <1>2, <2>1, <3>2
        <4>3. QED BY <2>1, <4>1, <4>2
      <3>3. QED BY <1>1, <1>2, <3>1, <3>2
    <2>5. QED BY <2>2, <2>3, <2>4
  <1>6. QED BY <1>1, <1>2, <1>4, <1>5

\* One comparison of neighbours.
LEMMA CompareSorts == IInv /\ Compare => SortInv'
  <1> SUFFICES ASSUME IInv, Compare PROVE (InStep /\ Onto /\ InRange /\ InOrder)'
    BY DEF SortInv
  <1> USE LengthAssumption
  <1>1. /\ OwnTypes /\ InStep /\ Onto /\ InRange /\ InOrder
        /\ Len(in_char) >= Length
    BY TypesSplit DEF IInv, SortInv, Enough, Compare
  <1>2. /\ i \in Places /\ i + 1 \in Places /\ i # i + 1 /\ in_char' = in_char
        /\ DOMAIN centerX = Places /\ DOMAIN index = Places
    <2>1. i \in Int /\ j \in Int /\ i \in j-1..Length-2 /\ i >= j /\ j >= 0 /\ in_char' = in_char
      BY <1>1 DEF Compare, OwnTypes, InRange
    <2>2. DOMAIN centerX = Places /\ DOMAIN index = Places
      BY <1>1 DEF OwnTypes
    <2>3. QED BY <2>1, <2>2 DEF Places
  <1>3. ASSUME centerX' = centerX /\ index' = index PROVE (InStep /\ Onto)'
    <2>1. InStep' /\ Onto'
      BY <1>1, <1>2, <1>3 DEF InStep, Onto
    <2>2. QED BY <2>1
  <1>4. ASSUME centerX' = Swapped(centerX, i) /\ index' = Swapped(index, i) PROVE (InStep /\ Onto)'
    <2>1. /\ centerX'[i] = centerX[i + 1] /\ centerX'[i + 1] = centerX[i]
          /\ index'[i] = index[i + 1] /\ index'[i + 1] = index[i]
          /\ \A k \in Places \ {i, i + 1} : centerX'[k] = centerX[k] /\ index'[k] = index[k]
      BY <1>2, <1>4 DEF Swapped
    <2>2. InStep'
      BY <1>1, <1>2, <2>1 DEF InStep
    <2>3. Onto'
      BY <1>1, <1>2, <2>1 DEF Onto
    <2>4. QED BY <2>2, <2>3
  <1>5. (InStep /\ Onto)'
    BY <1>3, <1>4 DEF Compare
  <1>6. InRange'
    BY <1>1 DEF Compare, InRange, OwnTypes
  <1>7. InOrder'
    <2>1. AllNumbers' <=> AllNumbers
      BY <1>2 DEF AllNumbers
    <2>2. QED BY <1>1, <2>1, Centres, CompareOrders, NaNAssumption DEF InOrder
  <1>8. QED BY <1>5, <1>6, <1>7

\* The first of the rest joins the settled ones.
LEMMA NextPassSorts == IInv /\ NextPass => SortInv'
  <1> SUFFICES ASSUME IInv, NextPass PROVE (InStep /\ Onto /\ InRange /\ InOrder)'
    BY DEF SortInv
  <1> USE LengthAssumption
  <1>1. OwnTypes
    BY TypesSplit DEF IInv
  <1>2. InStep /\ Onto /\ InRange /\ InOrder
    BY DEF IInv, SortInv, NextPass
  <1>3. /\ j \in Nat /\ j < Length /\ i = j - 1
        /\ j' = j + 1 /\ i' = Length - 2
        /\ UNCHANGED <<in_char, centerX, index>>
    BY <1>1, <1>2 DEF NextPass, OwnTypes, InRange
  <1>4. (InStep /\ Onto /\ InRange)'
    BY <1>2, <1>3 DEF InStep, Onto, InRange
  <1>5. ASSUME AllNumbers' PROVE (Stable /\ Settled /\ Least)'
    <2>1. Stable /\ Settled /\ Least
      BY <1>2, <1>3, <1>5 DEF InOrder, AllNumbers
    <2>2. Stable'
      BY <1>3, <2>1 DEF Stable
    <2>3. Settled'
      <3> SUFFICES ASSUME NEW k \in Places, NEW l \in Places, k < j + 1, k < l
                   PROVE  centerX[k] <= centerX[l]
        BY <1>3 DEF Settled
      <3>1. CASE k < j
        BY <2>1, <3>1 DEF Settled
      <3>2. CASE k = j
        BY <1>3, <2>1, <3>2 DEF Least, Places
      <3>3. QED BY <1>3, <3>1, <3>2 DEF Places
    <2>4. Least'
      BY <1>3 DEF Least, Places
    <2>5. QED BY <2>2, <2>3, <2>4
  <1>6. QED BY <1>4, <1>5 DEF InOrder

\* When the last pass is over the characters stand from left to right.
LEMMA SortEndSorts == IInv /\ SortEnd => LeftToRight'
  <1> SUFFICES ASSUME IInv, SortEnd PROVE LeftToRight'
    OBVIOUS
  <1> USE LengthAssumption
  <1>1. OwnTypes /\ Len(in_char) >= Length
    BY TypesSplit DEF IInv, Enough, SortEnd, Goto
  <1>2. InStep /\ Onto /\ InOrder /\ j = Length
    BY DEF IInv, SortInv, SortEnd, Goto
  <1>3. /\ out_char' = [k \in 1..Length |-> in_char[index[k - 1] + 1]]
        /\ in_char' = in_char /\ index' = index
    BY DEF SortEnd, sort
  <1>4. ASSUME NEW k \in Places PROVE out_char'[k + 1].x = centerX[k]
    BY <1>2, <1>3 DEF InStep, Places
  <1>5. ASSUME NEW k \in Places, NEW l \in Places, k < l, AllNumbers'
        PROVE  \/ out_char'[k + 1].x < out_char'[l + 1].x
               \/ out_char'[k + 1].x = out_char'[l + 1].x /\ index[k] < index[l]
    <2>1. Stable /\ Settled /\ \A n \in Places : centerX[n] \in Int
      <3>1. AllNumbers
        BY <1>3, <1>5 DEF AllNumbers
      <3>2. QED BY <1>1, <1>2, <3>1, Centres DEF InOrder
    <2>2. centerX[k] <= centerX[l] /\ centerX[k] \in Int /\ centerX[l] \in Int
      <3>1. k < j
        BY <1>2 DEF Places
      <3>2. QED BY <1>5, <2>1, <3>1 DEF Settled
    <2>3. centerX[k] = centerX[l] => index[k] < index[l]
      BY <1>5, <2>1 DEF Stable
    <2>4. out_char'[k + 1].x = centerX[k] /\ out_char'[l + 1].x = centerX[l]
      BY <1>4
    <2>5. QED BY <2>2, <2>3, <2>4
  <1>6. QED BY <1>2, <1>3, <1>5 DEF LeftToRight, Onto

LEMMA SortKept == IInv /\ [Next]_vars => (Enough /\ SortInv /\ LeftToRight)'
  <1> SUFFICES ASSUME IInv, [Next]_vars PROVE (Enough /\ SortInv /\ LeftToRight)'
    OBVIOUS
  <1>1. Enough /\ SortInv /\ LeftToRight /\ OwnTypes
    BY TypesSplit DEF IInv
  <1>2. CASE RecognInit \/ Detect \/ Clear \/ Filter \/ ReadPastEnd
    BY <1>2 DEF Enough, SortInv, LeftToRight, Sorted, RecognInit, Detect, Clear, Filter,
                ReadPastEnd, Goto
  <1>3. CASE SortBegin
    BY <1>3, BeginSorts DEF Enough, LeftToRight, Sorted, SortBegin, Goto
  <1>4. CASE Compare
    BY <1>1, <1>4, CompareSorts DEF Enough, LeftToRight, Compare
  <1>5. CASE NextPass
    BY <1>1, <1>5, NextPassSorts DEF Enough, LeftToRight, NextPass
  <1>6. CASE SortEnd
    BY <1>1, <1>6, SortEndSorts DEF Enough, SortInv, Sorted, SortEnd, Goto
  <1>7. CASE Cut \/ Wipe \/ CopyFirst \/ CopyRest \/ RaiseFirst \/ Raise
    <2>1. UNCHANGED <<in_char, index, out_char>>
      BY <1>7 DEF Cut, Wipe, CopyFirst, CopyRest, RaiseFirst, Raise, sort
    <2>2. pc \in Sorted /\ pc' \in Sorted \cup {"get"}
      BY <1>7 DEF Cut, Wipe, CopyFirst, CopyRest, RaiseFirst, Raise, Goto, Sorted
    <2>3. QED BY <1>1, <2>1, <2>2 DEF Enough, SortInv, LeftToRight, AllNumbers, Sorted
  <1>8. CASE Display \/ UNCHANGED vars
    <2>1. UNCHANGED <<pc, in_char, out_char, sort>>
      BY <1>8 DEF Display, vars
    <2>2. QED BY <1>1, <2>1 DEF Enough, SortInv, LeftToRight, AllNumbers, InStep, Onto, InRange, InOrder,
                Stable, Settled, Least, sort
  <1>9. QED BY <1>2, <1>3, <1>4, <1>5, <1>6, <1>7, <1>8 DEF Next
-----------------------------------------------------------------------------
(* The mailbox *)

LEMMA TextTyped == OwnTypes /\ LeftToRight /\ pc \in Sorted => Text \in Plates
  <1> SUFFICES ASSUME OwnTypes, LeftToRight, pc \in Sorted, NEW k \in 1..Length
               PROVE  out_char[k].char \in Chars \cup {Junk}
    BY DEF Text, Plates
  <1> USE LengthAssumption
  <1>1. out_char = [n \in 1..Length |-> in_char[index[n - 1] + 1]]
    BY DEF LeftToRight, Sorted
  <1>2. out_char \in Seq(Contour) /\ DOMAIN out_char = 1..Length
    BY <1>1 DEF OwnTypes
  <1>3. k \in 1..Len(out_char)
    BY <1>2
  <1>4. QED BY <1>2, <1>3, ElementTyped, CentreTyped

LEMMA BoxKept == IInv /\ [Next]_vars => Box!TypeOK(Plates)'
  <1> SUFFICES ASSUME IInv, [Next]_vars PROVE Box!TypeOK(Plates)'
    OBVIOUS
  <1>1. Box!TypeOK(Plates)
    BY TypesSplit DEF IInv
  <1>2. pc \in Sorted => Text \in Plates
    BY TextTyped, TypesSplit DEF IInv
  <1>3. CASE UNCHANGED mailbox
    BY <1>1, <1>3 DEF Box!TypeOK, mailbox
  <1>4. CASE Wipe
    BY <1>1, <1>4 DEF Box!TypeOK, Wipe, Box!Begin, Box!Whole
  <1>5. CASE CopyFirst \/ CopyRest
    <2>1. Text \in Plates
      BY <1>2, <1>5 DEF CopyFirst, CopyRest, Goto, Sorted
    <2>2. QED BY <1>1, <1>5, <2>1 DEF Box!TypeOK, CopyFirst, CopyRest, Box!Copy, Box!Whole
  <1>6. CASE RaiseFirst \/ Raise
    BY <1>1, <1>6 DEF Box!TypeOK, RaiseFirst, Raise, Box!Raise
  <1>7. CASE Display
    BY <1>1, <1>7 DEF Box!TypeOK, Display, Box!Window, Box!Look, Box!Show, Box!Lower
  <1>8. QED BY <1>3, <1>4, <1>5, <1>6, <1>7 DEF Next, vars, RecognInit, Detect, Clear, Filter,
              ReadPastEnd, SortBegin, Compare, NextPass, SortEnd, Cut

LEMMA MailKept == IInv /\ [Next]_vars => MailInv'
  <1> SUFFICES ASSUME IInv, [Next]_vars PROVE MailInv'
    OBVIOUS
  <1>1. MailInv
    BY DEF IInv
  <1>2. pc \in Sorted => Text \in Plates
    BY TextTyped, TypesSplit DEF IInv
  <1>3. CASE RecognInit \/ Detect \/ Clear \/ Filter \/ ReadPastEnd \/ SortBegin \/ SortEnd
    BY <1>1, <1>3 DEF MailInv, Storing, RecognInit, Detect, Clear, Filter, ReadPastEnd,
                      SortBegin, SortEnd, Goto, mailbox
  <1>4. CASE Compare \/ NextPass \/ Cut
    BY <1>1, <1>4 DEF MailInv, Storing, Compare, NextPass, Cut, Goto, mailbox
  <1>5. CASE Wipe
    BY <1>5 DEF MailInv, Storing, Wipe, Goto, Box!Begin
  <1>6. CASE CopyFirst
    BY <1>1, <1>6 DEF MailInv, Storing, CopyFirst, Goto, Box!Copy
  <1>7. CASE CopyRest
    <2>1. Text \in Plates /\ Text' = Text
      BY <1>2, <1>7 DEF CopyRest, Goto, Sorted, Text
    <2>2. g_carplate_str' = Box!Whole(Text)
      BY <1>7 DEF CopyRest, Box!Copy
    <2>3. pc' \notin Storing /\ pc' # "raised" /\ pc' # "first"
      BY <1>7 DEF CopyRest, Goto, Storing
    <2>4. pc' = "raise" => pc = "rest" /\ UNCHANGED <<hurried, g_carplate_update, window>>
      BY <1>7 DEF CopyRest, Goto, Box!Copy
    <2>5. g_carplate_str'[1] = Text
      BY <2>2 DEF Box!Whole
    <2>6. pc' \notin {"first", "rest"}
      BY <1>7 DEF CopyRest, Goto
    <2>7. QED BY <1>1, <2>1, <2>2, <2>3, <2>4, <2>5, <2>6 DEF MailInv
  <1>8. CASE RaiseFirst
    BY <1>8 DEF MailInv, Storing, RaiseFirst, Goto
  <1>9. CASE Raise
    <2>1. g_carplate_str' = Box!Whole(Text) /\ Text \in Plates /\ pc' = "get"
      BY <1>1, <1>2, <1>9 DEF MailInv, Raise, Goto, Box!Raise, Sorted
    <2>2. g_carplate_str'[1] = Text
      BY <2>1 DEF Box!Whole
    <2>3. QED BY <2>1, <2>2 DEF MailInv
  <1>10. CASE Display
    <2>1. UNCHANGED <<pc, out_char, raisedFirst, g_carplate_str, hurried>>
      BY <1>10 DEF Display, Box!Window, Box!Look, Box!Show, Box!Lower
    <2>2. ~g_carplate_update /\ window = "idle" => ~g_carplate_update' /\ window' = "idle"
      BY <1>10 DEF Display, Box!Window, Box!Look, Box!Show, Box!Lower
    <2>3. g_carplate_update' \/ window' # "idle" => g_carplate_update \/ window # "idle"
      BY <1>10 DEF Display, Box!Window, Box!Look, Box!Show, Box!Lower
    <2>4. Text' = Text
      BY <2>1 DEF Text
    <2>5. QED BY <1>1, <2>1, <2>2, <2>3, <2>4 DEF MailInv
  <1>11. CASE UNCHANGED vars
    BY <1>1, <1>11 DEF MailInv, Text, vars, mailbox
  <1>12. QED BY <1>3, <1>4, <1>5, <1>6, <1>7, <1>8, <1>9, <1>10, <1>11 DEF Next
-----------------------------------------------------------------------------
LEMMA Inductive == Spec => []IInv
  <1>1. IInv /\ [Next]_vars => IInv'
    BY OwnTypesKept, SortKept, BoxKept, MailKept DEF IInv, TypeOK, OwnTypes
  <1>2. QED BY InitIInv, <1>1, PTL DEF Spec

\* char_sort in opencv_carplate.cpp: whatever contours are found, and
\* whatever lies past the end of their vector, the characters leave it from
\* left to right, each once, and the variables keep their types.
THEOREM CharactersLeftToRight == Spec => [](TypeOK /\ LeftToRight)
  <1>1. IInv => TypeOK /\ LeftToRight
    BY DEF IInv
  <1>2. QED BY Inductive, <1>1, PTL

\* The same for the types alone: i, j and the indices of char_sort stay in
\* its arrays.
COROLLARY RecognitionTypes == Spec => []TypeOK
  <1>1. TypeOK /\ LeftToRight => TypeOK
    OBVIOUS
  <1>2. QED BY CharactersLeftToRight, <1>1, PTL

\* window_display of the platform: it shows half a plate only if the store
\* began with the plate before it not shown, or if the flag was stored
\* before the string.
THEOREM WindowShowsWholePlates == Spec => []ShowsWholePlate
  <1>1. IInv => ShowsWholePlate
    <2> SUFFICES ASSUME IInv, ~raisedFirst, window = "show", ~hurried
                 PROVE  \E plate \in {g_carplate_str[1]} \ {Blank} :
                          g_carplate_str = Box!Whole(plate)
      BY DEF ShowsWholePlate, Box!ShowsWhole
    <2>1. pc \notin Storing
      BY DEF IInv, MailInv, Storing
    <2>2. g_carplate_str[1] \in Plates /\ g_carplate_str = Box!Whole(g_carplate_str[1])
      BY <2>1 DEF IInv, MailInv
    <2>3. g_carplate_str[1] # Blank
      BY <2>2, BlankAssumption
    <2>4. QED BY <2>2, <2>3
  <1>2. QED BY Inductive, <1>1, PTL
-----------------------------------------------------------------------------
(* What char_sort sorts *)

\* The characters of a region before its n-th contour, and their number.
Before(r, n) == {l \in Fitting(r) : l < n}
Rank(r, n) == Cardinality(Before(r, n))

\* s holds them in the order of their contours.
Holds(s, r, n) ==
  /\ Len(s) = Rank(r, n)
  /\ \A k \in Before(r, n) : s[Rank(r, k) + 1] = r.chars[k]
  /\ \A m \in 1..Len(s) : \E k \in Before(r, n) : Rank(r, k) + 1 = m

\* Memory past the vector is among what char_sort reads.
PastEnd == \E m \in 1..Length : m <= Len(in_char) /\ in_char[m].char = Junk

\* The region the thread works on is one it may choose; what it has found in
\* it are its characters in order, or too few.
FoundInv ==
  /\ pc \in {"clear", "filter", "sort"} \cup Sorted =>
       plate_mat \in UNION {Chosen(image) : image \in Images}
  /\ pc \in {"filter", "sort"} \cup Sorted =>
       clearLiuDing(plate_mat) /\ (PastEnd \/ Holds(in_char, plate_mat, itc))
  /\ pc \in {"sort"} \cup Sorted => itc > Len(plate_mat.chars)

\* What is stored is the reading of one image, or has what was past the end.
OfOneImage(plate) == plate \in Readings \/ \E k \in 1..Length : plate[k] = Junk
TextInv == pc \in Sorted \ {"cut"} => OfOneImage(Text)

LEMMA FittingPlaces ==
  ASSUME NEW r \in Region
  PROVE  /\ r.chars \in Seq(Contour) /\ Len(r.chars) \in Nat
         /\ Fitting(r) \subseteq 1..Len(r.chars)
  <1>1. r.chars \in Seq(Contour)
    BY RegionTyped
  <1>2. QED BY <1>1 DEF Fitting

LEMMA BeforeFinite ==
  ASSUME NEW r \in Region, NEW n
  PROVE  IsFiniteSet(Before(r, n)) /\ Rank(r, n) \in Nat
  <1>1. IsFiniteSet(1..Len(r.chars))
    BY FittingPlaces, FS_Interval
  <1>2. Before(r, n) \in SUBSET (1..Len(r.chars))
    BY FittingPlaces DEF Before
  <1>3. IsFiniteSet(Before(r, n))
    BY ONLY <1>1, <1>2, FS_Subset
  <1>4. QED BY <1>3, FS_CardinalityType DEF Rank

\* One more contour looked at.
LEMMA RankNext ==
  ASSUME NEW r \in Region, NEW n \in Nat
  PROVE  /\ n \in Fitting(r) => Before(r, n + 1) = Before(r, n) \cup {n} /\ Rank(r, n + 1) = Rank(r, n) + 1
         /\ n \notin Fitting(r) => Before(r, n + 1) = Before(r, n) /\ Rank(r, n + 1) = Rank(r, n)
  <1>1. \A k \in Fitting(r) : k \in Nat
    BY FittingPlaces
  <1>2. n \notin Before(r, n)
    BY DEF Before
  <1>3. CASE n \in Fitting(r)
    <2>1. Before(r, n + 1) = Before(r, n) \cup {n}
      <3>1. \A l \in Fitting(r) : l < n + 1 <=> l < n \/ l = n
        BY <1>1
      <3>2. QED BY <1>3, <3>1 DEF Before
    <2>2. QED BY <1>2, <1>3, <2>1, BeforeFinite, FS_AddElement DEF Rank
  <1>4. CASE n \notin Fitting(r)
    <2>1. Before(r, n + 1) = Before(r, n)
      BY <1>1, <1>4 DEF Before
    <2>2. QED BY <1>4, <2>1 DEF Rank
  <1>5. QED BY <1>3, <1>4

\* A character has fewer before it than one behind it.
LEMMA RankLess ==
  ASSUME NEW r \in Region, NEW n \in Nat, NEW k \in Before(r, n)
  PROVE  Rank(r, k) < Rank(r, n)
  <1>1. k \in Fitting(r) /\ k \in Nat /\ k < n /\ k \notin Before(r, k)
    BY FittingPlaces DEF Before
  <1>2. Before(r, k + 1) = Before(r, k) \cup {k} /\ Rank(r, k + 1) = Rank(r, k) + 1
    BY <1>1, RankNext
  <1>3. Before(r, k) \cup {k} \in SUBSET Before(r, n)
    BY <1>1, FittingPlaces DEF Before
  <1>4. Rank(r, k + 1) <= Rank(r, n)
    <2>1. IsFiniteSet(Before(r, n))
      BY BeforeFinite
    <2>2. QED BY <1>2, <1>3, <2>1, FS_Subset DEF Rank
  <1>5. Rank(r, k) \in Nat /\ Rank(r, n) \in Nat
    BY BeforeFinite
  <1>6. QED BY <1>2, <1>4, <1>5

\* So that their ranks stand as they do.
LEMMA RankOrder ==
  ASSUME NEW r \in Region, NEW k \in Fitting(r), NEW l \in Fitting(r)
  PROVE  /\ Rank(r, k) < Rank(r, l) => k < l
         /\ Rank(r, k) = Rank(r, l) => k = l
  <1>1. /\ k \in Nat /\ l \in Nat
        /\ Rank(r, k) \in Nat /\ Rank(r, l) \in Nat
    BY FittingPlaces, BeforeFinite
  <1>2. CASE k < l
    <2>1. k \in Before(r, l)
      BY <1>2 DEF Before
    <2>2. Rank(r, k) < Rank(r, l)
      BY <1>1, <2>1, RankLess
    <2>3. QED BY <1>1, <1>2, <2>2
  <1>3. CASE l < k
    <2>1. l \in Before(r, k)
      BY <1>3 DEF Before
    <2>2. Rank(r, l) < Rank(r, k)
      BY <1>1, <2>1, RankLess
    <2>3. QED BY <1>1, <1>3, <2>2
  <1>4. QED BY <1>1, <1>2, <1>3

\* K lists U in an order, and L[u] is what stands before u in it.
Listed(N, U, K, L) ==
  /\ N \in Nat /\ K \in [1..N -> U] /\ L \in [U -> SUBSET U]
  /\ \A u \in U : \E m \in 1..N : K[m] = u
  /\ \A m, n \in 1..N : K[m] \in L[K[n]] <=> m < n

\* The n-th is the one with n - 1 before it.
LEMMA NthListed ==
  ASSUME NEW N, NEW U, NEW K, NEW L, Listed(N, U, K, L), NEW n \in 1..N
  PROVE  \A u \in U : Cardinality(L[u]) = n - 1 <=> u = K[n]
  <1> USE DEF Listed
  <1>1. ASSUME NEW p \in 1..N PROVE Cardinality(L[K[p]]) = p - 1
    <2> DEFINE f == [m \in 1..p-1 |-> K[m]]
               T == L[K[p]]
    <2>1. \A m \in 1..p-1 : m \in 1..N /\ m < p
      OBVIOUS
    <2>2. f \in [1..p-1 -> T]
      BY <2>1
    <2>3. \A a, b \in 1..p-1 : f[a] = f[b] => a = b
      <3> SUFFICES ASSUME NEW a \in 1..p-1, NEW b \in 1..p-1, K[a] = K[b] PROVE a = b
        OBVIOUS
      <3>1. a < b <=> a < a
        BY <2>1
      <3>2. b < a <=> b < b
        BY <2>1
      <3>3. QED BY <3>1, <3>2
    <2>4. \A t \in T : \E a \in 1..p-1 : f[a] = t
      <3> SUFFICES ASSUME NEW t \in T PROVE \E a \in 1..p-1 : f[a] = t
        OBVIOUS
      <3>1. t \in U
        OBVIOUS
      <3>2. PICK m \in 1..N : K[m] = t
        BY <3>1
      <3>3. m \in 1..p-1
        BY <3>2
      <3>4. QED BY <3>2, <3>3
    <2> HIDE DEF f, T
    <2>5. f \in Bijection(1..p-1, T)
      BY <2>2, <2>3, <2>4 DEF Bijection, Injection, Surjection, IsInjective
    <2>6. ExistsBijection(1..p-1, T)
      BY <2>5 DEF ExistsBijection
    <2>7. IsFiniteSet(1..p-1) /\ Cardinality(1..p-1) = p - 1
      <3>1. 1 \in Int /\ p - 1 \in Int
        OBVIOUS
      <3>2. /\ IsFiniteSet(1..p-1)
            /\ Cardinality(1..p-1) = IF 1 > p - 1 THEN 0 ELSE (p - 1) - 1 + 1
        BY ONLY <3>1, FS_Interval
      <3>3. QED BY <3>2
    <2>8. Cardinality(T) = Cardinality(1..p-1)
      BY ONLY <2>6, <2>7, FS_Bijection
    <2>9. QED BY <2>7, <2>8 DEF T
  <1>2. ASSUME NEW u \in U, Cardinality(L[u]) = n - 1 PROVE u = K[n]
    <2>1. PICK m \in 1..N : K[m] = u
      OBVIOUS
    <2>2. m - 1 = n - 1
      BY <1>1, <1>2, <2>1
    <2>3. m = n
      BY <2>2
    <2>4. QED BY <2>1, <2>3
  <1>3. QED BY <1>1, <1>2

LEMMA ChosenRegion ==
  ASSUME NEW r \in UNION {Chosen(image) : image \in Images}
  PROVE  r \in Region
  <1>1. PICK image \in Images : r \in Chosen(image)
    OBVIOUS
  <1>2. PICK k \in DOMAIN image : image[k] = r
    BY <1>1 DEF Chosen
  <1>3. image \in Seq(Region)
    BY ImagesAssumption
  <1>4. QED BY <1>2, <1>3, ElementTyped

\* What char_sort leaves, had it enough characters, is the reading of the
\* region, and has every character of it that is used.
LEMMA SortReads ==
  ASSUME OwnTypes, Enough, LeftToRight, FoundInv, pc \in Sorted, ~PastEnd
  PROVE  /\ Text = Reading(plate_mat)
         /\ Cardinality(Fitting(plate_mat)) >= Length
         /\ \A k \in Used(plate_mat) : \E n \in 1..Length : out_char[n] = plate_mat.chars[k]
  <1> DEFINE r == plate_mat
             c == r.chars
             F == Fitting(r)
             U == Used(r)
             L == [k \in U |-> LeftOf(r, k)]
             K == [n \in 1..Length |-> CHOOSE k \in F : Rank(r, k) = index[n - 1]]
  <1>1. /\ r \in Region /\ Length \in Nat \ {0} /\ itc \in Nat /\ itc > Len(c)
        /\ index \in [Places -> Places] /\ Len(in_char) >= Length /\ Len(in_char) \in Nat
    BY ChosenRegion, LengthAssumption DEF FoundInv, OwnTypes, Enough
  <1>2. F \subseteq 1..Len(c) /\ Len(c) \in Nat /\ c \in Seq(Contour)
    BY <1>1, FittingPlaces
  <1>3. Before(r, itc) = F
    <2>1. \A k \in F : k < itc
      BY <1>1, <1>2
    <2>2. QED BY <2>1 DEF Before
  <1>4. Holds(in_char, r, itc)
    BY DEF FoundInv
  <1>5. Cardinality(F) >= Length
    BY <1>1, <1>3, <1>4 DEF Holds, Rank
  <1>5a. AllNumbers
    <2> SUFFICES ASSUME NEW k \in Places PROVE in_char[k + 1].x # NaN
      BY DEF AllNumbers
    <2>1. k + 1 \in 1..Len(in_char)
      BY <1>1 DEF Places
    <2>2. PICK l \in F : Rank(r, l) + 1 = k + 1
      BY <1>3, <1>4, <2>1 DEF Holds
    <2>3. in_char[k + 1] = c[l]
      BY <1>3, <1>4, <2>2 DEF Holds
    <2>4. c[l].x \in Int
      BY <1>1, <1>2, RegionTyped
    <2>5. QED BY <2>3, <2>4, NaNAssumption
  <1>6. U = {k \in F : Rank(r, k) < Length}
    BY DEF Used, Rank, Before
  <1>7. ASSUME NEW n \in 1..Length
        PROVE  /\ K[n] \in U /\ Rank(r, K[n]) = index[n - 1]
               /\ out_char[n] = c[K[n]]
    <2>1. n - 1 \in Places /\ index[n - 1] \in 0..Length-1
      BY <1>1 DEF Places
    <2>2. index[n - 1] + 1 \in 1..Len(in_char) /\ index[n - 1] \in Nat
      BY <1>1, <2>1
    <2>3. PICK k \in F : Rank(r, k) + 1 = index[n - 1] + 1
      BY <1>3, <1>4, <2>2 DEF Holds
    <2>4. Rank(r, k) = index[n - 1]
      BY <1>1, <2>2, <2>3, BeforeFinite
    <2>5. K[n] \in F /\ Rank(r, K[n]) = index[n - 1]
      BY <2>4
    <2>6. K[n] \in U
      BY <1>1, <1>6, <2>1, <2>5
    <2>7. in_char[Rank(r, K[n]) + 1] = c[K[n]]
      BY <1>3, <1>4, <2>5 DEF Holds
    <2>8. out_char[n] = in_char[index[n - 1] + 1]
      BY DEF LeftToRight, Sorted
    <2>9. QED BY <2>5, <2>6, <2>7, <2>8
  <1> HIDE DEF K
  <1>8. ASSUME NEW u \in U PROVE \E n \in 1..Length : K[n] = u
    <2>1. u \in F /\ Rank(r, u) \in Places
      BY <1>1, <1>6, BeforeFinite DEF Places
    <2>2. PICK p \in Places : index[p] = Rank(r, u)
      BY <2>1 DEF LeftToRight, Sorted
    <2>3. p + 1 \in 1..Length /\ (p + 1) - 1 = p
      BY <1>1 DEF Places
    <2>4. Rank(r, K[p + 1]) = Rank(r, u) /\ K[p + 1] \in F
      BY <1>6, <1>7, <2>2, <2>3
    <2>5. K[p + 1] = u
      BY <1>1, <2>1, <2>4, RankOrder
    <2>6. QED BY <2>3, <2>5
  <1>9. ASSUME NEW m \in 1..Length, NEW n \in 1..Length, m < n
        PROVE  \/ c[K[m]].x < c[K[n]].x
               \/ c[K[m]].x = c[K[n]].x /\ K[m] < K[n]
    <2>1. /\ m - 1 \in Places /\ n - 1 \in Places /\ m - 1 < n - 1
          /\ (m - 1) + 1 = m /\ (n - 1) + 1 = n
      BY <1>1, <1>9 DEF Places
    <2>2. \/ out_char[m].x < out_char[n].x
          \/ out_char[m].x = out_char[n].x /\ index[m - 1] < index[n - 1]
      BY <1>5a, <2>1 DEF LeftToRight, Sorted
    <2>3. index[m - 1] < index[n - 1] => K[m] < K[n]
      BY <1>1, <1>6, <1>7, RankOrder
    <2>4. QED BY <1>7, <2>2, <2>3
  <1>10. Listed(Length, U, K, L)
    <2>1. K \in [1..Length -> U]
      BY <1>7 DEF K
    <2>2. L \in [U -> SUBSET U]
      BY DEF LeftOf
    <2>3. ASSUME NEW m \in 1..Length, NEW n \in 1..Length PROVE K[m] \in L[K[n]] <=> m < n
      <3>1. K[m] \in U /\ K[n] \in U
        BY <1>7
      <3>2. /\ c[K[m]].x \in Int /\ c[K[n]].x \in Int
            /\ K[m] \in Int /\ K[n] \in Int
        <4>1. K[m] \in 1..Len(c) /\ K[n] \in 1..Len(c)
          BY <1>2, <1>6, <3>1
        <4>2. QED BY <1>1, <4>1, RegionTyped
      <3>3. K[m] \in L[K[n]] <=> \/ c[K[m]].x < c[K[n]].x
                                 \/ c[K[m]].x = c[K[n]].x /\ K[m] < K[n]
        BY <3>1 DEF LeftOf
      <3>4. CASE m < n
        BY <1>9, <3>3, <3>4
      <3>5. CASE m = n
        BY <3>2, <3>3, <3>5
      <3>6. CASE n < m
        <4>1. \/ c[K[n]].x < c[K[m]].x
              \/ c[K[n]].x = c[K[m]].x /\ K[n] < K[m]
          BY <1>9, <3>6
        <4>2. QED BY <3>2, <3>3, <3>6, <4>1
      <3>7. m < n \/ m = n \/ n < m
        OBVIOUS
      <3>8. QED BY <3>4, <3>5, <3>6, <3>7
    <2>4. QED BY <1>1, <1>8, <2>1, <2>2, <2>3 DEF Listed
  <1>11. ASSUME NEW n \in 1..Length PROVE Reading(r)[n] = Text[n]
    <2>1. \A k \in U : Cardinality(LeftOf(r, k)) = n - 1 <=> k = K[n]
      <3>1. \A k \in U : Cardinality(L[k]) = n - 1 <=> k = K[n]
        BY <1>10, NthListed
      <3>2. QED BY <3>1
    <2>2. (CHOOSE k \in U : Cardinality(LeftOf(r, k)) = n - 1) = K[n]
      BY <1>7, <2>1
    <2>3. Reading(r)[n] = c[K[n]].char
      BY <2>2 DEF Reading
    <2>4. QED BY <1>7, <2>3 DEF Text
  <1>12. Text = Reading(r)
    BY <1>11 DEF Text, Reading
  <1>13. \A k \in U : \E n \in 1..Length : out_char[n] = c[k]
    BY <1>7, <1>8
  <1>14. QED BY <1>5, <1>12, <1>13

\* A turn of the loop of char_segment.
LEMMA HoldsNext ==
  ASSUME NEW r \in Region, NEW n \in 1..Len(r.chars), NEW s \in Seq(Contour), Holds(s, r, n)
  PROVE  /\ char_verifySizes(r.chars[n]) => Holds(Append(s, r.chars[n]), r, n + 1)
         /\ ~char_verifySizes(r.chars[n]) => Holds(s, r, n + 1)
  <1> DEFINE x == r.chars[n]
             t == Append(s, x)
  <1>1. /\ r.chars \in Seq(Contour) /\ n \in Nat /\ x \in Contour
        /\ n \in Fitting(r) <=> char_verifySizes(x)
    <2>1. r.chars \in Seq(Contour)
      BY RegionTyped
    <2>2. n \in DOMAIN r.chars /\ n \in Nat
      BY <2>1
    <2>3. QED BY <2>1, <2>2, ElementTyped DEF Fitting
  <1>2. CASE ~char_verifySizes(x)
    BY <1>1, <1>2, RankNext DEF Holds
  <1>3. CASE char_verifySizes(x)
    <2>1. Before(r, n + 1) = Before(r, n) \cup {n} /\ Rank(r, n + 1) = Rank(r, n) + 1
      BY <1>1, <1>3, RankNext
    <2>2. /\ Len(s) \in Nat /\ Len(t) = Len(s) + 1 /\ t[Len(s) + 1] = x
          /\ \A k \in 1..Len(s) : t[k] = s[k]
      BY <1>1
    <2>3. Len(s) = Rank(r, n)
      BY DEF Holds
    <2> HIDE DEF t
    <2>4. ASSUME NEW k \in Before(r, n) PROVE t[Rank(r, k) + 1] = r.chars[k]
      <3>1. Rank(r, k) < Len(s) /\ Rank(r, k) \in Nat
        BY <1>1, <2>3, RankLess, BeforeFinite
      <3>2. Rank(r, k) + 1 \in 1..Len(s)
        BY <2>2, <3>1
      <3>3. QED BY <2>2, <3>2 DEF Holds
    <2>5. t[Rank(r, n) + 1] = r.chars[n]
      BY <2>2, <2>3
    <2>6. ASSUME NEW m \in 1..Len(t) PROVE \E k \in Before(r, n + 1) : Rank(r, k) + 1 = m
      <3>1. CASE m = Len(s) + 1
        BY <2>1, <2>3, <3>1
      <3>2. CASE m # Len(s) + 1
        <4>1. m \in 1..Len(s)
          BY <2>2, <3>2
        <4>2. QED BY <2>1, <4>1 DEF Holds
      <3>3. QED BY <3>1, <3>2
    <2>7. Holds(t, r, n + 1)
      BY <2>1, <2>2, <2>3, <2>4, <2>5, <2>6 DEF Holds
    <2>8. QED BY <1>3, <2>7 DEF t
  <1>4. QED BY <1>2, <1>3

\* What was read past the end stays among the first.
LEMMA PastEndKept ==
  ASSUME NEW s \in Seq(Contour), NEW c \in Contour, in_char = s, PastEnd, in_char' = Append(s, c)
  PROVE  PastEnd'
  <1>1. PICK m \in 1..Length : m <= Len(s) /\ s[m].char = Junk
    BY DEF PastEnd
  <1>2. m \in 1..Len(s) /\ Len(Append(s, c)) = Len(s) + 1 /\ Len(s) \in Nat
    BY <1>1
  <1>3. Append(s, c)[m] = s[m] /\ m <= Len(Append(s, c))
    BY <1>2
  <1>4. QED BY <1>1, <1>3 DEF PastEnd

LEMMA FoundKept == IInv /\ FoundInv /\ [Next]_vars => FoundInv'
  <1> SUFFICES ASSUME IInv, FoundInv, [Next]_vars PROVE FoundInv'
    OBVIOUS
  <1>1. OwnTypes /\ HasPlate
    BY TypesSplit DEF IInv
  <1>2. CASE RecognInit
    BY <1>2 DEF FoundInv, Sorted, RecognInit, Goto
  <1>3. CASE Detect
    <2>1. PICK image \in Images : \E k \in DOMAIN image :
            /\ verifySizes_closeImg(image[k])
            /\ \A l \in 1..k-1 : ~verifySizes_closeImg(image[l])
            /\ plate_mat' = image[k]
      BY <1>3 DEF Detect
    <2>2. plate_mat' \in Chosen(image)
      BY <2>1 DEF Chosen
    <2>3. pc' = "clear"
      BY <1>3 DEF Detect, Goto
    <2>4. QED BY <2>2, <2>3 DEF FoundInv, Sorted
  <1>4. CASE Clear
    <2>1. CASE pc' = "get"
      BY <2>1 DEF FoundInv, Sorted
    <2>2. CASE pc' = "filter"
      <3>1. /\ clearLiuDing(plate_mat) /\ itc' = 1 /\ in_char' = <<>> /\ plate_mat' = plate_mat
            /\ pc = "clear" /\ plate_mat \in UNION {Chosen(image) : image \in Images}
        BY <1>4, <2>2 DEF Clear, Goto, FoundInv
      <3>2. plate_mat \in Region
        BY <3>1, ChosenRegion
      <3>3. Before(plate_mat, 1) = {}
        BY <3>2, FittingPlaces DEF Before
      <3>4. Rank(plate_mat, 1) = 0
        BY <3>3, FS_EmptySet DEF Rank
      <3>5. Holds(<<>>, plate_mat, 1)
        BY <3>3, <3>4 DEF Holds
      <3>6. QED BY <2>2, <3>1, <3>5 DEF FoundInv, Sorted
    <2>3. QED BY <1>4, <2>1, <2>2 DEF Clear, Goto
  <1>5. CASE Filter
    <2>1. /\ pc = "filter" /\ pc' = "filter" /\ plate_mat' = plate_mat /\ itc' = itc + 1
          /\ plate_mat \in Region /\ in_char \in Seq(Contour)
          /\ itc \in 1..Len(plate_mat.chars) /\ plate_mat.chars[itc] \in Contour
      <3>1. plate_mat \in Region
        BY <1>1, <1>5 DEF Filter, HasPlate
      <3>2. plate_mat.chars[itc] \in Contour
        BY <1>1, <1>5, <3>1, PlateTyped DEF Filter
      <3>3. Len(plate_mat.chars) \in Nat
        BY <3>1, FittingPlaces
      <3>4. QED BY <1>1, <1>5, <3>1, <3>2, <3>3 DEF Filter, OwnTypes
    <2>2. in_char' = IF char_verifySizes(plate_mat.chars[itc])
                       THEN Append(in_char, plate_mat.chars[itc]) ELSE in_char
      BY <1>5 DEF Filter
    <2>3. Holds(in_char, plate_mat, itc) => Holds(in_char', plate_mat', itc')
      BY <2>1, <2>2, HoldsNext
    <2>4. PastEnd => PastEnd'
      <3>1. CASE in_char' = in_char
        BY <3>1 DEF PastEnd
      <3>2. CASE in_char' = Append(in_char, plate_mat.chars[itc])
        BY <2>1, <3>2, PastEndKept
      <3>3. QED BY <2>2, <3>1, <3>2
    <2>5. Holds(in_char, plate_mat, itc)' <=> Holds(in_char', plate_mat', itc')
      BY DEF Holds, Before, Rank, Fitting
    <2>6. clearLiuDing(plate_mat)' <=> clearLiuDing(plate_mat)
      BY <2>1
    <2>7. QED BY <2>1, <2>3, <2>4, <2>5, <2>6 DEF FoundInv, Sorted
  <1>6. CASE ReadPastEnd
    <2>1. CASE pc' = "crashed"
      BY <2>1 DEF FoundInv, Sorted
    <2>2. ASSUME NEW c \in Garbage, in_char' = Append(in_char, c) PROVE PastEnd'
      <3>1. in_char \in Seq(Contour) /\ Len(in_char) < Length /\ Len(in_char) \in Nat
        BY <1>1, <1>6 DEF OwnTypes, ReadPastEnd
      <3>2. c \in Contour /\ c.char = Junk
        BY ImagesAssumption
      <3>3. Len(in_char') = Len(in_char) + 1 /\ in_char'[Len(in_char) + 1] = c
        BY <2>2, <3>1, <3>2
      <3>4. Len(in_char) + 1 \in 1..Length /\ Len(in_char) + 1 <= Len(in_char')
        BY <3>1, <3>3, LengthAssumption
      <3>5. QED BY <3>2, <3>3, <3>4 DEF PastEnd
    <2>3. /\ pc = "filter" /\ UNCHANGED <<plate_mat, itc>>
          /\ (pc' = "filter" /\ \E c \in Garbage : in_char' = Append(in_char, c)) \/ pc' = "crashed"
      BY <1>6 DEF ReadPastEnd
    <2>4. QED BY <2>1, <2>2, <2>3 DEF FoundInv, Sorted
  <1>7. CASE UNCHANGED <<plate_mat, itc, in_char>> /\ SortBegin
    <2>1. pc = "filter" /\ pc' = "sort" /\ itc > Len(plate_mat.chars)
      BY <1>7 DEF SortBegin, Goto
    <2>2. PastEnd' <=> PastEnd
      BY <1>7 DEF PastEnd
    <2>3. QED BY <1>7, <2>1, <2>2 DEF FoundInv, Sorted
  <1>8. CASE /\ UNCHANGED <<plate_mat, itc, in_char>>
             /\ pc' = pc \/ pc \in {"sort"} \cup Sorted
             /\ pc' = pc \/ pc' \in {"get"} \cup Sorted
    <2>1. PastEnd' <=> PastEnd
      BY <1>8 DEF PastEnd
    <2>2. QED BY <1>8, <2>1 DEF FoundInv, Sorted
  <1>9. CASE Compare \/ NextPass
    BY <1>8, <1>9 DEF Compare, NextPass
  <1>10. CASE SortEnd \/ Cut \/ Wipe
    BY <1>8, <1>10 DEF SortEnd, Cut, Wipe, Goto, Sorted
  <1>11. CASE CopyFirst \/ CopyRest \/ RaiseFirst \/ Raise
    BY <1>8, <1>11 DEF CopyFirst, CopyRest, RaiseFirst, Raise, Goto, Sorted
  <1>12. CASE Display \/ UNCHANGED vars
    BY <1>8, <1>12 DEF Display, vars
  <1>13. CASE SortBegin
    BY <1>7, <1>13 DEF SortBegin
  <1>14. QED BY <1>2, <1>3, <1>4, <1>5, <1>6, <1>9, <1>10, <1>11, <1>12, <1>13 DEF Next

\* A plate stored passed the tests of the image it was found in.
LEMMA TextKept == IInv /\ FoundInv /\ TextInv /\ [Next]_vars => TextInv'
  <1> SUFFICES ASSUME IInv, FoundInv, TextInv, [Next]_vars PROVE TextInv'
    OBVIOUS
  <1>1. OwnTypes /\ Enough /\ LeftToRight
    BY TypesSplit DEF IInv
  <1>2. ASSUME pc = "cut", \A k \in 1..Length : out_char[k].inside
        PROVE  OfOneImage(Text)
    <2>1. CASE PastEnd
      <3>1. PICK m \in 1..Length : in_char[m].char = Junk
        BY <2>1 DEF PastEnd
      <3>2. m - 1 \in Places /\ (m - 1) + 1 = m
        BY LengthAssumption DEF Places
      <3>3. PICK p \in Places : index[p] = m - 1
        BY <1>1, <1>2, <3>2 DEF LeftToRight
      <3>4. p + 1 \in 1..Length /\ (p + 1) - 1 = p
        BY LengthAssumption DEF Places
      <3>5. out_char[p + 1] = in_char[index[(p + 1) - 1] + 1]
        BY <1>1, <1>2, <3>4 DEF LeftToRight
      <3>6. out_char[p + 1] = in_char[m]
        BY <3>2, <3>3, <3>4, <3>5
      <3>7. Text[p + 1] = Junk
        BY <3>1, <3>4, <3>6 DEF Text
      <3>8. QED BY <3>4, <3>7 DEF OfOneImage
    <2>2. CASE ~PastEnd
      <3>1. pc \in Sorted
        BY <1>2 DEF Sorted
      <3>2. /\ Text = Reading(plate_mat)
            /\ Cardinality(Fitting(plate_mat)) >= Length
            /\ \A k \in Used(plate_mat) : \E n \in 1..Length : out_char[n] = plate_mat.chars[k]
        BY <1>1, <2>2, <3>1, SortReads
      <3>3. /\ plate_mat \in UNION {Chosen(image) : image \in Images}
            /\ clearLiuDing(plate_mat)
        BY <3>1 DEF FoundInv
      <3>4. Readable(plate_mat)
        BY <1>2, <3>2, <3>3 DEF Readable
      <3>5. QED BY <3>2, <3>3, <3>4 DEF OfOneImage, Readings
    <2>3. QED BY <2>1, <2>2
  <1>3. CASE UNCHANGED <<pc, out_char>>
    BY <1>3 DEF TextInv, Text, OfOneImage, Sorted
  <1>4. CASE Cut
    <2>1. CASE pc' = "get"
      BY <2>1 DEF TextInv, Sorted
    <2>2. CASE pc' = "wipe"
      <3>1. OfOneImage(Text) /\ Text' = Text
        BY <1>2, <1>4, <2>2 DEF Cut, Goto, Text
      <3>2. QED BY <3>1 DEF TextInv, OfOneImage
    <2>3. QED BY <1>4, <2>1, <2>2 DEF Cut, Goto
  <1>5. CASE Wipe \/ CopyFirst \/ CopyRest \/ RaiseFirst \/ Raise
    <2>1. pc \in Sorted \ {"cut"} /\ out_char' = out_char
      BY <1>5 DEF Wipe, CopyFirst, CopyRest, RaiseFirst, Raise, Goto, Sorted
    <2>2. OfOneImage(Text) /\ Text' = Text
      BY <2>1 DEF TextInv, Text
    <2>3. QED BY <2>2 DEF TextInv, OfOneImage
  <1>6. CASE RecognInit \/ Detect \/ Clear \/ ReadPastEnd \/ SortBegin \/ SortEnd
    BY <1>6 DEF TextInv, Sorted, RecognInit, Detect, Clear, ReadPastEnd, SortBegin, SortEnd, Goto
  <1>7. CASE Filter \/ Compare \/ NextPass \/ Display \/ UNCHANGED vars
    BY <1>3, <1>7 DEF Filter, Compare, NextPass, Display, vars
  <1>8. QED BY <1>4, <1>5, <1>6, <1>7 DEF Next

\* The mailbox holds half a plate, which is none, or the whole of the one
\* stored.
LEMMA StoreKept ==
  IInv /\ TextInv /\ PlateOfOneImage /\ [Next]_vars => PlateOfOneImage'
  <1> SUFFICES ASSUME IInv, TextInv, PlateOfOneImage, [Next]_vars PROVE PlateOfOneImage'
    OBVIOUS
  <1>1. pc \in Sorted => Text \in Plates
    BY TextTyped, TypesSplit DEF IInv
  <1>2. CASE UNCHANGED g_carplate_str
    BY <1>2 DEF PlateOfOneImage
  <1>3. CASE Wipe
    BY <1>3 DEF PlateOfOneImage, Wipe, Box!Begin, Box!Whole
  <1>4. CASE CopyFirst
    <2>1. Text # Blank /\ g_carplate_str' = <<Text, Blank>>
      BY <1>1, <1>4, BlankAssumption DEF CopyFirst, Goto, Sorted, Box!Copy
    <2>2. g_carplate_str'[1] = Text /\ g_carplate_str' # Box!Whole(Text)
      BY <2>1 DEF Box!Whole
    <2>3. QED BY <2>2 DEF PlateOfOneImage
  <1>5. CASE CopyRest
    <2>1. OfOneImage(Text) /\ g_carplate_str' = Box!Whole(Text)
      BY <1>5 DEF TextInv, Sorted, CopyRest, Goto, Box!Copy
    <2>2. g_carplate_str'[1] = Text
      BY <2>1 DEF Box!Whole
    <2>3. QED BY <2>1, <2>2 DEF PlateOfOneImage, OfOneImage
  <1>6. QED BY <1>2, <1>3, <1>4, <1>5 DEF Next, vars, mailbox, RecognInit, Detect, Clear, Filter,
              ReadPastEnd, SortBegin, Compare, NextPass, SortEnd, Cut, RaiseFirst, Raise, Display,
              Box!Raise, Box!Window, Box!Look, Box!Show, Box!Lower

\* car_plate_recogn: a whole plate in the mailbox is the reading of one image
\* that passed every test, its first Length characters by their centres,
\* unless characters were missing and memory past the vector was read.
THEOREM StoredPlateOfOneImage == Spec => []PlateOfOneImage
  <1>1. Init => FoundInv /\ TextInv /\ PlateOfOneImage
    BY DEF Init, FoundInv, TextInv, PlateOfOneImage, Sorted, Box!Init, Box!Whole
  <1>2. IInv /\ FoundInv /\ TextInv /\ PlateOfOneImage /\ [Next]_vars
          => (FoundInv /\ TextInv /\ PlateOfOneImage)'
    BY FoundKept, TextKept, StoreKept
  <1>3. QED BY Inductive, <1>1, <1>2, PTL DEF Spec
=============================================================================
