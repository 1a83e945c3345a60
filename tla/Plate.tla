------------------------------- MODULE Plate -------------------------------
(***************************************************************************)
(* The mailbox a plate goes through on its way to a window: one thread     *)
(* copies it into g_carplate_str and raises g_carplate_update, the timer   *)
(* of the window shows it and lowers the flag.  There is no lock, and both *)
(* programs have one.                                                      *)
(*                                                                         *)
(* The string is two halves, so that a reader can find it half copied.     *)
(***************************************************************************)
CONSTANT Blank   \* what memset leaves

VARIABLES
  g_carplate_str,
  g_carplate_update,
  window,        \* where the timer's window_display is: "idle", "show", "lower"
  carplateLab,   \* what the window shows
  hurried        \* history: the last store began with the one before not shown

Whole(plate) == <<plate, plate>>

Init ==
  /\ g_carplate_str = Whole(Blank)
  /\ g_carplate_update = FALSE
  /\ window = "idle"
  /\ carplateLab = Whole(Blank)
  /\ hurried = FALSE
-----------------------------------------------------------------------------
(* The thread that stores a plate *)

\* The first bytes change.
Begin(str) ==
  /\ g_carplate_str' = str
  /\ hurried' = (g_carplate_update \/ window # "idle")
  /\ UNCHANGED <<g_carplate_update, window, carplateLab>>

Copy(str) ==
  /\ g_carplate_str' = str
  /\ UNCHANGED <<g_carplate_update, window, carplateLab, hurried>>

Raise ==
  /\ g_carplate_update' = TRUE
  /\ UNCHANGED <<g_carplate_str, window, carplateLab, hurried>>
-----------------------------------------------------------------------------
(* window_display *)

Look ==
  /\ window = "idle" /\ g_carplate_update
  /\ window' = "show"
  /\ UNCHANGED <<g_carplate_str, g_carplate_update, carplateLab, hurried>>

\* Mutant: the label is left as it was.
ShowNothing ==
  /\ window = "show"
  /\ window' = "lower"
  /\ UNCHANGED <<g_carplate_str, g_carplate_update, carplateLab, hurried>>

Show ==
  /\ window = "show"
  /\ carplateLab' = g_carplate_str
  /\ window' = "lower"
  /\ UNCHANGED <<g_carplate_str, g_carplate_update, hurried>>

Lower ==
  /\ window = "lower"
  /\ g_carplate_update' = FALSE
  /\ window' = "idle"
  /\ UNCHANGED <<g_carplate_str, carplateLab, hurried>>

Window == Look \/ Show \/ Lower
-----------------------------------------------------------------------------
(* Properties *)

TypeOK(plates) ==
  /\ g_carplate_str \in (plates \cup {Blank}) \X (plates \cup {Blank})
  /\ carplateLab \in (plates \cup {Blank}) \X (plates \cup {Blank})
  /\ window \in {"idle", "show", "lower"}
  /\ {g_carplate_update, hurried} \subseteq BOOLEAN

\* The window is about to show a whole plate, unless the store under way, or
\* the last one, began before the plate of the one before it was shown.
ShowsWhole ==
  window = "show" /\ ~hurried => \E plate \in {g_carplate_str[1]} \ {Blank} :
                                   g_carplate_str = Whole(plate)

\* A whole plate waits in the mailbox, stored with the one before it shown.
Waits(plate) ==
  g_carplate_update /\ ~hurried /\ g_carplate_str = Whole(plate)
=============================================================================
