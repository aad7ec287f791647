------------------------------- MODULE Socket -------------------------------
(***************************************************************************)
(* What the token of the GUI's one socket promises, with nothing said of   *)
(* retries, windows, widgets and threads: whoever asks KiCad has found the *)
(* token down in the very step that raises it, and it stays up until this  *)
(* user, and no other, is handed the answer and takes it down              *)
(* (gui/worker.py:384-467, :544-555, :1067-1082).                          *)
(***************************************************************************)
CONSTANT Users

VARIABLES
  token,  \* is the socket taken
  place   \* [Users -> "away", "asking", "answered"]

vars == <<token, place>>

Init == token = FALSE /\ place = [x \in Users |-> "away"]

Take(x) ==
  /\ ~token /\ place[x] = "away"
  /\ token' = TRUE /\ place' = [place EXCEPT ![x] = "asking"]

Answered(x) ==
  /\ place[x] = "asking" /\ place' = [place EXCEPT ![x] = "answered"]
  /\ UNCHANGED token

LetGo(x) ==
  /\ place[x] = "answered"
  /\ token' = FALSE /\ place' = [place EXCEPT ![x] = "away"]

Next == \E x \in Users : Take(x) \/ Answered(x) \/ LetGo(x)

Spec == Init /\ [][Next]_vars
=============================================================================
