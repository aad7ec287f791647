------------------------------- MODULE RawMove -------------------------------
(***************************************************************************)
(* What a raw move promises its caller, with nothing said of sockets,      *)
(* adapters and boards that KiCad opens and closes: while it is asked for, *)
(* and only then, the footprint of the board that was named is put where   *)
(* it was asked to be, once or, after failures, a few times more; on no    *)
(* other board does anything move but by the user's hand                   *)
(* (mcp_server/connection.py execute, handlers.py raw_move_footprint,      *)
(* kicad/adapter.py commit_with_retry).                                    *)
(***************************************************************************)
EXTENDS Naturals

CONSTANTS Boards, Spots

VARIABLES
  spot,     \* [Boards -> where the footprint lies]
  asked,    \* {} or {[board, to]}: the move that is asked for
  attempts  \* how often it may still be tried

vars == <<spot, asked, attempts>>

Requests == [board : Boards, to : Spots]

\* Two runs of a call, two tries of its commit in each.
MaxAttempts == 4

Init == spot \in [Boards -> Spots] /\ asked = {} /\ attempts = 0

Ask ==
  /\ asked = {} /\ \E q \in Requests : asked' = {q}
  /\ attempts' = MaxAttempts /\ UNCHANGED spot

\* An attempt moves the footprint or comes to nothing; it may spare others, and may
\* be the last.
Attempt ==
  /\ attempts > 0
  /\ \/ UNCHANGED spot
     \/ \E q \in asked : spot' = [spot EXCEPT ![q.board] = q.to]
  /\ \/ asked' = asked /\ attempts' \in 0 .. attempts - 1
     \/ asked' = {} /\ attempts' = 0

End == asked # {} /\ asked' = {} /\ attempts' = 0 /\ UNCHANGED spot

ByHand ==
  /\ \E b \in Boards, s \in Spots : spot' = [spot EXCEPT ![b] = s]
  /\ UNCHANGED <<asked, attempts>>

Next == Ask \/ Attempt \/ End \/ ByHand

Spec == Init /\ [][Next]_vars
=============================================================================
