---------------------------- MODULE McpConnection ----------------------------
(***************************************************************************)
(* The one connection of the MCP server, and the raw move of a footprint   *)
(* over it: every call refreshes the board, a dropped link is replaced     *)
(* once and the whole call run again (mcp_server/connection.py, handlers.py*)
(* raw_move_footprint); within a run the commit is tried twice             *)
(* (kicad/adapter.py commit_with_retry).  Calls hold a lock from beginning to end, so one   *)
(* is under way at a time; KiCad and its user are not held by it.          *)
(***************************************************************************)
EXTENDS Naturals

CONSTANTS
  Boards, Spots,
  NoBoard,
  MaxLinks,   \* bound on adapters made
  MaxCalls,
  MaxEvents   \* bound on what KiCad and its user do

ASSUME McpAssumption == MaxLinks \in Nat /\ NoBoard \notin Boards

Links == 1 .. MaxLinks
NoLink == 0

VARIABLES
  openBoard,  \* what KiCad's editor shows, or NoBoard
  spot,       \* [Boards -> where the footprint lies]
  adapter,    \* _adapter, or NoLink
  links,      \* adapters made so far
  line,       \* [Links -> "none", "up", "cut", "closed"]
  handle,     \* [Links -> the board of its handle, or NoBoard]
  stage,      \* of the call: "idle", "ensure", "refresh", "guard", "read", "commit", "reload"
  rerun,      \* is it the second run of the call
  tried,      \* has the commit of this run failed once
  expected, target,  \* the board the caller names, and the spot
  old,        \* the spot read before the move
  answer,     \* {} or {[old, new]}
  prior,      \* {} or {the spot before the call first moved it} (history)
  meddled,    \* did the board change hands, or the footprint, within the call (history)
  calls, events

link == <<adapter, links, line, handle>>
call == <<stage, rerun, tried, expected, target, old, answer>>
mcpHistory == <<prior, meddled>>
mcpVars == <<openBoard, spot, link, call, mcpHistory, calls, events>>

McpTypeOK ==
  /\ openBoard \in Boards \cup {NoBoard} /\ spot \in [Boards -> Spots]
  /\ adapter \in Links \cup {NoLink} /\ links \in 0 .. MaxLinks
  /\ line \in [Links -> {"none", "up", "cut", "closed"}]
  /\ handle \in [Links -> Boards \cup {NoBoard}]
  /\ stage \in {"idle", "ensure", "refresh", "guard", "read", "commit", "reload"}
  /\ rerun \in BOOLEAN /\ tried \in BOOLEAN /\ expected \in Boards /\ target \in Spots /\ old \in Spots
  /\ answer \subseteq [old : Spots, new : Spots] /\ prior \subseteq Spots

McpInit ==
  /\ openBoard \in Boards \cup {NoBoard} /\ spot \in [Boards -> Spots]
  /\ adapter = NoLink /\ links = 0 /\ line = [a \in Links |-> "none"]
  /\ handle = [a \in Links |-> NoBoard]
  /\ stage = "idle" /\ rerun = FALSE /\ tried = FALSE /\ expected \in Boards /\ target \in Spots
  /\ old = target /\ answer = {} /\ prior = {}
  /\ meddled = FALSE /\ calls = 0 /\ events = 0

-----------------------------------------------------------------------------
(* execute and _ensure_open.                                               *)

Call(b, s) ==
  /\ stage = "idle" /\ calls < MaxCalls /\ calls' = calls + 1
  /\ stage' = "ensure" /\ rerun' = FALSE /\ tried' = FALSE /\ expected' = b /\ target' = s
  /\ answer' = {} /\ prior' = {} /\ meddled' = FALSE
  /\ UNCHANGED <<openBoard, spot, link, old, events>>

Fails == stage' = "idle" /\ tried' = FALSE /\ UNCHANGED <<rerun, expected, target, old, answer>>

Proceed(to) == stage' = to /\ tried' = FALSE /\ UNCHANGED <<rerun, expected, target, old, answer>>

unchangedByLink == <<openBoard, spot, mcpHistory, calls, events>>

\* An adapter the manager keeps has loaded a board.
Reuse ==
  /\ stage = "ensure" /\ adapter # NoLink /\ Proceed("refresh")
  /\ UNCHANGED <<link, unchangedByLink>>

\* A new adapter, and the board it loads.  When the load raises, nobody closes it.
Dial ==
  /\ stage = "ensure" /\ adapter = NoLink /\ links < MaxLinks
  /\ links' = links + 1
  /\ \/ /\ openBoard # NoBoard /\ Proceed("guard")
        /\ line' = [line EXCEPT ![links'] = "up"]
        /\ handle' = [handle EXCEPT ![links'] = openBoard] /\ adapter' = links'
     \/ /\ Fails /\ line' \in {line, [line EXCEPT ![links'] = "up"]}
        /\ UNCHANGED <<handle, adapter>>
  /\ UNCHANGED unchangedByLink

\* A connection-level error: the adapter is closed and the call run once more.
\* The second time it goes to the caller.
Reconnect ==
  IF rerun THEN Fails /\ UNCHANGED link
  ELSE /\ stage' = "ensure" /\ rerun' = TRUE /\ tried' = FALSE
       /\ UNCHANGED <<expected, target, old, answer>>
       /\ line' = [line EXCEPT ![adapter] = "closed"] /\ adapter' = NoLink
       /\ UNCHANGED <<links, handle>>

LinkError ==
  /\ stage \in {"refresh", "read", "reload"} /\ Reconnect
  /\ UNCHANGED unchangedByLink

\* Errors of any other kind, the handler's own among them.
OtherError ==
  /\ stage \in {"refresh", "read", "reload"} /\ Fails
  /\ UNCHANGED <<link, unchangedByLink>>

\* The board is rebuilt before the call sees it.
RefreshBoard ==
  /\ stage = "refresh" /\ line[adapter] = "up" /\ openBoard # NoBoard /\ Proceed("guard")
  /\ handle' = [handle EXCEPT ![adapter] = openBoard]
  /\ UNCHANGED <<adapter, links, line, unchangedByLink>>

-----------------------------------------------------------------------------
(* raw_move_footprint.                                                     *)

\* Mutant: what the first run has checked is not checked again.
SameBoardOnce == rerun \/ handle[adapter] = expected

\* check_board_identity.
SameBoard == handle[adapter] = expected

Guard ==
  /\ stage = "guard" /\ Proceed(IF SameBoard THEN "read" ELSE "idle")
  /\ UNCHANGED <<link, unchangedByLink>>

\* KiCad answers on this line about this adapter's board.
Answers == line[adapter] = "up" /\ handle[adapter] = openBoard

ReadSpot ==
  /\ stage = "read" /\ Answers
  /\ old' = spot[handle[adapter]] /\ stage' = "commit"
  /\ UNCHANGED <<rerun, tried, expected, target, answer, link, unchangedByLink>>

Moved ==
  /\ Answers /\ spot' = [spot EXCEPT ![handle[adapter]] = target]
  /\ prior' = IF prior = {} THEN {spot[handle[adapter]]} ELSE prior
  /\ UNCHANGED <<openBoard, meddled, calls, events>>

Commit ==
  /\ stage = "commit" /\ Moved /\ Proceed("reload")
  /\ UNCHANGED link

\* commit_with_retry: an attempt raises, though KiCad may have carried it out.  The
\* first time it is made once more, half a second later and with no look at the board;
\* the second time the error goes on.
CommitFails ==
  /\ stage = "commit"
  /\ \/ Moved
     \/ UNCHANGED unchangedByLink
  /\ \/ /\ ~tried /\ tried' = TRUE
        /\ UNCHANGED <<stage, rerun, expected, target, old, answer, link>>
     \/ tried /\ Reconnect
     \/ tried /\ Fails /\ UNCHANGED link

\* The board is rebuilt once more for the answer.
Answer ==
  /\ stage = "reload" /\ line[adapter] = "up" /\ openBoard # NoBoard
  /\ handle' = [handle EXCEPT ![adapter] = openBoard]
  /\ answer' = {[old |-> old, new |-> spot[openBoard]]} /\ stage' = "idle"
  /\ UNCHANGED <<rerun, tried, expected, target, old, adapter, links, line, unchangedByLink>>

-----------------------------------------------------------------------------
(* KiCad and its user.                                                     *)

Event == events < MaxEvents /\ events' = events + 1 /\ meddled' = TRUE

SwitchBoard ==
  /\ Event /\ \E b \in Boards \cup {NoBoard} : b # openBoard /\ openBoard' = b
  /\ UNCHANGED <<spot, link, call, prior, calls>>

MoveByHand ==
  /\ openBoard # NoBoard /\ Event
  /\ \E s \in Spots : s # spot[openBoard] /\ spot' = [spot EXCEPT ![openBoard] = s]
  /\ UNCHANGED <<openBoard, link, call, prior, calls>>

\* KiCad is restarted, with the same board: every line is cut.
Restart ==
  /\ events < MaxEvents /\ events' = events + 1
  /\ line' = [a \in Links |-> IF line[a] = "up" THEN "cut" ELSE line[a]]
  /\ UNCHANGED <<openBoard, spot, adapter, links, handle, call, mcpHistory, calls>>

McpNext ==
  \/ \E b \in Boards, s \in Spots : Call(b, s)
  \/ Reuse \/ Dial \/ LinkError \/ OtherError \/ RefreshBoard
  \/ Guard \/ ReadSpot \/ Commit \/ CommitFails \/ Answer
  \/ SwitchBoard \/ MoveByHand \/ Restart

McpSpec == McpInit /\ [][McpNext]_mcpVars

-----------------------------------------------------------------------------
(* Properties.                                                             *)

\* The commits the call may still make: two in a run, less the one that has failed,
\* and two in the second run.
AttemptsLeft ==
  (IF stage \notin {"ensure", "refresh", "guard", "read", "commit"} THEN 0
   ELSE IF tried THEN 1 ELSE 2)
    + (IF stage # "idle" /\ ~rerun THEN 2 ELSE 0)

RequestOpen == IF stage = "idle" THEN {} ELSE {[board |-> expected, to |-> target]}

Asked == INSTANCE RawMove WITH asked <- RequestOpen, attempts <- AttemptsLeft

\* A raw move is what RawMove promises: it moves the footprint of the board the
\* caller names, where it was asked to, at most four times, and nothing on any
\* other board, whatever is switched, restarted, cut, retried and run again
\* (mcp_server/connection.py:174-236, handlers.py:328-363, adapter.py:1044-1080).
MovesAsAsked == Asked!Spec

\* "old" and "new" of an answer are where the footprint was before the call and
\* where it was asked to be, unless somebody else has changed the board
\* (handlers.py:335-336).
AlwaysTold ==
  stage = "idle" /\ ~meddled => \A a \in answer : prior = {a.old} /\ a.new = target

\* An adapter in the air is the one of the manager (mcp_server/connection.py:4-7).
OneLine == \A a \in Links : line[a] = "up" => a = adapter
=============================================================================
