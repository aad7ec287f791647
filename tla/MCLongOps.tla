------------------------------ MODULE MCLongOps ------------------------------
EXTENDS LongOps, TLC

CONSTANTS a, b, c, v, w

\* Every operation has widgets of its own; one of them has none, as a state read.
OwnGuards == [o \in Ops |-> IF o = a THEN {v} ELSE IF o = b THEN {w} ELSE {}]

\* Two operations of one page take the same widgets.
SharedGuards == [o \in Ops |-> IF o \in {a, b} THEN {v} ELSE {}]

\* An operation of two widgets, only one of which goes with a closed dialog.
WideGuards == [o \in Ops |-> IF o = a THEN {v, w} ELSE {}]

OwnWindows == {{v}, {w}}
OneDialog == {{w}}
=============================================================================
