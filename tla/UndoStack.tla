------------------------------ MODULE UndoStack ------------------------------
(***************************************************************************)
(* What the canvas promises about saved edits (canvas.py, R09): the newest *)
(* Limit of them can be taken back one by one, each to exactly what the    *)
(* canvas showed before it, and given back the same way until the next     *)
(* edit. A batch is one entry per command, and may end on any documents.   *)
(***************************************************************************)
EXTENDS Integers, Sequences

CONSTANTS Canvases, Limit, Batch, None

VARIABLES
  present,  \* what each canvas shows, None before it exists
  past,     \* what it showed before each edit that can be undone, oldest first
  future    \* what it showed after each edit that can be redone, next first

stacks == <<present, past, future>>

Init ==
  /\ present = [c \in Canvases |-> None]
  /\ past = [c \in Canvases |-> <<>>]
  /\ future = [c \in Canvases |-> <<>>]

\* A canvas starts without a history, a forked one too.
Begin(c) ==
  /\ present[c] = None /\ present'[c] # None
  /\ past'[c] = <<>> /\ future'[c] = <<>>

\* The history grows by k documents, the present one first, and loses its
\* oldest ones beyond the limit.
Edit(c) ==
  LET was  == past[c]
      now  == past'[c]
  IN /\ present[c] # None /\ present'[c] # None
     /\ future'[c] = <<>>
     /\ \E k \in 1..Batch :
          LET long == Len(was) + k
              gone == IF long > Limit THEN long - Limit ELSE 0
          IN /\ Len(now) = long - gone
             /\ \A i \in 1..Len(was) : i > gone => now[i - gone] = was[i]
             /\ gone <= Len(was) => now[Len(was) + 1 - gone] = present[c]

Undo(c) ==
  LET was == past[c]
  IN /\ was # <<>>
     /\ present'[c] = was[Len(was)]
     /\ past'[c] = SubSeq(was, 1, Len(was) - 1)
     /\ future'[c] = <<present[c]>> \o future[c]

Redo(c) ==
  LET next == future[c]
  IN /\ next # <<>>
     /\ present'[c] = Head(next)
     /\ past'[c] = Append(past[c], present[c])
     /\ future'[c] = Tail(next)

Others(c) ==
  \A d \in Canvases \ {c} :
    present'[d] = present[d] /\ past'[d] = past[d] /\ future'[d] = future[d]

Next ==
  \E c \in Canvases :
    /\ Others(c)
    /\ Begin(c) \/ Undo(c) \/ Redo(c) \/ Edit(c)

Spec == Init /\ [][Next]_stacks

=============================================================================
