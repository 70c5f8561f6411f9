----------------------------- MODULE FrameStack -----------------------------
(***************************************************************************)
(* What the register stack of the virtual machine promises to the code     *)
(* that runs on it: a pile of frames, each a private array of registers.   *)
(* A frame keeps what was written into it until it is popped, whatever is  *)
(* pushed, written or popped above it.  The content of a fresh frame is    *)
(* not specified.  VMStack shows that the chain of memory chunks of        *)
(* details/vm/stack.cpp implements this pile.                              *)
(***************************************************************************)
EXTENDS Naturals, Sequences

CONSTANTS
  Value,     \* the contents a register can have
  MaxCount   \* the largest frame a function may ask for

VARIABLE
  pile       \* the live frames, the innermost one last

FrameOfSize(count) == [0 .. count - 1 -> Value]

Init == pile = << >>

Push(count) ==
  \E frame \in FrameOfSize(count) : pile' = Append(pile, frame)

(* Only the innermost frame is reachable: a function works on its own      *)
(* registers.                                                              *)
Write(r, v) ==
  /\ pile # << >>
  /\ r \in DOMAIN pile[Len(pile)]
  /\ pile' = [pile EXCEPT ![Len(pile)][r] = v]

Pop ==
  /\ pile # << >>
  /\ pile' = SubSeq(pile, 1, Len(pile) - 1)

(* The stack is destroyed with whatever frames an exception left on it.    *)
Drop == pile' = << >>

Next ==
  \/ \E count \in 1 .. MaxCount : Push(count)
  \/ \E r \in 0 .. MaxCount - 1, v \in Value : Write(r, v)
  \/ Pop
  \/ Drop

Spec == Init /\ [][Next]_pile
=============================================================================
