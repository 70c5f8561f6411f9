--------------------------- MODULE OverloadChoice ---------------------------
(***************************************************************************)
(* What the resolution of an overloaded call promises: the function called *)
(* depends on the set of the functions the name stands for, never on the   *)
(* order in which they were declared, and a call nobody can tell apart is  *)
(* refused.                                                                *)
(***************************************************************************)
EXTENDS Naturals

VARIABLES
  candidates,  \* the functions: [fun, match, score, works]
  answer       \* "pending", "failed" or the function called

Suitable == {c \in candidates : c.match # "none"}
Perfect  == {c \in Suitable : c.match = "strictEqual"}

Single(S) == \E c \in S : S = {c}

(* More of its parameters have exactly the type of their argument.         *)
Best ==
  {c \in Suitable : c.score > 0 /\ \A d \in Suitable \ {c} : d.score < c.score}

(* A function whose body accepts the types of the arguments.               *)
Workable == {c \in Suitable : c.works}

Choice ==
  IF Suitable = {} \/ Single(Suitable) THEN Suitable
  ELSE IF Single(Perfect) THEN Perfect
  ELSE IF Perfect = {} /\ Best # {} THEN Best
  ELSE Workable

Init == answer = "pending"

Resolve ==
  /\ answer = "pending"
  /\ answer' = IF Single(Choice) THEN (CHOOSE c \in Choice : TRUE).fun ELSE "failed"
  /\ UNCHANGED candidates

Spec == Init /\ [][Resolve]_<< candidates, answer >>
=============================================================================
