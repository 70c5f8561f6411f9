----------------------------- MODULE TypeChecks -----------------------------
(***************************************************************************)
(* Whether a value of one type can be given where another one is expected  *)
(* (details/semantic/type-check.cpp).  A classdef is a builtin type, a     *)
(* type made from an atom, a type that follows others, or any type; the    *)
(* qualifiers ref and const are left out.                                  *)
(***************************************************************************)
EXTENDS NameLookup

CONSTANT Classdefs  \* the types: [kind, atom, extends]

isAny(c)           == Classdefs[c].kind = "any" /\ Classdefs[c].atom = NoAtom
isBuiltinOrVoid(c) == Classdefs[c].kind # "any"
hasConstraints(c)  == ~ isAny(c) \/ Classdefs[c].extends # << >>

(* The atom of a type, or the only one among the types it follows.        *)
findClassdefAtom(c) ==
  LET follows == SelectSeq(Classdefs[c].extends, LAMBDA e : Classdefs[e].atom # NoAtom)
  IN IF Classdefs[c].atom # NoAtom THEN Classdefs[c].atom
     ELSE IF Len(follows) = 1 THEN Classdefs[follows[1]].atom ELSE NoAtom

(* The type an alias leads to, or none: an alias of a sibling declared     *)
(* after it and a circle of aliases are errors.                            *)
RECURSIVE followAlias(_, _, _)
followAlias(original, c, encountered) ==
  IF Classdefs[c].kind \notin {"void", "any"} THEN << c >>
  ELSE LET alias == findClassdefAtom(c)
       IN IF \/ alias = NoAtom \/ alias \in encountered
             \/ Program[alias].parent = Program[original].parent /\ Program[alias].id > Program[original].id
          THEN << >>
          ELSE IF ~ isTypeAlias(alias) THEN << c >>
          ELSE followAlias(original, Program[alias].rettype, encountered \cup {alias})

resolveTypeAlias(original) == followAlias(original, Program[original].rettype, {})

Members(a) == {m \in Atoms : parentScope(m) = a}

RECURSIVE isAtomSimilarTo(_, _), isSimilarTo(_, _)

(* Functions are similar when their parameters are the same, classes when  *)
(* every member of the first has a similar one in the second.              *)
SimilarFunctions(atom, to) ==
  LET from == Program[atom].params
      into == Program[to].params
      ret  == Program[atom].rettype
      want == Program[to].rettype
  IN /\ Len(from) = Len(into)
     /\ \A p \in 1 .. Len(from) :
          /\ from[p].name = into[p].name
          /\ Classdefs[from[p].clid].atom = Classdefs[into[p].clid].atom
     /\ (ret = "void") = (want = "void")
     /\ ret # "void" => isSimilarTo(ret, want) # "none"

SimilarClasses(atom, to) ==
  \A child \in Members(atom) : \E toChild \in Members(to) :
    /\ Program[child].name = Program[toChild].name
    /\ Program[child].property = Program[toChild].property
    /\ isAtomSimilarTo(child, toChild) # "none"

isAtomSimilarTo(atom, to) ==
  IF atom = to THEN "strictEqual"
  ELSE IF Program[atom].type # Program[to].type THEN "none"
  ELSE IF isTypeAlias(to) THEN
    LET c == resolveTypeAlias(to)
    IN IF c = << >> \/ isBuiltinOrVoid(c[1]) THEN "none"
       ELSE isAtomSimilarTo(atom, findClassdefAtom(c[1]))
  ELSE IF isFunction(atom) THEN (IF SimilarFunctions(atom, to) THEN "equal" ELSE "none")
  ELSE IF SimilarClasses(atom, to) THEN "equal" ELSE "none"

(* The types from follows, which all have to be accepted.                  *)
SimilarFollowUps(from, to, found) ==
  LET each == [i \in DOMAIN Classdefs[from].extends |-> isSimilarTo(Classdefs[from].extends[i], to)]
  IN IF \E i \in DOMAIN each : each[i] = "none" THEN "none"
     ELSE IF found = "none" /\ each # << >> THEN each[1] ELSE found

isSimilarTo(from, to) ==
  IF from = to THEN "strictEqual"
  ELSE IF isAny(to) THEN "equal"
  ELSE IF isBuiltinOrVoid(to) \/ isBuiltinOrVoid(from)
  THEN (IF Classdefs[from].kind = Classdefs[to].kind THEN "strictEqual" ELSE "none")
  ELSE LET toAtom   == findClassdefAtom(to)
           fromAtom == Classdefs[from].atom
       IN IF toAtom = NoAtom THEN "none"
          ELSE IF isTypeAlias(toAtom)
          THEN LET c == resolveTypeAlias(toAtom)
               IN IF c = << >> THEN "none" ELSE isSimilarTo(from, c[1])
          ELSE LET similarity == IF fromAtom = NoAtom THEN "none" ELSE isAtomSimilarTo(fromAtom, toAtom)
               IN IF fromAtom # NoAtom /\ similarity = "none" THEN "none"
                  ELSE SimilarFollowUps(from, to, similarity)
=============================================================================
