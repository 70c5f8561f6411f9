----------------------------- MODULE NameLookup -----------------------------
(***************************************************************************)
(* Which functions a name may stand for (details/atom/atom.cpp and the     *)
(* lookups of details/semantic/opcode-identify.cpp).  A program is a tree  *)
(* of atoms; the children of an atom with one name are kept in the order   *)
(* of their declaration, `declared'.                                       *)
(***************************************************************************)
EXTENDS Naturals, SequencesExt

CONSTANTS
  Program,  \* the atoms: [type, name, property, parent, id, params, gens, rettype]
  NoAtom

(* The parameters of an atom have a name and a type; `rettype' is the type *)
(* a function returns, the one an alias stands for, or the one of the      *)
(* objects of a class.  `property' tells `^propget^' and `^propset^' apart *)
(* from the other names.                                                   *)
Atoms == DOMAIN Program

isClass(a)       == Program[a].type = "classdef"
isFunction(a)    == Program[a].type = "funcdef"
isNamespace(a)   == Program[a].type = "namespacedef"
isTypeAlias(a)   == Program[a].type = "typealias"
parentScope(a)   == Program[a].parent
isClassMember(a) == parentScope(a) # NoAtom /\ isClass(parentScope(a))

(* An atom is made in its parent, and gets the next id: createNewAtom      *)
(* (details/atom/atom-map.cpp:60).                                         *)
ASSUME ParentAssumption ==
  \A a \in Atoms :
    /\ Program[a].id \in Nat
    /\ parentScope(a) # NoAtom =>
         parentScope(a) \in Atoms /\ Program[parentScope(a)].id < Program[a].id

isChild(a, scope, property, name) ==
  parentScope(a) = scope /\ Program[a].name = name /\ Program[a].property = property

eachChild(declared, scope, property, name) ==
  LET children[i \in 0 .. Len(declared)] ==
        IF i = 0 THEN << >>
        ELSE IF isChild(declared[i], scope, property, name) THEN Append(children[i - 1], declared[i])
        ELSE children[i - 1]
  IN children[Len(declared)]

nameLookupOnChildren(declared, scope, name) == eachChild(declared, scope, "no", name)

propertyLookupOnChildren(declared, scope, property, name) ==
  eachChild(declared, scope, property, name)

(* What is found first; a lookup that fails adds nothing to the list.      *)
OrElse(list, other) == IF list # << >> THEN list ELSE other

(* A slip: a class asks to its parents first too.                          *)
AlwaysTheParentFirst(scope) == TRUE

AskToParentFirst(scope) == ~ isClass(scope)

(* A class is looked into before what is around it, anything else after.   *)
nameLookupFromParentScope(declared, from, name) ==
  LET lookup[scope \in Atoms] ==
        LET local  == nameLookupOnChildren(declared, scope, name)
            parent == parentScope(scope)
        IN IF parent = NoAtom THEN local
           ELSE IF AskToParentFirst(scope) THEN OrElse(lookup[parent], local)
           ELSE OrElse(local, lookup[parent])
  IN lookup[from]

-----------------------------------------------------------------------------
Nothing == [property |-> FALSE, list |-> << >>]

(* `identify' of a name without a referer, in the function frame.          *)
IdentifyFromScope(declared, frame, property, name) ==
  LET own    == nameLookupOnChildren(declared, frame, name)
      parent == parentScope(frame)
      found  == OrElse(own, IF parent = NoAtom THEN << >>
                            ELSE nameLookupFromParentScope(declared, parent, name))
  IN IF found # << >> \/ parent = NoAtom THEN [property |-> FALSE, list |-> found]
     ELSE LET props == propertyLookupOnChildren(declared, parent, property, name)
          IN [property |-> props # << >>, list |-> props]

(* `identify' of a member of the atom self.                                *)
IdentifyMember(declared, self, property, name) ==
  LET found == nameLookupOnChildren(declared, self, name)
      props == propertyLookupOnChildren(declared, self, property, name)
  IN IF found # << >> THEN [property |-> FALSE, list |-> found]
     ELSE [property |-> props # << >>, list |-> props]

=============================================================================
