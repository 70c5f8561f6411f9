---------------------------- MODULE MCOverloads ----------------------------
(***************************************************************************)
(* Two classes in a namespace, with functions that share their names, and  *)
(* calls from a function, from a method and from a function inside it.     *)
(***************************************************************************)
EXTENDS Overloads, TypeChecks

None == "none"

Kind(kind)  == [kind |-> kind, atom |-> None, extends |-> << >>]
Made(from)  == [kind |-> "any", atom |-> from, extends |-> << >>]

(* `a' and `b' are objects of the classes A and B, `c' has the type of a   *)
(* variable that follows another; `alias' stands for A, `loop' for itself. *)
MCClassdefs ==
  [void |-> Kind("void"), any |-> Kind("any"), i32 |-> Kind("i32"), u8 |-> Kind("u8"),
   int |-> Kind("i32"), a |-> Made("A"), b |-> Made("B"), also |-> [Made("A") EXCEPT !.extends = << "a" >>],
   alias |-> Made("Alias"), loop |-> Made("Loop")]

(* TypeCheck::isSimilarTo of all the types, computed once.                 *)
Similarities == [from, to \in DOMAIN MCClassdefs |-> isSimilarTo(from, to)]

MCSimilar(from, to) == Similarities[from, to]

P(name, clid) == [name |-> name, clid |-> clid]

Atom(type, name, parent, id, rettype) ==
  [type |-> type, name |-> name, property |-> "no", parent |-> parent, id |-> id,
   params |-> << >>, gens |-> << >>, rettype |-> rettype]

Function(name, parent, own) ==
  [Atom("funcdef", name, parent, 20, "any") EXCEPT !.params = own]

MCProgram ==
  [root  |-> Atom("namespacedef", "root", None, 1, "void"),
   A     |-> Atom("classdef", "A", "root", 2, "a"),
   B     |-> Atom("classdef", "B", "root", 3, "b"),
   Alias |-> Atom("typealias", "Alias", "root", 4, "a"),
   Loop  |-> Atom("typealias", "Loop", "root", 5, "loop"),
   newA  |-> Function("new", "A", << P("self", "a") >>),
   newB  |-> Function("new", "B", << P("self", "b") >>),
   main  |-> Function("main", "root", << >>),
   run   |-> Function("run", "A", << P("self", "a") >>),
   inner |-> [Function("inner", "run", << >>) EXCEPT !.id = 21],
   f1    |-> Function("f", "root", << P("x", "i32") >>),
   f2    |-> Function("f", "root", << P("x", "any") >>),
   f3    |-> [Function("f", "root", << P("x", "i32"), P("y", "any") >>) EXCEPT !.rettype = "i32"],
   f4    |-> [Function("f", "root", << P("y", "any"), P("x", "i32") >>) EXCEPT !.rettype = "void"],
   f5    |-> Function("f", "root", << P("x", "alias"), P("y", "any") >>),
   f6    |-> [Function("f", "root", << P("x", "any") >>) EXCEPT !.gens = << P("T", "i32") >>],
   fb    |-> Function("f", "root", << P("x", "b"), P("y", "loop") >>),
   fA    |-> Function("f", "A", << P("self", "a"), P("x", "any") >>),
   fRun  |-> [Function("f", "run", << P("x", "i32") >>) EXCEPT !.id = 21],
   getA  |-> [Function("size", "A", << P("self", "a") >>) EXCEPT !.property = "get"],
   setA  |-> [Function("size", "A", << P("self", "a"), P("value", "i32") >>) EXCEPT !.property = "set"],
   get0  |-> [Function("size", "root", << >>) EXCEPT !.property = "get"]]

(* Overloads of the root in every order.                                   *)
Overloaded == {{"f1", "f2"}, {"f1", "f2", "f6"}, {"f3", "f4", "f2"}, {"f2", "f4", "f5"},
               {"f3", "f5", "fb"}, {}}

Ordered    == UNION {SetToSeqs(overloads) : overloads \in Overloaded}
Methods    == {<< >>, << "fA" >>, << "fA", "fRun" >>}
Properties == << "getA", "setA", "get0" >>

Arg(lvid, clid) == [lvid |-> lvid, clid |-> clid]
Named(name, lvid, clid) == [name |-> name, arg |-> Arg(lvid, clid)]

Plain == [frame |-> "main", self |-> None, name |-> "f", property |-> "get",
          indexed |-> << >>, named |-> << >>, gens |-> << >>, namedGens |-> FALSE, rettype |-> << "any" >>]

With(indexed, named) == [Plain EXCEPT !.indexed = indexed, !.named = named]

FromMain ==
  {With(<< Arg(11, c) >>, << >>) : c \in {"i32", "int", "u8", "a", "any"}}
  \cup {With(<< Arg(11, c), Arg(12, d) >>, << >>) : c, d \in {"i32", "also", "b"}}
  \cup {With(<< >>, << Named("x", 11, "i32"), Named("y", 12, "a") >>),
        With(<< Arg(11, "a") >>, << Named("y", 12, "i32") >>),
        With(<< Arg(11, "i32") >>, << Named("y", 12, "a"), Named("y", 13, "b") >>),
        With(<< Arg(11, "i32") >>, << Named("x", 12, "i32") >>),
        With(<< >>, << Named("y", 11, "i32") >>)}
  \cup {[With(<< Arg(11, "u8") >>, << >>) EXCEPT !.gens = << Arg(14, "i32") >>],
        [With(<< Arg(11, "u8") >>, << >>) EXCEPT !.namedGens = TRUE],
        [With(<< Arg(11, "i32"), Arg(12, "i32") >>, << >>) EXCEPT !.rettype = << >>],
        [With(<< Arg(11, "i32"), Arg(12, "i32") >>, << >>) EXCEPT !.rettype = << "i32" >>]}

FromMethods ==
  {[With(<< Arg(11, c) >>, << >>) EXCEPT !.frame = frame] : c \in {"i32", "b"}, frame \in {"run", "inner"}}
  \cup {[With(<< Arg(11, "i32") >>, << >>) EXCEPT !.self = self] : self \in {"A", "B", "root"}}

ToProperties ==
  {[With(<< Arg(11, c) >>, << >>) EXCEPT !.name = "size", !.property = property, !.self = self, !.frame = frame]
     : c \in {"i32", "b"}, property \in {"get", "set"}, self \in {"none", "A", "B"}, frame \in {"main", "run"}}

MCCases ==
  {[declared |-> order, call |-> c] : order \in Ordered, c \in FromMain}
  \cup {[declared |-> order \o methods, call |-> c] :
          order \in Ordered, methods \in Methods, c \in FromMethods}
  \cup {[declared |-> order \o Properties, call |-> c] :
          order \in {<< >>, << "f1", "f2" >>}, c \in ToProperties}

-----------------------------------------------------------------------------
(* The type a clid means, once the aliases are resolved.                   *)
Denotes(clid) ==
  LET from == findClassdefAtom(clid)
      real == IF from # NoAtom /\ isTypeAlias(from) THEN resolveTypeAlias(from) ELSE << clid >>
  IN IF real = << >> THEN << >>
     ELSE << Classdefs[real[1]].kind, findClassdefAtom(real[1]) >>

(* Every argument is at its parameter (ArgumentsPlaced), and its type is   *)
(* the one of the parameter, which means the same class, or a builtin of   *)
(* the same width; a parameter of type any takes everything but another    *)
(* any.  Classes with the same members but of their own are never taken    *)
(* for one another (type-check.cpp).                                       *)
ArgumentsAccepted ==
  /\ ArgumentsPlaced
  /\ Accepted => \A i \in 1 .. Len(handed.params) :
       LET given  == handed.params[i].clid
           wanted == Program[answer].params[i].clid
       IN ~ isAny(given) /\ (isAny(wanted) \/ Denotes(given) = Denotes(wanted))
=============================================================================
