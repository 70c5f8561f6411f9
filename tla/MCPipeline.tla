----------------------------- MODULE MCPipeline -----------------------------
(***************************************************************************)
(* Sources for the pipeline: functions written as ASTs.                    *)
(***************************************************************************)
EXTENDS Pipeline, TLC

(* Two classes of errors, a plain one, one with a member of that class,    *)
(* `bool', which stands for a builtin, and those literals are made of.     *)
E1   == 1
E2   == 2
X    == 3
Y    == 4
Bool == 5
Str  == 6
Arr  == 7

Class == {E1, E2, X, Y, Bool, Str, Arr}

ClassName == (E1 :> "E1") @@ (E2 :> "E2") @@ (X :> "X") @@ (Y :> "Y") @@ (Bool :> "bool")
               @@ (Str :> "string") @@ (Arr :> "array")

Members(c) ==
  CASE c = Y    -> << [type |-> X, ref |-> FALSE, init |-> "default Y.m"] >>
    [] c = Bool -> << [type |-> T!builtin, ref |-> FALSE, init |-> "default bool.value"] >>
    [] OTHER    -> << >>

(* The functions of a class.                                               *)
New(c)     == "new " \o ClassName[c]
Dispose(c) == "dispose " \o ClassName[c]
Clone(c)   == "clone " \o ClassName[c]

-----------------------------------------------------------------------------
(* Functions.                                                              *)

Param(name, type) == [name |-> name, type |-> type, ref |-> FALSE]
ByRef(name, type) == [name |-> name, type |-> type, ref |-> TRUE]

Function(name, params, ret, body) ==
  [name |-> name, class |-> 0, params |-> params, ret |-> ret, special |-> "",
   userfunc |-> NoFunc, body |-> << T!Scope(body) >>]

Func(name, body) == Function(name, << >>, T!void, body)

Method(c, name, params, ret, special, body) ==
  [Function(name, << ByRef("self", c) >> \o params, ret, body)
     EXCEPT !.class = c, !.special = special]

ClassFunctions(c) ==
  { Method(c, New(c), << >>, T!void, "init", << >>),
    Method(c, Dispose(c), << >>, T!void, "release", << >>),
    Method(c, Clone(c), << ByRef("rhs", c) >>, T!void, "clone", << >>) }

DefaultOf(c, expr) == Method(c, Members(c)[1].init, << >>, T!void, "", T!DefaultInit(expr))

(* Operators of NSL, whose overloads take builtins and objects alike.      *)
Alias(name, operands) ==
  [class |-> 0, params |-> [i \in 1 .. operands |-> Param("x", T!any)], ret |-> T!builtin,
   raises |-> {}, valid |-> TRUE, alias |-> name, compareTo |-> name = "or"]

Natives ==
  ("unknown" :> Alias("os.is.linux", 0)) @@ ("^not" :> Alias("not", 1))
    @@ ("^and" :> Alias("and", 2)) @@ ("^or" :> Alias("or", 2)) @@ ("^==" :> Alias("eq", 2))

Runtime ==
  UNION {ClassFunctions(c) : c \in Class}
    \cup { DefaultOf(Bool, << T!Id("unknown"), T!CallNode(<< >>) >>),
           DefaultOf(Y, << T!NewNode("X", << >>) >>) }

-----------------------------------------------------------------------------
(* What the names of a source mean.                                        *)

Named(kind, of) == [kind |-> kind, of |-> of]

Lookup(funcs) ==
  [n \in {<< f.class, f.name >> : f \in funcs} |-> Named("func", n[2])]
    @@ [n \in {<< 0, name >> : name \in DOMAIN Natives} |-> Named("func", n[2])]
    @@ [n \in {<< 0, ClassName[c] >> : c \in Class} |->
          Named("class", CHOOSE c \in Class : ClassName[c] = n[2])]
    @@ [n \in {<< c, "^new" >> : c \in Class} |-> Named("func", New(n[1]))]
    @@ (<< Y, "m" >> :> Named("member", X))
    @@ (<< Arr, "append" >> :> Named("func", "append item"))
    @@ (<< Y, "p" >> :> [kind |-> "property", get |-> "get p", set |-> "set p"])

(* The functions of the source replace the default ones.  A table is the   *)
(* function it is given, which TLC evaluates once.                         *)
Table(f) == f @@ << >>

Source(funcs) ==
  LET all == funcs \cup {f \in Runtime : \A g \in funcs : g.name # f.name}
  IN [func |-> Table([name \in {f.name : f \in all} |-> CHOOSE f \in all : f.name = name]),
      lookup |-> Lookup(all), natives |-> Natives,
      members |-> Table([c \in Class |-> Members(c)]),
      clone |-> Table([c \in Class |-> Clone(c)]),
      dtor |-> Table([c \in Class |-> Dispose(c)]),
      bool |-> Bool, builtins |-> {Bool}]

-----------------------------------------------------------------------------
(* Statements.                                                             *)

Name(name)          == << T!Id(name) >>
CallOf(name)        == << T!Id(name), T!CallNode(<< >>) >>
CallWith(name, args) == << T!Id(name), T!CallNode(args) >>
NewOf(name)         == << T!NewNode(name, << >>) >>
Member(o, name)     == << T!Id(o), T!Id(name) >>
MethodCall(o, name) == << T!Id(o), T!Id(name), T!CallNode(<< >>) >>
Condition           == CallOf("unknown")
VarOf(name, e)      == T!Var(name, FALSE, "", e)
RefOf(name, e)      == T!Var(name, TRUE, "", e)
Set(target, e)      == T!Do(target \o << T!Id("="), T!CallNode(<< e >>) >>)
When(stmts)         == T!If(Condition, T!Scope(stmts), << >>)
RaiseNew(name)      == T!Raise(NewOf(name))
OnE1                == T!OnFail("e", "E1", << >>)
OnE2                == T!OnFail("e", "E2", << >>)
OnAny               == T!OnFail("", "", << >>)
Main(body)          == Func("main", body)

(* raise under a condition, past live variables.                           *)
MayRaise(f, c) == Func(f, << VarOf("y", NewOf("Y")), When(<< RaiseNew(c) >>) >>)

-----------------------------------------------------------------------------
(* Errors: caught by the caller, by its caller, where they are raised, by  *)
(* the handler of their class among several, by a handler of any.          *)

Caught ==
  { MayRaise("f", "E1"),
    Main(<< OnE1, T!Scope(<< VarOf("x", NewOf("X")), T!Do(CallOf("f")) >>) >>) }

Through ==
  { MayRaise("f", "E1"),
    Func("g", << VarOf("x", NewOf("X")), T!Do(CallOf("f")), T!Do(NewOf("X")) >>),
    Main(<< T!Scope(<< OnE1, T!Do(CallOf("g")) >>), T!Do(NewOf("X")) >>) }

Several ==
  { Func("f", << When(<< RaiseNew("E1") >>), RaiseNew("E2") >>),
    Main(<< T!Scope(<< OnE2, OnE1, T!Do(CallOf("f")), T!Do(NewOf("X")) >>) >>) }

HandledByAny ==
  { MayRaise("f", "E1"),
    Main(<< T!Scope(<< OnAny, T!Do(CallOf("f")), When(<< RaiseNew("E2") >>) >>) >>) }

RaisedHere ==
  { Func("f", << OnE1, T!Scope(<< VarOf("x", NewOf("X")), RaiseNew("E1") >>) >>),
    Func("g", << T!Scope(<< OnE1, OnE2, When(<< RaiseNew("E1") >>), RaiseNew("E2") >>) >>),
    Main(<< T!Do(CallOf("f")), T!Do(CallOf("g")) >>) }

(* A handler that fails in turn, inside another.                           *)
FailingHandler ==
  { MayRaise("f", "E1"),
    Func("g", << T!Scope(<< T!OnFail("e", "E1", << RaiseNew("E2") >>), T!Do(CallOf("f")) >>) >>),
    Main(<< T!Scope(<< OnE2, T!Do(CallOf("g")) >>) >>) }

(* Errors that nothing takes, and names that mean nothing: no program.     *)
Uncaught == { MayRaise("f", "E1"), Main(<< T!Do(CallOf("f")) >>) }

WrongHandler ==
  { MayRaise("f", "E1"), Main(<< T!Scope(<< OnE2, T!Do(CallOf("f")) >>) >>) }

RaisingDestructor ==
  { [Method(X, Dispose(X), << >>, T!void, "release", << >>) EXCEPT !.userfunc = "user dispose"],
    Method(X, "user dispose", << >>, T!void, "user dispose", << RaiseNew("E1") >>),
    Main(<< T!Scope(<< OnE1, T!Do(NewOf("X")) >>) >>) }

Nameless == { Func("f", << T!Do(Name("nothing")) >>), Main(<< T!Do(CallOf("f")) >>) }

-----------------------------------------------------------------------------
(* Objects: parameters, results, members, properties, assignments, copies. *)

Given ==
  { Function("f", << Param("a", Y), ByRef("b", X) >>, T!void,
             << Set(Name("b"), NewOf("X")), When(<< RaiseNew("E1") >>) >>),
    Main(<< OnE1, T!Scope(<< VarOf("x", NewOf("X")), T!Do(CallWith("f", << NewOf("Y"), Name("x") >>)) >>) >>) }

Results ==
  { Function("make", << >>, X, << VarOf("x", NewOf("X")), When(<< T!Return(Name("x")) >>),
                                  T!Return(NewOf("X")) >>),
    Main(<< VarOf("a", CallOf("make")), T!Do(CallOf("make")) >>) }

MembersOf ==
  { Method(Y, "touch", << >>, T!void, "", << VarOf("k", Name("m")) >>),
    Method(Y, "twice", << >>, T!void, "", << T!Do(CallOf("touch")), Set(Name("m"), NewOf("X")) >>),
    Main(<< VarOf("y", NewOf("Y")), T!Do(MethodCall("y", "twice")),
            Set(Member("y", "m"), NewOf("X")), VarOf("x", Member("y", "m")) >>) }

Properties ==
  { Method(Y, "get p", << >>, X, "", << T!Return(Name("m")) >>),
    Method(Y, "set p", << ByRef("v", X) >>, T!void, "", << Set(Name("m"), Name("v")) >>),
    Main(<< VarOf("y", NewOf("Y")), VarOf("x", Member("y", "p")),
            Set(Member("y", "p"), Name("x")) >>) }

Assigned ==
  { Main(<< VarOf("x", NewOf("X")), VarOf("z", NewOf("X")), Set(Name("x"), Name("z")),
            Set(Name("x"), Name("x")), RefOf("r", Name("x")), Set(Name("z"), Name("r")) >>) }

Copied ==
  { [Method(Y, Clone(Y), << ByRef("rhs", Y) >>, T!void, "clone", << >>)
       EXCEPT !.userfunc = "user clone"],
    Method(Y, "user clone", << ByRef("rhs", Y) >>, T!void, "", << VarOf("k", Name("m")) >>),
    [Method(Y, Dispose(Y), << >>, T!void, "release", << >>) EXCEPT !.userfunc = "user dispose"],
    Method(Y, "user dispose", << >>, T!void, "user dispose", << VarOf("k", Name("m")) >>),
    Main(<< VarOf("y", NewOf("Y")), VarOf("z", Name("y")) >>) }

-----------------------------------------------------------------------------
(* Control.                                                                *)

Branches ==
  { MayRaise("f", "E1"),
    Func("g", << OnE1, T!If(Condition, T!Scope(<< VarOf("x", NewOf("X")), T!Do(CallOf("f")) >>),
                            << T!Do(NewOf("X")) >>) >>),
    Func("h", << VarOf("z", << T!IfNode(Condition, NewOf("X"), NewOf("X")) >>) >>),
    Main(<< T!Do(CallOf("g")), T!Do(CallOf("h")) >>) }

Loops ==
  { MayRaise("f", "E1"),
    Main(<< OnE1,
            T!Scope(<< T!While(Condition, T!Scope(<< VarOf("x", NewOf("X")), T!Do(CallOf("f")) >>)),
                       T!DoWhile(T!Do(NewOf("X")), Condition) >>) >>) }

Cases ==
  { Func("f", << T!Switch(Condition, << [value |-> << T!Number("", 1) >>, body |-> T!Do(NewOf("X"))],
                                        [value |-> << T!Number("", 0) >>, body |-> T!Return(<< >>)] >>) >>),
    Main(<< T!Do(CallOf("f")) >>) }

ShortCircuits ==
  { Func("f", << VarOf("x", NewOf("X")) >>),
    Func("g", << T!Do(CallWith("^and", << Condition, CallWith("^not", << Condition >>) >>)) >>),
    Func("h", << VarOf("b", CallWith("^and", << NewOf("bool"), NewOf("bool") >>)) >>),
    Main(<< T!Do(CallOf("g")), T!Do(CallOf("h")),
            T!If(CallWith("^or", << Condition, Condition >>), T!Do(CallOf("f")), << >>) >>) }

(* A condition that is an object, a type that is written, an intrinsic.    *)
Booleans ==
  { Func("f", << T!If(NewOf("bool"), T!Do(NewOf("X")), << >>) >>),
    Func("g", << T!Var("b", FALSE, "bool", NewOf("bool")),
                 T!Do(<< T!IntrinsicNode("assert", << << T!Number("", 1) >> >>) >>),
                 T!Do(<< T!IntrinsicNode("user", << << T!Number("", 0) >> >>) >>) >>),
    Main(<< T!Do(CallOf("f")), T!Do(CallOf("g")) >>) }

(* Literals are objects that are made, then filled.                        *)
Literals ==
  { Method(Bool, New(Bool), << Param("pod", T!builtin) >>, T!void, "init", << >>),
    Method(Str, "append", << Param("text", T!builtin), Param("size", T!builtin) >>, T!void, "", << >>),
    Method(Arr, "append item", << Param("x", X) >>, T!void, "", << >>),
    Func("f", << VarOf("b", << T!Number("bool", 1) >>) >>),
    Func("g", << VarOf("s", << T!StringNode(<< T!TextPart(1), T!TextPart(2) >>) >>) >>),
    Func("h", << VarOf("a", << T!ArrayNode("array", << NewOf("X") >>) >>) >>),
    Main(<< T!Do(CallOf("f")), T!Do(CallOf("g")), T!Do(CallOf("h")) >>) }

Recursion ==
  { Func("f", << VarOf("x", NewOf("X")), When(<< T!Do(CallOf("f")) >>) >>),
    Main(<< T!Do(CallOf("f")) >>) }

-----------------------------------------------------------------------------
Texts ==
  { Caught, Through, Several, HandledByAny, RaisedHere, FailingHandler, Uncaught,
    WrongHandler, RaisingDestructor, Nameless, Given, Results, MembersOf, Properties,
    Assigned, Copied, Branches, Loops, Cases, ShortCircuits, Booleans, Literals, Recursion }

SomeSources == {Source(text) : text \in Texts}

(* An object declared in the block of the handler, after it.               *)
HandledSources ==
  { Source({ MayRaise("f", "E1"),
             Main(<< T!Scope(<< OnE1, VarOf("x", NewOf("X")), T!Do(CallOf("f")) >>) >>) }) }

(* A function that returns an object, or an error.                         *)
ResultSources ==
  { Source({ Function("make", << >>, X, << When(<< RaiseNew("E1") >>), T!Return(NewOf("X")) >>),
             Main(<< T!Scope(<< OnE1, T!Do(CallOf("make")) >>) >>) }) }

Addresses == Permutations(Obj)
=============================================================================
