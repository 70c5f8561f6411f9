----------------------------- MODULE Overloads -----------------------------
(***************************************************************************)
(* Which function a call calls, and with which arguments: the name is      *)
(* looked up (opcode-identify.cpp), the arguments are fetched, `self'      *)
(* first (opcode-call.cpp), every function found is matched against them   *)
(* (func-overload-match.cpp), and OverloadedFuncCallResolver::resolve      *)
(* (overloaded-func-call-resolution.cpp) tells the overloads apart.  The   *)
(* matcher and its last result are shared by all the calls of a function.  *)
(***************************************************************************)
EXTENDS NameLookup, Integers, FiniteSets

CONSTANTS
  Similar(_, _),   \* TypeCheck::isSimilarTo of two types
  AnyType(_),      \* whether a type is `any'
  Constrained(_),  \* whether the type wanted for a result is to be checked
  Cases,           \* an order of declaration, and a call: [declared, call]
  MaxScore         \* the greatest uint32_t, the score of a perfect match

ASSUME MaxScoreAssumption == MaxScore \in Nat

Sequence(s) == s \in Seq(ToSet(s))

Distinct(s) == \A i, j \in 1 .. Len(s) : s[i] = s[j] => i = j

ASSUME ParametersAssumption ==
  \A a \in Atoms : Sequence(Program[a].params) /\ Sequence(Program[a].gens)

(* An atom is the child of one atom, once.                                 *)
ASSUME CallsAssumption ==
  \A case \in Cases :
    /\ case.declared \in Seq(Atoms) /\ Distinct(case.declared)
    /\ case.call.frame \in Atoms
    /\ Sequence(case.call.indexed) /\ Sequence(case.call.named) /\ Sequence(case.call.gens)

VARIABLES
  declared,           \* the atoms, in the order of their declaration
  works,              \* the functions whose body accepts the types given
  call,               \* the call under analysis
  pc, found, input,   \* the functions found, the arguments of overloadMatch
  result,             \* the parameters the last validation left
  r, suitable, scores, parameters, suitableCount,
  atom, params,       \* the last solution kept, and whose parameters
  perfectMatch, perfectMatchCount, best, bestIndex, unique, successCount,
  answer, handed,     \* the function called, and the parameters pushed for it
  candidates          \* what OverloadChoice is asked (auxiliary)

environment == << declared, works, call, candidates >>
solving == << suitable, scores, parameters, suitableCount, atom, params >>
ranking == << perfectMatch, perfectMatchCount, best, bestIndex, unique, successCount >>
outcome == << answer, handed >>
vars == << environment, pc, found, input, result, r, solving, ranking, outcome >>

-----------------------------------------------------------------------------
(* FuncOverloadMatch.  An argument is a register and its type.             *)

Missing   == [lvid |-> 0, clid |-> "void"]
EmptySlots == [params |-> << >>, gens |-> << >>]

(* A slip: the slots keep what the previous validation left in them.       *)
KeepSlots(left, size) ==
  [i \in 1 .. size |-> IF i <= Len(left) THEN left[i] ELSE Missing]

(* result.params.clear(), then resize().                                   *)
ResetSlots(left, size) == [i \in 1 .. size |-> Missing]

(* Parameters::findByName from the parameter after the indexed ones.       *)
findByName(f, name, offset) ==
  LET at == {i \in offset + 1 .. Len(Program[f].params) : Program[f].params[i].name = name}
  IN IF at = {} THEN 0 ELSE Min(at)

(* The arguments in the order in which they are placed; index 0 is none.   *)
Placements(f, in) ==
  [i \in 1 .. Len(in.gens) |-> [gen |-> TRUE, index |-> i, arg |-> in.gens[i]]]
  \o (IF in.namedGens THEN << [gen |-> TRUE, index |-> 0, arg |-> Missing] >> ELSE << >>)
  \o [i \in 1 .. Len(in.indexed) |-> [gen |-> FALSE, index |-> i, arg |-> in.indexed[i]]]
  \o [i \in 1 .. Len(in.named) |->
        [gen |-> FALSE, arg |-> in.named[i].arg,
         index |-> findByName(f, in.named[i].name, Len(in.indexed))]]

pushParameter(f, p) ==
  IF p.index = 0 \/ AnyType(p.arg.clid) THEN "none"
  ELSE Similar(p.arg.clid, IF p.gen THEN Program[f].gens[p.index].clid
                                    ELSE Program[f].params[p.index].clid)

Place(slots, p) ==
  IF p.index = 0 THEN slots
  ELSE IF p.gen THEN [slots EXCEPT !.gens[p.index] = p.arg]
  ELSE [slots EXCEPT !.params[p.index] = p.arg]

TooMany(f, in) ==
  \/ Len(Program[f].params) < Len(in.indexed)
  \/ Len(Program[f].gens) < Len(in.gens)

(* A result that is wanted must be similar to the one of the function, and *)
(* a function whose result is not wanted returns none, or any.             *)
RettypeFits(f, in) ==
  LET ret == Program[f].rettype
  IN IF in.rettype = << >> THEN ret = "void" \/ AnyType(ret)
     ELSE Constrained(in.rettype[1]) => Similar(in.rettype[1], ret) # "none"

Checked(f, all) == [k \in 1 .. Len(all) |-> [p |-> all[k], match |-> pushParameter(f, all[k])]]

Wrong(checked)  == {k \in DOMAIN checked : checked[k].match = "none"}
Strict(checked) == {k \in DOMAIN checked : checked[k].match = "strictEqual"}

Start(f, left) == [params |-> ResetSlots(left.params, Len(Program[f].params)),
                   gens |-> ResetSlots(left.gens, Len(Program[f].gens))]

(* The placements stop at the first argument that is refused.              *)
Placed(start, checked) ==
  LET last == Min(Wrong(checked) \cup {Len(checked)})
      slots[k \in 0 .. last] == IF k = 0 THEN start ELSE Place(slots[k - 1], checked[k].p)
  IN  slots[last]

AllGiven(slots) ==
  \A s \in {slots.params, slots.gens} : \A i \in 1 .. Len(s) : s[i] # Missing

Verdict(f, in, checked, slots) ==
  IF Wrong(checked) # {} \/ ~ AllGiven(slots) \/ ~ RettypeFits(f, in)
  THEN [match |-> "none", score |-> 0, slots |-> slots]
  ELSE IF Strict(checked) = DOMAIN checked
  THEN [match |-> "strictEqual", score |-> MaxScore, slots |-> slots]
  ELSE [match |-> "equal", score |-> Cardinality(Strict(checked)), slots |-> slots]

Judged(f, in, left, checked) == Verdict(f, in, checked, Placed(Start(f, left), checked))

validateAtom(f, in, left) ==
  IF TooMany(f, in) THEN [match |-> "none", score |-> 0, slots |-> EmptySlots]
  ELSE Judged(f, in, left, Checked(f, Placements(f, in)))

-----------------------------------------------------------------------------
(* The names, and the arguments.                                           *)

identify(order, c) ==
  IF c.self = NoAtom THEN IdentifyFromScope(order, c.frame, c.property, c.name)
  ELSE IdentifyMember(order, c.self, c.property, c.name)

Found == identify(declared, call)

Referer == << [lvid |-> 3, clid |-> Program[call.self].rettype] >>

(* %2 is the parameter `self' of a function that belongs to a class.       *)
ImplicitSelf == << [lvid |-> 2, clid |-> Program[parentScope(call.frame)].rettype] >>

Siblings(f) == isClassMember(call.frame) /\ parentScope(f) = parentScope(call.frame)

(* All the functions found have the same parent: the first one tells.      *)
Self(list) ==
  IF call.self # NoAtom /\ isNamespace(call.self) THEN << >>
  ELSE IF call.self # NoAtom THEN Referer
  ELSE IF Siblings(list[1]) THEN ImplicitSelf
  ELSE << >>

(* fetchPushedParameters, after `self'.  The getter of a property has no   *)
(* other argument, and its setter has only one.                            *)
Fetch(list, property) ==
  LET getter == property /\ call.property = "get"
  IN [indexed   |-> Self(list) \o (IF getter THEN << >> ELSE call.indexed),
      named     |-> IF getter THEN << >> ELSE call.named,
      gens      |-> IF getter THEN << >> ELSE call.gens,
      namedGens |-> ~ getter /\ call.namedGens,
      rettype   |-> call.rettype]

(* Several properties, a property of a class without an object of that    *)
(* class, a setter given anything but one value.                           *)
Refused(asked) ==
  /\ asked.property
  /\ \/ Len(asked.list) > 1
     \/ /\ call.self = NoAtom \/ ~ isClass(call.self)
        /\ isClassMember(asked.list[1]) /\ ~ Siblings(asked.list[1])
     \/ /\ call.property = "set"
        /\ Len(call.indexed) # 1 \/ call.named # << >> \/ call.gens # << >> \/ call.namedGens

(* What OverloadChoice is asked: the functions the name stands for, as     *)
(* they match the arguments; none when they cannot be called at all.       *)
Candidate(f, v) == [fun |-> f, match |-> v.match, score |-> v.score, works |-> f \in works]

Candidates(asked) ==
  IF asked.list = << >> \/ Refused(asked) THEN {}
  ELSE {Candidate(f, validateAtom(f, in, EmptySlots)) :
          f \in ToSet(asked.list), in \in {Fetch(asked.list, asked.property)}}

-----------------------------------------------------------------------------
Init ==
  /\ \E case \in Cases : declared = case.declared /\ call = case.call
  /\ works \in SUBSET (IF Len(Found.list) > 1 THEN ToSet(Found.list) ELSE {})
  /\ \E asked \in {Found} : candidates = Candidates(asked)
  /\ pc = "identify"
  /\ found = Nothing /\ input = << >> /\ result = EmptySlots
  /\ r = 1 /\ suitable = << >> /\ scores = << >> /\ parameters = << >>
  /\ suitableCount = 0 /\ atom = NoAtom /\ params = 0
  /\ perfectMatch = 0 /\ perfectMatchCount = 0
  /\ best = 0 /\ bestIndex = 0 /\ unique = TRUE /\ successCount = 0
  /\ answer = "pending" /\ handed = EmptySlots

Fail == pc' = "done" /\ answer' = "failed" /\ UNCHANGED handed

Identify ==
  /\ pc = "identify"
  /\ found' = Found
  /\ IF found'.list = << >> THEN Fail ELSE pc' = "call" /\ UNCHANGED outcome
  /\ UNCHANGED << environment, input, result, r, solving, ranking >>

(* The function is known when its name has one meaning.                    *)
Call ==
  /\ pc = "call"
  /\ IF Refused(found)
     THEN Fail /\ UNCHANGED << input, solving >>
     ELSE /\ input' = Fetch(found.list, found.property)
          /\ pc' = IF Len(found.list) = 1 THEN "known" ELSE "match"
          /\ suitable' = [i \in 1 .. Len(found.list) |-> FALSE]
          /\ scores' = [i \in 1 .. Len(found.list) |-> 0]
          /\ parameters' = [i \in 1 .. Len(found.list) |-> EmptySlots]
          /\ UNCHANGED << suitableCount, atom, params, outcome >>
  /\ UNCHANGED << environment, found, result, r, ranking >>

KnownCall ==
  /\ pc = "known"
  /\ \E v \in {validateAtom(found.list[1], input, result)} :
       IF v.match = "none" THEN Fail /\ result' = v.slots
       ELSE /\ pc' = "done" /\ answer' = found.list[1] /\ handed' = v.slots
            /\ result' = EmptySlots
  /\ UNCHANGED << environment, found, input, r, solving, ranking >>

-----------------------------------------------------------------------------
(* OverloadedFuncCallResolver::resolve.                                    *)

More == r <= Len(found.list)

Match ==
  /\ pc = "match" /\ More
  /\ \E v \in {validateAtom(found.list[r], input, result)} :
        \/ /\ v.match = "none"
           /\ result' = v.slots
           /\ UNCHANGED << solving, perfectMatch, perfectMatchCount >>
        \/ /\ v.match # "none"
           /\ suitableCount' = suitableCount + 1
           /\ suitable' = [suitable EXCEPT ![r] = TRUE]
           /\ scores' = [scores EXCEPT ![r] = v.score]
           /\ parameters' = [parameters EXCEPT ![r] = v.slots]
           /\ result' = EmptySlots
           /\ atom' = found.list[r] /\ params' = r
           /\ IF v.match = "strictEqual"
              THEN perfectMatch' = r /\ perfectMatchCount' = perfectMatchCount + 1
              ELSE UNCHANGED << perfectMatch, perfectMatchCount >>
  /\ r' = r + 1
  /\ UNCHANGED << environment, pc, found, input, best, bestIndex, unique, successCount, outcome >>

Succeed(f, slots) == pc' = "done" /\ answer' = f /\ handed' = slots

Matched ==
  /\ pc = "match" /\ ~ More
  /\ \/ suitableCount = 0 /\ Fail
     \/ suitableCount = 1 /\ Succeed(atom, parameters[params])
     \/ suitableCount > 1 /\ pc' = (IF perfectMatch = 0 THEN "score" ELSE "choose") /\ UNCHANGED outcome
  /\ r' = 1
  /\ UNCHANGED << environment, found, input, result, solving, ranking >>

(* A slip: a second function with the best score goes unnoticed.           *)
ForgetTies(s) == s > best \/ unique

StillUnique(s) == s > best \/ (s # best /\ unique)

Score ==
  /\ pc = "score" /\ More
  /\ IF suitable[r]
     THEN /\ unique' = StillUnique(scores[r])
          /\ IF scores[r] > best THEN best' = scores[r] /\ bestIndex' = r ELSE UNCHANGED << best, bestIndex >>
     ELSE UNCHANGED << best, bestIndex, unique >>
  /\ r' = r + 1
  /\ UNCHANGED << environment, pc, found, input, result, solving, perfectMatch, perfectMatchCount,
                  successCount, outcome >>

Scored ==
  /\ pc = "score" /\ ~ More
  /\ IF best # 0 /\ unique
     THEN perfectMatch' = bestIndex /\ perfectMatchCount' = 1
     ELSE UNCHANGED << perfectMatch, perfectMatchCount >>
  /\ pc' = "choose"
  /\ UNCHANGED << environment, found, input, result, r, solving, best, bestIndex, unique,
                  successCount, outcome >>

Choose ==
  /\ pc = "choose"
  /\ r' = 1
  /\ IF perfectMatchCount = 1
     THEN /\ atom' = found.list[perfectMatch] /\ params' = perfectMatch /\ suitableCount' = 1
          /\ Succeed(found.list[perfectMatch], parameters[perfectMatch])
     ELSE pc' = "instanciate" /\ UNCHANGED << atom, params, suitableCount, outcome >>
  /\ UNCHANGED << environment, found, input, result, suitable, scores, parameters, ranking >>

(* Every suitable function is instanciated, the last that works is kept.   *)
Instanciate ==
  /\ pc = "instanciate" /\ More
  /\ IF suitable[r] /\ found.list[r] \in works
     THEN successCount' = successCount + 1 /\ atom' = found.list[r] /\ params' = r
     ELSE UNCHANGED << successCount, atom, params >>
  /\ r' = r + 1
  /\ UNCHANGED << environment, pc, found, input, result, suitable, scores, parameters, suitableCount,
                  perfectMatch, perfectMatchCount, best, bestIndex, unique, outcome >>

(* The functions that do not work are no longer suitable, unless none do.  *)
Instanciated ==
  /\ pc = "instanciate" /\ ~ More
  /\ suitableCount' = successCount
  /\ suitable' = IF successCount \in 1 .. suitableCount - 1
                 THEN [i \in DOMAIN suitable |-> suitable[i] /\ found.list[i] \in works]
                 ELSE suitable
  /\ IF successCount = 1 THEN Succeed(atom, parameters[params]) ELSE Fail
  /\ UNCHANGED << environment, found, input, result, r, scores, parameters, atom, params, ranking >>

Next ==
  \/ Identify \/ Call \/ KnownCall
  \/ Match \/ Matched \/ Score \/ Scored \/ Choose \/ Instanciate \/ Instanciated

Spec == Init /\ [][Next]_vars

-----------------------------------------------------------------------------
Accepted == answer \notin {"pending", "failed"}

(* The slots of f hold the arguments `in': those given by position, then   *)
(* those given by name, the last one given for each name.                  *)
PlacedRight(f, in, slots) ==
  LET own == Program[f].params
      n   == Len(in.indexed)
  IN /\ Len(slots.params) = Len(own) /\ n <= Len(own)
     /\ SubSeq(slots.params, 1, n) = in.indexed
     /\ \A i \in n + 1 .. Len(own) :
          \E k \in 1 .. Len(in.named) :
            /\ in.named[k].name = own[i].name /\ in.named[k].arg = slots.params[i]
            /\ \A j \in k + 1 .. Len(in.named) : in.named[j].name # own[i].name
     /\ \A k \in 1 .. Len(in.named) :
          \E i \in n + 1 .. Len(own) : in.named[k].name = own[i].name
     /\ slots.gens = in.gens

(* The function called is given every argument once, at the parameter of   *)
(* its position or of its name, and has no parameter without argument: the *)
(* parameters handed over are its own, not those of another overload, and  *)
(* nothing comes from an overload tried before it                          *)
(* (func-overload-match.cpp, resolve's pointers into `parameters').  When  *)
(* a name is given twice the last argument is the one used.                *)
ArgumentsPlaced == Accepted => PlacedRight(answer, input, handed)

(* The scopes around an atom, the nearest first.                           *)
Around(from) ==
  LET chain[a \in Atoms] == IF parentScope(a) = NoAtom THEN << a >> ELSE << a >> \o chain[parentScope(a)]
  IN chain[from]

Declares(scope) == \E f \in ToSet(declared) : parentScope(f) = scope /\ Program[f].name = call.name
                                              /\ Program[f].property = "no"

(* A name used without a referer stands for the functions of one scope     *)
(* (atom.cpp:390-400): those declared in the function itself, else those   *)
(* of the nearest class around it that has any, else those of the          *)
(* outermost scope that has any.                                           *)
LookupAsRuled ==
  (pc # "identify" /\ call.self = NoAtom /\ ~ found.property) =>
    LET around  == Around(call.frame)
        has     == {i \in 1 .. Len(around) : Declares(around[i])}
        classes == {i \in has : i > 1 /\ isClass(around[i])}
        ruled   == IF 1 \in has THEN {1}
                   ELSE IF classes # {} THEN {i \in classes : \A j \in classes : i <= j}
                   ELSE {i \in has : \A j \in has : j <= i}
    IN ToSet(found.list) =
         {f \in ToSet(declared) : /\ Program[f].name = call.name /\ Program[f].property = "no"
                                  /\ \E i \in ruled : parentScope(f) = around[i]}

-----------------------------------------------------------------------------
Promise == INSTANCE OverloadChoice

(* The function called depends on the set of the overloads, not on their   *)
(* order: the only suitable one, else the only perfect match, else the one *)
(* with the most arguments of the very type wanted, else the only one that *)
(* can be instanciated (resolve).                                          *)
ImplementsChoice == Promise!Spec
=============================================================================
