--------------------------- MODULE OverloadsProofs ---------------------------
(***************************************************************************)
(* The resolution of an overloaded call keeps the promise of               *)
(* OverloadChoice whatever the program, the types and the call: the loops  *)
(* of OverloadedFuncCallResolver::resolve, which go through the overloads  *)
(* in the order of their declaration, compute what depends on their set    *)
(* alone.                                                                  *)
(***************************************************************************)
EXTENDS Overloads, SequenceTheorems, FiniteSetTheorems, WellFoundedInduction, TLAPS

-----------------------------------------------------------------------------
(* The functions found, by their index: the suitable ones, the perfect     *)
(* matches, the one with the best score, those that can be instanciated.   *)
Index == 1 .. Len(found.list)
V(i)  == validateAtom(found.list[i], input, EmptySlots)
M     == {i \in Index : V(i).match # "none"}
P     == {i \in Index : V(i).match = "strictEqual"}
B     == {i \in M : V(i).score > 0 /\ \A j \in M \ {i} : V(j).score < V(i).score}
W     == {i \in M : found.list[i] \in works}

C(i)  == Candidate(found.list[i], V(i))

Before(T, k) == {i \in T : i < k}

(* k counts the elements of T, as far as resolve looks at its counters.    *)
Counts(k, T) ==
  /\ k \in Nat
  /\ k = 0 <=> T = {}
  /\ k = 1 <=> \E x \in T : T = {x}

(* What never changes while a call is resolved.                            *)
Given ==
  /\ Sequence(Found.list) /\ Distinct(Found.list)
  /\ Sequence(call.indexed) /\ Sequence(call.named) /\ Sequence(call.gens)
  /\ candidates = Candidates(Found)

Asked ==
  /\ found = Found /\ found.list # << >> /\ ~ Refused(found)
  /\ input = Fetch(found.list, found.property)

Untouched ==
  /\ suitableCount = 0 /\ perfectMatch = 0 /\ perfectMatchCount = 0
  /\ best = 0 /\ successCount = 0

Matching ==
  /\ r \in 1 .. Len(found.list) + 1
  /\ suitable \in [Index -> BOOLEAN] /\ scores \in [Index -> Nat]
  /\ \A i \in Index : suitable[i] <=> i \in Before(M, r)
  /\ \A i \in Before(M, r) : scores[i] = V(i).score
  /\ Counts(suitableCount, Before(M, r))
  /\ suitableCount # 0 => params \in Before(M, r) /\ atom = found.list[params]
  /\ Counts(perfectMatchCount, Before(P, r))
  /\ IF perfectMatchCount = 0 THEN perfectMatch = 0 ELSE perfectMatch \in Before(P, r)
  /\ best = 0 /\ successCount = 0

Several == M # {} /\ ~ \E i \in M : M = {i}

Assessed ==
  /\ suitable \in [Index -> BOOLEAN] /\ scores \in [Index -> Nat]
  /\ \A i \in Index : suitable[i] <=> i \in M
  /\ \A i \in M : scores[i] = V(i).score
  /\ Several /\ successCount = 0

Scoring ==
  /\ r \in 1 .. Len(found.list) + 1
  /\ P = {} /\ perfectMatch = 0 /\ perfectMatchCount = 0
  /\ best \in Nat
  /\ \A i \in Before(M, r) : V(i).score <= best
  /\ best # 0 =>
       /\ bestIndex \in Before(M, r) /\ V(bestIndex).score = best
       /\ unique <=> \A i \in Before(M, r) : i # bestIndex => V(i).score < best

Undecided == ~ (\E i \in P : P = {i}) /\ (P = {} => B = {})

Choosing ==
  IF perfectMatchCount = 1
  THEN perfectMatch \in M /\ (P = {perfectMatch} \/ (P = {} /\ B = {perfectMatch}))
  ELSE Undecided

Instanciating ==
  /\ r \in 1 .. Len(found.list) + 1
  /\ Undecided
  /\ Counts(successCount, Before(W, r))
  /\ successCount # 0 => params \in Before(W, r) /\ atom = found.list[params]

States == {"identify", "call", "known", "match", "score", "choose", "instanciate", "done"}

RInv ==
  /\ pc \in States
  /\ pc # "done" => answer = "pending"
  /\ pc = "identify" => Untouched /\ r = 1
  /\ pc = "call" => Untouched /\ r = 1 /\ found = Found /\ found.list # << >>
  /\ pc = "known" => Asked /\ Len(found.list) = 1
  /\ pc = "match" => Asked /\ Matching
  /\ pc = "score" => Asked /\ Assessed /\ Scoring
  /\ pc = "choose" => Asked /\ Assessed /\ Choosing
  /\ pc = "instanciate" =>
       /\ Asked /\ Instanciating
       /\ suitable \in [Index -> BOOLEAN] /\ \A i \in Index : suitable[i] <=> i \in M
       /\ Several

IInv == Given /\ RInv

-----------------------------------------------------------------------------
(* What a validation left behind is never read by the next one.            *)
LEMMA LeftIgnored ==
  ASSUME NEW f, NEW in, NEW left
  PROVE  validateAtom(f, in, left) = validateAtom(f, in, EmptySlots)
BY DEF validateAtom, Judged, Start, ResetSlots

LEMMA LenConcat ==
  ASSUME NEW A, NEW D, NEW s \in Seq(A), NEW t \in Seq(D)
  PROVE  s \o t \in Seq(A \cup D)
<1>1. s \in Seq(A \cup D) /\ t \in Seq(A \cup D)
  OBVIOUS
<1>2. QED
  BY <1>1

LEMMA SequenceLen ==
  ASSUME NEW s, Sequence(s)
  PROVE  Len(s) \in Nat /\ DOMAIN s = 1 .. Len(s)
BY DEF Sequence

LEMMA CountNext ==
  ASSUME NEW k, NEW T, NEW x, Counts(k, T), x \notin T
  PROVE  Counts(k + 1, T \cup {x})
<1>1. k + 1 \in Nat /\ k + 1 # 0 /\ T \cup {x} # {}
  BY DEF Counts
<1>2. (k + 1 = 1) <=> T = {}
  BY DEF Counts
<1>3. (\E y \in T \cup {x} : T \cup {x} = {y}) <=> T = {}
  OBVIOUS
<1>4. QED
  BY <1>1, <1>2, <1>3 DEF Counts

LEMMA BeforeNext ==
  ASSUME NEW T, T \subseteq Int, NEW k \in Int
  PROVE  Before(T, k + 1) = IF k \in T THEN Before(T, k) \cup {k} ELSE Before(T, k)
<1>1. \A i \in T : i < k + 1 <=> i < k \/ i = k
  OBVIOUS
<1>2. Before(T, k + 1) = Before(T, k) \cup (T \cap {k})
  BY <1>1 DEF Before
<1>3. CASE k \in T
  BY <1>2, <1>3
<1>4. CASE k \notin T
  BY <1>2, <1>4
<1>5. QED
  BY <1>3, <1>4

LEMMA BeforeAll ==
  ASSUME NEW n \in Nat, NEW T, T \subseteq 1 .. n
  PROVE  Before(T, n + 1) = T
<1>1. \A i \in T : i < n + 1
  OBVIOUS
<1>2. QED
  BY <1>1 DEF Before

LEMMA BeforeNone ==
  ASSUME NEW n \in Nat, NEW T, T \subseteq 1 .. n
  PROVE  Before(T, 1) = {}
<1>1. \A i \in T : ~ i < 1
  OBVIOUS
<1>2. QED
  BY <1>1 DEF Before

-----------------------------------------------------------------------------
(* The arguments are sequences, and a validation gives a match and a score.*)
LEMMA AnySequence ==
  ASSUME NEW A, NEW s \in Seq(A)
  PROVE  Sequence(s)
<1>1. s \in Seq(ToSet(s))
  BY DEF ToSet
<1>. QED  BY <1>1 DEF Sequence

LEMMA FetchedSequences ==
  ASSUME Given, Asked
  PROVE  /\ Sequence(input.indexed) /\ Sequence(input.named) /\ Sequence(input.gens)
         /\ input.namedGens \in BOOLEAN
<1>1. input = Fetch(found.list, found.property)
  BY DEF Asked
<1>2. /\ call.indexed \in Seq(ToSet(call.indexed)) /\ call.named \in Seq(ToSet(call.named))
      /\ call.gens \in Seq(ToSet(call.gens))
  BY DEF Given, Sequence
<1>3. \A s : << s >> \in Seq({s})
  OBVIOUS
<1>4. \E A : Self(found.list) \in Seq(A)
  <2>1. Self(found.list) = << >> \/ \E s : Self(found.list) = << s >>
    BY Zenon DEF Self, Referer, ImplicitSelf
  <2>2. << >> \in Seq({})
    OBVIOUS
  <2>3. QED
    BY <1>3, <2>1, <2>2
<1>5. \E A : (IF found.property /\ call.property = "get" THEN << >> ELSE call.indexed) \in Seq(A)
  BY <1>2
<1>6. \E A : input.indexed \in Seq(A)
  BY <1>1, <1>4, <1>5, LenConcat DEF Fetch
<1>7. (\E A : input.named \in Seq(A)) /\ (\E A : input.gens \in Seq(A))
  BY <1>1, <1>2 DEF Fetch
<1>8. input.namedGens \in BOOLEAN
  BY <1>1 DEF Fetch
<1>9. QED
  BY <1>6, <1>7, <1>8, AnySequence

LEMMA PlacementsLen ==
  ASSUME NEW f, NEW in, Len(in.indexed) \in Nat, Len(in.named) \in Nat, Len(in.gens) \in Nat
  PROVE  Len(Placements(f, in)) \in Nat
<1> DEFINE gens    == [i \in 1 .. Len(in.gens) |-> [gen |-> TRUE, index |-> i, arg |-> in.gens[i]]]
           wrong   == IF in.namedGens THEN << [gen |-> TRUE, index |-> 0, arg |-> Missing] >> ELSE << >>
           indexed == [i \in 1 .. Len(in.indexed) |-> [gen |-> FALSE, index |-> i, arg |-> in.indexed[i]]]
           named   == [i \in 1 .. Len(in.named) |->
                         [gen |-> FALSE, arg |-> in.named[i].arg,
                          index |-> findByName(f, in.named[i].name, Len(in.indexed))]]
<1>1. Placements(f, in) = ((gens \o wrong) \o indexed) \o named
  BY DEF Placements
<1>2. \A m \in Nat : \A g : g = [i \in 1 .. m |-> g[i]] => g \in Seq({g[i] : i \in 1 .. m})
  OBVIOUS
<1>3. /\ gens \in Seq({gens[i] : i \in 1 .. Len(in.gens)})
      /\ indexed \in Seq({indexed[i] : i \in 1 .. Len(in.indexed)})
      /\ named \in Seq({named[i] : i \in 1 .. Len(in.named)})
  <2> HIDE DEF gens, indexed, named
  <2>1. gens = [i \in 1 .. Len(in.gens) |-> gens[i]]
    BY DEF gens
  <2>2. indexed = [i \in 1 .. Len(in.indexed) |-> indexed[i]]
    BY DEF indexed
  <2>3. named = [i \in 1 .. Len(in.named) |-> named[i]]
    BY DEF named
  <2>4. QED
    BY <1>2, <2>1, <2>2, <2>3
<1>4. \E A : wrong \in Seq(A)
  <2>1. wrong = << >> \/ \E p : wrong = << p >>
    BY Zenon
  <2>2. << >> \in Seq({}) /\ \A p : << p >> \in Seq({p})
    OBVIOUS
  <2> HIDE DEF wrong
  <2>3. QED
    BY <2>1, <2>2
<1> HIDE DEF gens, wrong, indexed, named
<1>5. \E A : gens \o wrong \in Seq(A)
  BY <1>3, <1>4, LenConcat
<1>6. \E A : (gens \o wrong) \o indexed \in Seq(A)
  BY <1>3, <1>5, LenConcat
<1>7. \E A : ((gens \o wrong) \o indexed) \o named \in Seq(A)
  BY <1>3, <1>6, LenConcat
<1>8. QED
  BY <1>1, <1>7

LEMMA ValidationTypes ==
  ASSUME Given, Asked, NEW i \in Index
  PROVE  /\ V(i).match \in {"none", "equal", "strictEqual"}
         /\ V(i).score \in Nat
<1> DEFINE f == found.list[i]
           checked == Checked(f, Placements(f, input))
<1>1. Len(Placements(f, input)) \in Nat
  BY FetchedSequences, SequenceLen, PlacementsLen
<1>2. IsFiniteSet(Strict(checked))
  <2>1. Strict(checked) \subseteq 1 .. Len(Placements(f, input))
    BY DEF Strict, Checked
  <2>2. IsFiniteSet(1 .. Len(Placements(f, input)))
    BY <1>1, FS_Interval
  <2>3. QED
    BY <2>1, <2>2, FS_Subset
<1>3. Cardinality(Strict(checked)) \in Nat
  BY <1>2, FS_CardinalityType
<1> HIDE DEF checked
<1>4. \A slots : LET v == Verdict(f, input, checked, slots)
                 IN v.match \in {"none", "equal", "strictEqual"} /\ v.score \in Nat
  BY <1>3, MaxScoreAssumption DEF Verdict
<1>5. \/ V(i) = [match |-> "none", score |-> 0, slots |-> EmptySlots]
      \/ V(i) = Verdict(f, input, checked, Placed(Start(f, EmptySlots), checked))
  BY DEF V, validateAtom, Judged, checked
<1>6. QED
  BY <1>4, <1>5

-----------------------------------------------------------------------------
(* What OverloadChoice makes of the functions found.                       *)
LEMMA CandidatesOf ==
  ASSUME Given, Asked
  PROVE  /\ candidates = {C(i) : i \in Index}
         /\ Len(found.list) \in Nat
         /\ \A i, j \in Index : C(i).fun = C(j).fun => i = j
<1>1. found = Found /\ found.list # << >> /\ ~ Refused(found) /\ input = Fetch(found.list, found.property)
  BY DEF Asked
<1>2. candidates = {Candidate(f, validateAtom(f, input, EmptySlots)) : f \in ToSet(found.list)}
  BY <1>1 DEF Given, Candidates
<1>3. Sequence(found.list) /\ Distinct(found.list)
  BY <1>1 DEF Given
<1>4. Len(found.list) \in Nat /\ ToSet(found.list) = {found.list[i] : i \in Index}
  BY <1>3, SequenceLen DEF ToSet, Index
<1>5. candidates = {C(i) : i \in Index}
  BY <1>2, <1>4 DEF C, V
<1>6. \A i, j \in Index : C(i).fun = C(j).fun => i = j
  BY <1>3 DEF C, Candidate, Distinct, Index
<1>7. QED
  BY <1>4, <1>5, <1>6

(* Indexes stand for their candidates.                                     *)
LEMMA Standing ==
  ASSUME Given, Asked, NEW T, T \subseteq Index
  PROVE  /\ Promise!Single({C(i) : i \in T}) <=> \E i \in T : T = {i}
         /\ {C(i) : i \in T} = {} <=> T = {}
         /\ \A i \in Index : {C(j) : j \in T} = {C(i)} <=> T = {i}
<1> DEFINE S == {C(i) : i \in T}
<1>1. \A i, j \in Index : C(i) = C(j) => i = j
  BY CandidatesOf
<1>2. S = {} <=> T = {}
  OBVIOUS
<1>3. ASSUME NEW i \in Index PROVE S = {C(i)} <=> T = {i}
  <2>1. ASSUME S = {C(i)} PROVE T = {i}
    <3>1. \A j \in T : C(j) = C(i)
      BY <2>1
    <3>2. \A j \in T : j = i
      BY <1>1, <3>1
    <3>3. T # {}
      BY <2>1
    <3>4. QED
      BY <3>2, <3>3
  <2>2. QED
    BY <2>1
<1>4. Promise!Single(S) <=> \E i \in T : T = {i}
  <2>1. Promise!Single(S) <=> \E i \in T : S = {C(i)}
    BY DEF Promise!Single
  <2>2. QED
    BY <1>3, <2>1
<1>5. QED
  BY <1>2, <1>3, <1>4

LEMMA Assessment ==
  ASSUME Given, Asked
  PROVE  /\ Promise!Suitable = {C(i) : i \in M}
         /\ Promise!Perfect = {C(i) : i \in P}
         /\ Promise!Best = {C(i) : i \in B}
         /\ Promise!Workable = {C(i) : i \in W}
         /\ M \subseteq Index /\ P \subseteq M /\ B \subseteq M /\ W \subseteq M
<1>1. candidates = {C(i) : i \in Index} /\ \A i, j \in Index : C(i) = C(j) => i = j
  BY CandidatesOf
<1>2. \A i : /\ C(i).match = V(i).match /\ C(i).score = V(i).score
             /\ C(i).works = (found.list[i] \in works)
  BY DEF C, Candidate
<1>3. M \subseteq Index /\ B \subseteq M /\ W \subseteq M
  BY DEF M, B, W
<1>4. P \subseteq M
  BY DEF P, M
<1>5. Promise!Suitable = {C(i) : i \in M}
  BY <1>1, <1>2 DEF Promise!Suitable, M
<1>6. Promise!Perfect = {C(i) : i \in P}
  <2>1. Promise!Perfect = {C(i) : i \in {j \in M : V(j).match = "strictEqual"}}
    BY <1>2, <1>5 DEF Promise!Perfect
  <2>2. P = {j \in M : V(j).match = "strictEqual"}
    BY <1>3, <1>4 DEF P
  <2>3. QED
    BY <2>1, <2>2
<1>7. Promise!Workable = {C(i) : i \in W}
  BY <1>2, <1>5 DEF Promise!Workable, W
<1>8. Promise!Best = {C(i) : i \in B}
  <2>1. ASSUME NEW i \in M
        PROVE  (\A d \in Promise!Suitable \ {C(i)} : d.score < C(i).score)
                 <=> \A j \in M \ {i} : V(j).score < V(i).score
    <3>1. Promise!Suitable \ {C(i)} = {C(j) : j \in M \ {i}}
      BY <1>1, <1>3, <1>5
    <3>2. QED
      BY <1>2, <3>1
  <2>2. Promise!Best = {C(i) : i \in {j \in M : C(j).score > 0 /\ \A d \in Promise!Suitable \ {C(j)} : d.score < C(j).score}}
    BY <1>5 DEF Promise!Best
  <2>3. QED
    BY <1>2, <2>1, <2>2 DEF B
<1>9. QED
  BY <1>3, <1>4, <1>5, <1>6, <1>7, <1>8

(* The choice, case by case as resolve makes it.                           *)
LEMMA ChoiceIs ==
  ASSUME Given, Asked
  PROVE  /\ M = {} => Promise!Choice = {}
         /\ \A i \in Index : M = {i} => Promise!Choice = {C(i)}
         /\ \A i \in Index : Several /\ P = {i} => Promise!Choice = {C(i)}
         /\ \A i \in Index : Several /\ P = {} /\ B = {i} => Promise!Choice = {C(i)}
         /\ Several /\ Undecided => Promise!Choice = {C(i) : i \in W}
<1>1. M \subseteq Index /\ P \subseteq Index /\ B \subseteq Index /\ W \subseteq Index
  BY Assessment
<1>2. Promise!Single(Promise!Suitable) <=> \E i \in M : M = {i}
  <2>1. Promise!Suitable = {C(i) : i \in M}
    BY Assessment
  <2>2. \A i \in Index : {C(j) : j \in M} = {C(i)} <=> M = {i}
    BY <1>1, Standing
  <2>3. Promise!Single(Promise!Suitable) <=> \E i \in M : Promise!Suitable = {C(i)}
    BY <2>1 DEF Promise!Single
  <2>4. QED
    BY <1>1, <2>1, <2>2, <2>3
<1>3. Promise!Single(Promise!Perfect) <=> \E i \in P : P = {i}
  <2>1. Promise!Perfect = {C(i) : i \in P}
    BY Assessment
  <2>2. \A i \in Index : {C(j) : j \in P} = {C(i)} <=> P = {i}
    BY <1>1, Standing
  <2>3. Promise!Single(Promise!Perfect) <=> \E i \in P : Promise!Perfect = {C(i)}
    BY <2>1 DEF Promise!Single
  <2>4. QED
    BY <1>1, <2>1, <2>2, <2>3
<1>4. Promise!Suitable = {} <=> M = {}
  BY Assessment
<1>5. (Promise!Perfect = {} <=> P = {}) /\ (Promise!Best = {} <=> B = {})
  BY Assessment
<1>6. \A i \in Index : /\ M = {i} => Promise!Suitable = {C(i)}
                       /\ P = {i} => Promise!Perfect = {C(i)}
                       /\ B = {i} => Promise!Best = {C(i)}
  BY <1>1, Assessment, Standing
<1>7. QED
  BY <1>2, <1>3, <1>4, <1>5, <1>6, Assessment DEF Promise!Choice, Several, Undecided

LEMMA Chosen ==
  ASSUME NEW c, Promise!Choice = {c}, answer = "pending", answer' = c.fun, UNCHANGED candidates
  PROVE  Promise!Resolve
<1>1. Promise!Single(Promise!Choice)
  BY DEF Promise!Single
<1>2. (CHOOSE d \in Promise!Choice : TRUE) = c
  OBVIOUS
<1>3. QED
  BY <1>1, <1>2 DEF Promise!Resolve

LEMMA NotChosen ==
  ASSUME ~ Promise!Single(Promise!Choice), answer = "pending", answer' = "failed", UNCHANGED candidates
  PROVE  Promise!Resolve
BY DEF Promise!Resolve

-----------------------------------------------------------------------------
(* The steps.                                                              *)
LEMMA GivenKept ==
  ASSUME Given, UNCHANGED environment
  PROVE  Given' /\ UNCHANGED Found
<1>1. UNCHANGED << declared, works, call, candidates >>
  BY DEF environment
<1>2. UNCHANGED Found
  BY <1>1 DEF Found
<1>3. UNCHANGED Candidates(Found)
  BY <1>1, <1>2 DEF Candidates, Refused, Siblings, Fetch, Self, Referer, ImplicitSelf, Candidate
<1>4. QED
  BY <1>1, <1>2, <1>3 DEF Given

LEMMA Kept ==
  ASSUME Given, UNCHANGED << environment, found, input >>
  PROVE  /\ UNCHANGED << Index, M, P, B, W, Several, Undecided, Asked >>
         /\ \A i : V(i)' = V(i)
<1>1. UNCHANGED << declared, works, call, candidates, found, input >> /\ UNCHANGED Found
  BY GivenKept DEF environment
<1>2. (\A i : V(i)' = V(i)) /\ Index' = Index
  BY <1>1 DEF V, Index
<1>3. M' = M /\ P' = P
  BY <1>2 DEF M, P
<1>4. B' = B /\ W' = W
  BY <1>1, <1>2, <1>3 DEF B, W
<1>5. UNCHANGED Asked
  BY <1>1 DEF Asked, Refused, Siblings, Fetch, Self, Referer, ImplicitSelf
<1>6. QED
  BY <1>2, <1>3, <1>4, <1>5 DEF Several, Undecided

LEMMA IdentifyStep ==
  ASSUME IInv, Identify
  PROVE  IInv' /\ (Promise!Resolve \/ UNCHANGED << candidates, answer >>)
<1>1. Given' /\ UNCHANGED Found /\ UNCHANGED candidates
  BY GivenKept DEF IInv, Identify, environment
<1>2. CASE found'.list = << >>
  <2>1. answer' = "failed" /\ pc' = "done" /\ answer = "pending"
    BY <1>2 DEF Identify, Fail, IInv, RInv
  <2>2. Found.list = << >> /\ candidates = {}
    BY <1>1, <1>2 DEF Identify, IInv, Given, Candidates
  <2>3. ~ Promise!Single(Promise!Choice)
    BY <2>2 DEF Promise!Single, Promise!Choice, Promise!Suitable
  <2>4. QED
    BY <1>1, <2>1, <2>3, NotChosen DEF IInv, RInv, States
<1>3. CASE found'.list # << >>
  <2>1. /\ pc' = "call" /\ UNCHANGED answer /\ found' = Found
        /\ pc = "identify" /\ UNCHANGED << r, solving, ranking >>
    BY <1>3 DEF Identify, outcome
  <2>2. RInv'
    BY <1>1, <1>3, <2>1 DEF RInv, IInv, Untouched, States, solving, ranking
  <2>3. QED
    BY <1>1, <2>1, <2>2 DEF IInv
<1>4. QED
  BY <1>2, <1>3

LEMMA CallStep ==
  ASSUME IInv, Call
  PROVE  IInv' /\ (Promise!Resolve \/ UNCHANGED << candidates, answer >>)
<1>1. Given' /\ UNCHANGED Found /\ UNCHANGED << candidates, call, declared, works, found, r, result, ranking >>
  BY GivenKept DEF IInv, Call, environment
<1>2. /\ pc = "call" /\ answer = "pending" /\ Untouched /\ r = 1
      /\ found = Found /\ found.list # << >>
  BY DEF Call, IInv, RInv
<1>3. CASE Refused(found)
  <2>1. answer' = "failed" /\ pc' = "done"
    BY <1>3 DEF Call, Fail
  <2>2. candidates = {}
    BY <1>2, <1>3 DEF IInv, Given, Candidates
  <2>3. ~ Promise!Single(Promise!Choice)
    BY <2>2 DEF Promise!Single, Promise!Choice, Promise!Suitable
  <2>4. QED
    BY <1>1, <1>2, <2>1, <2>3, NotChosen DEF IInv, RInv, States
<1>4. CASE ~ Refused(found)
  <2>1. /\ input' = Fetch(found.list, found.property)
        /\ pc' = IF Len(found.list) = 1 THEN "known" ELSE "match"
        /\ suitable' = [i \in 1 .. Len(found.list) |-> FALSE]
        /\ scores' = [i \in 1 .. Len(found.list) |-> 0]
        /\ UNCHANGED << suitableCount, answer >>
    BY <1>4 DEF Call, outcome
  <2>2. Asked'
    BY <1>1, <1>2, <1>4, <2>1 DEF Asked, Refused, Siblings, Fetch, Self, Referer, ImplicitSelf
  <2>3. Len(found.list) \in Nat /\ Len(found.list) # 0
    <3>1. Sequence(found.list)
      BY <1>2 DEF IInv, Given
    <3>2. QED
      BY <1>2, <3>1 DEF Sequence
  <2>4. Index' = 1 .. Len(found.list)
    BY <1>1 DEF Index
  <2>5. Before(M', 1) = {} /\ Before(P', 1) = {}
    <3>1. M' \subseteq 1 .. Len(found.list) /\ P' \subseteq 1 .. Len(found.list)
      BY <2>4 DEF M, P
    <3>2. QED
      BY <2>3, <3>1, BeforeNone
  <2>6. Matching'
    <3>1. r' = 1 /\ Before(M, r)' = {} /\ Before(P, r)' = {}
      BY <1>1, <1>2, <2>5 DEF Before
    <3>2. Counts(0, {})
      BY DEF Counts
    <3>3. /\ suitableCount' = 0 /\ perfectMatchCount' = 0 /\ perfectMatch' = 0
          /\ best' = 0 /\ successCount' = 0
      BY <1>1, <1>2, <2>1 DEF Untouched, ranking
    <3>4. Counts(suitableCount', {}) /\ Counts(perfectMatchCount', {})
      BY <3>2, <3>3
    <3>5. 1 \in 1 .. Len(found.list) + 1
      BY <2>3
    <3>6. suitable' \in [Index' -> BOOLEAN] /\ scores' \in [Index' -> Nat] /\ \A i \in Index' : ~ suitable'[i]
      BY <2>1, <2>4
    <3>7. Counts(suitableCount, Before(M, r))' /\ Counts(perfectMatchCount, Before(P, r))'
      BY <3>1, <3>4 DEF Counts
    <3>8. QED
      BY <1>1, <3>1, <3>3, <3>5, <3>6, <3>7 DEF Matching
  <2>7. RInv'
    BY <1>1, <1>2, <2>1, <2>2, <2>6 DEF RInv, States
  <2>8. QED
    BY <1>1, <2>1, <2>7 DEF IInv
<1>5. QED
  BY <1>3, <1>4

(* What the steps of resolve share: the functions found and their          *)
(* assessment stay, and the validation made is the one of the function.    *)
LEMMA Resolving ==
  ASSUME IInv, UNCHANGED << environment, found, input >>, Asked
  PROVE  /\ Given' /\ Asked' /\ UNCHANGED << candidates, works >>
         /\ Len(found.list) \in Nat /\ M \subseteq Index /\ P \subseteq M /\ B \subseteq M /\ W \subseteq M
         /\ Index = 1 .. Len(found.list)
         /\ UNCHANGED << Index, M, P, B, W, Several, Undecided >>
         /\ \A i : V(i)' = V(i)
<1>1. Given' /\ UNCHANGED << candidates, works >>
  BY GivenKept DEF IInv, environment
<1>2. UNCHANGED << Index, M, P, B, W, Several, Undecided, Asked >> /\ \A i : V(i)' = V(i)
  BY Kept DEF IInv
<1>3. Len(found.list) \in Nat /\ M \subseteq Index /\ P \subseteq M /\ B \subseteq M /\ W \subseteq M
  BY CandidatesOf, Assessment DEF IInv
<1>4. QED
  BY <1>1, <1>2, <1>3 DEF Index

LEMMA KnownCallStep ==
  ASSUME IInv, KnownCall
  PROVE  IInv' /\ (Promise!Resolve \/ UNCHANGED << candidates, answer >>)
<1>1. pc = "known" /\ answer = "pending" /\ Asked /\ Len(found.list) = 1 /\ Given
  BY DEF KnownCall, IInv, RInv
<1>2. UNCHANGED << environment, found, input >>
  BY DEF KnownCall
<1>3. Given' /\ UNCHANGED candidates
  BY <1>1, <1>2, Resolving
<1>4. Index = {1}
  BY <1>1 DEF Index
<1>5. validateAtom(found.list[1], input, result) = V(1)
  BY LeftIgnored DEF V
<1>6. /\ pc' = "done"
      /\ IF V(1).match = "none" THEN answer' = "failed" ELSE answer' = found.list[1]
  BY <1>5 DEF KnownCall, Fail
<1>7. RInv'
  BY <1>6 DEF RInv, States
<1>8. Promise!Resolve
  <2>1. CASE V(1).match = "none"
    <3>1. M = {}
      BY <1>4, <2>1 DEF M
    <3>2. ~ Promise!Single(Promise!Choice)
      BY <1>1, <3>1, ChoiceIs DEF Promise!Single
    <3>3. QED
      BY <1>1, <1>3, <1>6, <2>1, <3>2, NotChosen
  <2>2. CASE V(1).match # "none"
    <3>1. M = {1}
      BY <1>4, <2>2 DEF M
    <3>2. Promise!Choice = {C(1)}
      BY <1>1, <1>4, <3>1, ChoiceIs
    <3>3. C(1).fun = found.list[1]
      BY DEF C, Candidate
    <3>4. QED
      BY <1>1, <1>3, <1>6, <2>2, <3>2, <3>3, Chosen
  <2>3. QED
    BY <2>1, <2>2
<1>9. QED
  BY <1>3, <1>7, <1>8 DEF IInv

LEMMA MatchStep ==
  ASSUME IInv, Match
  PROVE  IInv' /\ (Promise!Resolve \/ UNCHANGED << candidates, answer >>)
<1>1. pc = "match" /\ answer = "pending" /\ Asked /\ Matching /\ r <= Len(found.list)
  BY DEF Match, More, IInv, RInv
<1>2. UNCHANGED << environment, found, input, pc, answer, best, successCount >> /\ r' = r + 1
  BY DEF Match, outcome
<1>3. /\ Given' /\ Asked' /\ UNCHANGED candidates
      /\ Len(found.list) \in Nat /\ M \subseteq Index /\ P \subseteq M
      /\ Index = 1 .. Len(found.list) /\ UNCHANGED << Index, M, P >> /\ \A i : V(i)' = V(i)
  BY <1>1, <1>2, Resolving
<1>4. r \in Index /\ r' \in 1 .. Len(found.list) + 1 /\ r \in Int
  BY <1>1, <1>2, <1>3 DEF Matching
<1>5. validateAtom(found.list[r], input, result) = V(r)
  BY LeftIgnored DEF V
<1>6. V(r).match \in {"none", "equal", "strictEqual"} /\ V(r).score \in Nat
  BY <1>1, <1>4, ValidationTypes DEF IInv
<1>7. /\ Before(M, r + 1) = IF r \in M THEN Before(M, r) \cup {r} ELSE Before(M, r)
      /\ Before(P, r + 1) = IF r \in P THEN Before(P, r) \cup {r} ELSE Before(P, r)
  <2>1. M \subseteq Int /\ P \subseteq Int
    BY <1>3
  <2>2. QED
    BY <1>4, <2>1, BeforeNext
<1>8. r \notin Before(M, r) /\ r \notin Before(P, r)
  BY <1>4 DEF Before
<1>9. Before(M, r)' = Before(M, r + 1) /\ Before(P, r)' = Before(P, r + 1)
  BY <1>2, <1>3 DEF Before
<1>10. CASE V(r).match = "none"
  <2>1. UNCHANGED << suitable, scores, suitableCount, atom, params, perfectMatch, perfectMatchCount >>
    BY <1>5, <1>10 DEF Match, solving
  <2>2. r \notin M /\ r \notin P
    BY <1>10 DEF M, P
  <2>3. Before(M, r)' = Before(M, r) /\ Before(P, r)' = Before(P, r)
    BY <1>7, <1>9, <2>2
  <2>4. Counts(suitableCount, Before(M, r))' /\ Counts(perfectMatchCount, Before(P, r))'
    BY <1>1, <2>1, <2>3 DEF Matching, Counts
  <2>5. Matching'
    BY <1>1, <1>2, <1>3, <1>4, <2>1, <2>3, <2>4 DEF Matching
  <2>6. QED
    BY <1>1, <1>2, <1>3, <2>5 DEF IInv, RInv
<1>11. CASE V(r).match # "none"
  <2>1. /\ suitableCount' = suitableCount + 1
        /\ suitable' = [suitable EXCEPT ![r] = TRUE]
        /\ scores' = [scores EXCEPT ![r] = V(r).score]
        /\ atom' = found.list[r] /\ params' = r
        /\ IF V(r).match = "strictEqual"
           THEN perfectMatch' = r /\ perfectMatchCount' = perfectMatchCount + 1
           ELSE UNCHANGED << perfectMatch, perfectMatchCount >>
    BY <1>5, <1>11 DEF Match
  <2>2. r \in M /\ (r \in P <=> V(r).match = "strictEqual")
    BY <1>4, <1>11 DEF M, P
  <2>3. Before(M, r)' = Before(M, r) \cup {r}
    BY <1>7, <1>9, <2>2
  <2>4. Counts(suitableCount', Before(M, r) \cup {r})
    BY <1>1, <1>8, <2>1, CountNext DEF Matching
  <2>5. Counts(suitableCount, Before(M, r))'
    BY <2>3, <2>4 DEF Counts
  <2>6. /\ Counts(perfectMatchCount, Before(P, r))'
        /\ (IF perfectMatchCount = 0 THEN perfectMatch = 0 ELSE perfectMatch \in Before(P, r))'
    <3>1. CASE r \in P
      <4>1. Before(P, r)' = Before(P, r) \cup {r}
        BY <1>7, <1>9, <3>1
      <4>2. Counts(perfectMatchCount + 1, Before(P, r) \cup {r})
        BY <1>1, <1>8, CountNext DEF Matching
      <4>3. perfectMatch' = r /\ perfectMatchCount' = perfectMatchCount + 1
        BY <2>1, <2>2, <3>1
      <4>4. QED
        BY <4>1, <4>2, <4>3 DEF Counts
    <3>2. CASE r \notin P
      <4>1. Before(P, r)' = Before(P, r) /\ UNCHANGED << perfectMatch, perfectMatchCount >>
        BY <1>7, <1>9, <2>1, <2>2, <3>2
      <4>2. QED
        BY <1>1, <4>1 DEF Matching, Counts
    <3>3. QED
      BY <3>1, <3>2
  <2>7. suitable' \in [Index -> BOOLEAN] /\ \A i \in Index : suitable'[i] <=> i \in Before(M, r) \cup {r}
    BY <1>1, <1>4, <2>1 DEF Matching
  <2>8. scores' \in [Index -> Nat] /\ \A i \in Before(M, r) \cup {r} : scores'[i] = V(i).score
    <3>1. Before(M, r) \subseteq Index
      BY <1>3 DEF Before
    <3>2. QED
      BY <1>1, <1>4, <1>6, <1>8, <2>1, <3>1 DEF Matching
  <2>9. Matching'
    BY <1>1, <1>2, <1>3, <1>4, <2>1, <2>3, <2>5, <2>6, <2>7, <2>8 DEF Matching
  <2>10. QED
    BY <1>1, <1>2, <1>3, <2>9 DEF IInv, RInv
<1>12. QED
  BY <1>10, <1>11

LEMMA MatchedStep ==
  ASSUME IInv, Matched
  PROVE  IInv' /\ (Promise!Resolve \/ UNCHANGED << candidates, answer >>)
<1>1. pc = "match" /\ answer = "pending" /\ Asked /\ Matching /\ ~ r <= Len(found.list) /\ Given
  BY DEF Matched, More, IInv, RInv
<1>2. UNCHANGED << environment, found, input, suitable, scores, suitableCount, atom, params,
                   perfectMatch, perfectMatchCount, best, successCount >> /\ r' = 1
  BY DEF Matched, solving, ranking
<1>3. /\ Given' /\ Asked' /\ UNCHANGED candidates
      /\ Len(found.list) \in Nat /\ M \subseteq Index /\ P \subseteq M
      /\ Index = 1 .. Len(found.list)
      /\ UNCHANGED << Index, M, P, B, Several, Undecided >> /\ \A i : V(i)' = V(i)
  BY <1>1, <1>2, Resolving
<1>4. r = Len(found.list) + 1
  BY <1>1, <1>3 DEF Matching
<1>5. Before(M, r) = M /\ Before(P, r) = P
  BY <1>3, <1>4, BeforeAll
<1>6. /\ Counts(suitableCount, M) /\ Counts(perfectMatchCount, P)
      /\ suitableCount # 0 => params \in M /\ atom = found.list[params]
      /\ IF perfectMatchCount = 0 THEN perfectMatch = 0 ELSE perfectMatch \in P
      /\ suitable \in [Index -> BOOLEAN] /\ scores \in [Index -> Nat]
      /\ \A i \in Index : suitable[i] <=> i \in M
      /\ \A i \in M : scores[i] = V(i).score
      /\ best = 0 /\ successCount = 0
  BY <1>1, <1>5 DEF Matching
<1>7. CASE suitableCount = 0
  <2>1. pc' = "done" /\ answer' = "failed"
    BY <1>7 DEF Matched, Fail
  <2>2. M = {}
    BY <1>6, <1>7 DEF Counts
  <2>3. ~ Promise!Single(Promise!Choice)
    BY <1>1, <2>2, ChoiceIs DEF Promise!Single
  <2>4. QED
    BY <1>1, <1>3, <2>1, <2>3, NotChosen DEF IInv, RInv, States
<1>8. CASE suitableCount = 1
  <2>1. pc' = "done" /\ answer' = atom
    BY <1>8 DEF Matched, Succeed
  <2>2. M = {params} /\ params \in Index /\ atom = found.list[params]
    BY <1>3, <1>6, <1>8 DEF Counts
  <2>3. Promise!Choice = {C(params)} /\ C(params).fun = atom
    BY <1>1, <2>2, ChoiceIs DEF C, Candidate
  <2>4. QED
    BY <1>1, <1>3, <2>1, <2>3, Chosen DEF IInv, RInv, States
<1>9. CASE suitableCount \notin {0, 1}
  <2>1. pc' = (IF perfectMatch = 0 THEN "score" ELSE "choose") /\ UNCHANGED answer
    BY <1>9 DEF Matched, outcome
  <2>2. Several
    BY <1>6, <1>9 DEF Several, Counts
  <2>3. Assessed'
    BY <1>2, <1>3, <1>6, <2>2 DEF Assessed
  <2>4. CASE perfectMatch = 0
    <3>1. perfectMatchCount = 0 /\ P = {}
      <4>1. 0 \notin P
        BY <1>3
      <4>2. QED
        BY <1>6, <2>4, <4>1 DEF Counts
    <3>2. Before(M, r)' = {}
      <4>1. Before(M, 1) = {}
        BY <1>3, BeforeNone
      <4>2. QED
        BY <1>2, <1>3, <4>1 DEF Before
    <3>3. 1 \in 1 .. Len(found.list) + 1
      BY <1>3
    <3>4. Scoring'
      BY <1>2, <1>3, <1>6, <2>4, <3>1, <3>2, <3>3 DEF Scoring
    <3>5. QED
      BY <1>1, <1>3, <2>1, <2>3, <2>4, <3>4 DEF IInv, RInv, States
  <2>5. CASE perfectMatch # 0
    <3>1. perfectMatchCount # 0 /\ perfectMatch \in P /\ P # {} /\ P \subseteq M
      BY <1>3, <1>6, <2>5
    <3>2. Choosing
      BY <1>6, <3>1 DEF Choosing, Undecided, Counts
    <3>3. Choosing'
      BY <1>2, <1>3, <3>2 DEF Choosing
    <3>4. QED
      BY <1>1, <1>3, <2>1, <2>3, <2>5, <3>3 DEF IInv, RInv, States
  <2>6. QED
    BY <2>4, <2>5
<1>10. QED
  BY <1>7, <1>8, <1>9

LEMMA ScoreStep ==
  ASSUME IInv, Score
  PROVE  IInv' /\ (Promise!Resolve \/ UNCHANGED << candidates, answer >>)
<1>1. /\ pc = "score" /\ answer = "pending" /\ Asked /\ Assessed /\ Scoring
      /\ r <= Len(found.list) /\ Given
  BY DEF Score, More, IInv, RInv
<1>2. UNCHANGED << environment, found, input, pc, answer, suitable, scores,
                   perfectMatch, perfectMatchCount, successCount >> /\ r' = r + 1
  BY DEF Score, solving, outcome
<1>3. /\ Given' /\ Asked' /\ UNCHANGED candidates
      /\ Len(found.list) \in Nat /\ M \subseteq Index
      /\ Index = 1 .. Len(found.list)
      /\ UNCHANGED << Index, M, P, B, Several, Undecided >> /\ \A i : V(i)' = V(i)
  BY <1>1, <1>2, Resolving
<1>4. r \in Index /\ r' \in 1 .. Len(found.list) + 1 /\ r \in Int
  BY <1>1, <1>2, <1>3 DEF Scoring
<1>5. Assessed'
  BY <1>1, <1>2, <1>3 DEF Assessed
<1>6. Before(M, r)' = IF r \in M THEN Before(M, r) \cup {r} ELSE Before(M, r)
  <2>1. M \subseteq Int
    BY <1>3
  <2>2. Before(M, r)' = Before(M, r + 1)
    BY <1>2, <1>3 DEF Before
  <2>3. QED
    BY <1>4, <2>1, <2>2, BeforeNext
<1>7. r \notin Before(M, r) /\ suitable[r] <=> r \in M
  BY <1>1, <1>4 DEF Before, Assessed
<1>8. \A i \in M : V(i).score \in Nat
  BY <1>1, <1>3, ValidationTypes
<1>9. Scoring'
  <2>1. CASE r \notin M
    <3>1. UNCHANGED << best, bestIndex, unique >>
      BY <1>1, <1>4, <2>1 DEF Score, Assessed
    <3>2. Before(M, r)' = Before(M, r)
      BY <1>6, <2>1
    <3>3. QED
      BY <1>1, <1>2, <1>3, <1>4, <3>1, <3>2 DEF Scoring
  <2>2. CASE r \in M
    <3>1. scores[r] = V(r).score /\ V(r).score \in Nat /\ best \in Nat
      BY <1>1, <1>8, <2>2 DEF Assessed, Scoring
    <3>2. /\ unique' = StillUnique(V(r).score)
          /\ IF V(r).score > best THEN best' = V(r).score /\ bestIndex' = r
             ELSE UNCHANGED << best, bestIndex >>
      BY <1>1, <1>4, <2>2, <3>1 DEF Score, Assessed
    <3>3. Before(M, r)' = Before(M, r) \cup {r} /\ Before(M, r) \subseteq M /\ r \notin Before(M, r)
      BY <1>4, <1>6, <2>2 DEF Before
    <3>4. \A i \in Before(M, r) : V(i).score \in Nat /\ V(i).score <= best
      BY <1>1, <1>8, <3>3 DEF Scoring
    <3>5. CASE V(r).score > best
      <4>1. /\ best' = V(r).score /\ bestIndex' = r /\ best' # 0
            /\ unique'
        <5>1. best' = V(r).score /\ bestIndex' = r /\ best' # 0
          BY <3>1, <3>2, <3>5
        <5>2. unique'
          BY <3>2, <3>5, Zenon DEF StillUnique
        <5>3. QED
          BY <5>1, <5>2
      <4>2. \A i \in Before(M, r) : V(i).score < V(r).score
        BY <3>1, <3>4, <3>5
      <4>3. \A i \in Before(M, r) \cup {r} : V(i).score <= best' /\ (i # r => V(i).score < best')
        BY <3>1, <3>4, <4>1, <4>2
      <4>4. /\ best' \in Nat /\ r \in Before(M, r)'
            /\ \A i \in Before(M, r)' : V(i)'.score <= best' /\ (i # bestIndex' => V(i)'.score < best')
            /\ V(bestIndex)'.score = best'
        BY <1>3, <3>1, <3>3, <4>1, <4>3
      <4>5. QED
        BY <1>1, <1>2, <1>3, <1>4, <4>1, <4>4 DEF Scoring
    <3>6. CASE ~ V(r).score > best
      <4>1. /\ UNCHANGED << best, bestIndex >> /\ V(r).score <= best
            /\ unique' = (V(r).score # best /\ unique)
        BY <3>1, <3>2, <3>6 DEF StillUnique
      <4>2. \A i \in Before(M, r)' : V(i)'.score <= best'
        BY <1>3, <3>3, <3>4, <4>1
      <4>3. ASSUME best # 0
            PROVE  /\ bestIndex' \in Before(M, r)' /\ V(bestIndex)'.score = best'
                   /\ unique' <=> \A i \in Before(M, r)' : i # bestIndex' => V(i)'.score < best'
        <5>1. /\ bestIndex \in Before(M, r) /\ V(bestIndex).score = best
              /\ unique <=> \A i \in Before(M, r) : i # bestIndex => V(i).score < best
          BY <1>1, <4>3 DEF Scoring
        <5>2. bestIndex # r
          BY <3>3, <5>1
        <5>3. V(r).score # best <=> V(r).score < best
          BY <3>1, <4>1
        <5>4. unique' <=> \A i \in Before(M, r) \cup {r} : i # bestIndex => V(i).score < best
          BY <4>1, <5>1, <5>2, <5>3
        <5>5. QED
          BY <1>3, <3>3, <4>1, <5>1, <5>4
      <4>4. QED
        BY <1>1, <1>2, <1>3, <1>4, <4>1, <4>2, <4>3 DEF Scoring
    <3>7. QED
      BY <3>5, <3>6
  <2>3. QED
    BY <2>1, <2>2
<1>10. QED
  BY <1>1, <1>2, <1>3, <1>5, <1>9 DEF IInv, RInv

LEMMA ScoredStep ==
  ASSUME IInv, Scored
  PROVE  IInv' /\ (Promise!Resolve \/ UNCHANGED << candidates, answer >>)
<1>1. /\ pc = "score" /\ answer = "pending" /\ Asked /\ Assessed /\ Scoring
      /\ ~ r <= Len(found.list) /\ Given
  BY DEF Scored, More, IInv, RInv
<1>2. UNCHANGED << environment, found, input, answer, suitable, scores, successCount >> /\ pc' = "choose"
  BY DEF Scored, solving, outcome
<1>3. /\ Given' /\ Asked' /\ UNCHANGED candidates
      /\ Len(found.list) \in Nat /\ M \subseteq Index /\ P \subseteq M /\ B \subseteq M
      /\ Index = 1 .. Len(found.list)
      /\ UNCHANGED << Index, M, P, B, Several, Undecided >> /\ \A i : V(i)' = V(i)
  BY <1>1, <1>2, Resolving
<1>4. Assessed'
  BY <1>1, <1>2, <1>3 DEF Assessed
<1>5. Before(M, r) = M
  <2>1. r = Len(found.list) + 1
    BY <1>1, <1>3 DEF Scoring
  <2>2. QED
    BY <1>3, <2>1, BeforeAll
<1>6. /\ P = {} /\ best \in Nat /\ perfectMatchCount = 0
      /\ \A i \in M : V(i).score \in Nat /\ V(i).score <= best
      /\ best # 0 => /\ bestIndex \in M /\ V(bestIndex).score = best
                     /\ unique <=> \A i \in M : i # bestIndex => V(i).score < best
  <2>1. \A i \in M : V(i).score \in Nat
    BY <1>1, <1>3, ValidationTypes
  <2>2. QED
    BY <1>1, <1>5, <2>1 DEF Scoring
<1>7. CASE best # 0 /\ unique
  <2>1. B = {bestIndex}
    <3>1. bestIndex \in B
      BY <1>6, <1>7 DEF B
    <3>2. ASSUME NEW i \in M, i # bestIndex PROVE i \notin B
      <4>1. ~ V(bestIndex).score < V(i).score
        BY <1>6, <1>7, <3>2
      <4>2. bestIndex \in M \ {i}
        BY <1>6, <1>7, <3>2
      <4>3. QED
        BY <4>1, <4>2 DEF B
    <3>3. QED
      BY <1>3, <3>1, <3>2
  <2>2. perfectMatch' = bestIndex /\ perfectMatchCount' = 1 /\ bestIndex \in M
    BY <1>6, <1>7 DEF Scored
  <2>3. Choosing'
    BY <1>3, <1>6, <2>1, <2>2 DEF Choosing
  <2>4. QED
    BY <1>1, <1>2, <1>3, <1>4, <2>3 DEF IInv, RInv, States
<1>8. CASE ~ (best # 0 /\ unique)
  <2>1. B = {}
    <3>1. ASSUME NEW i \in B PROVE FALSE
      <4>1. /\ i \in M /\ V(i).score > 0 /\ V(i).score <= best /\ V(i).score \in Nat
            /\ \A j \in M \ {i} : V(j).score < V(i).score
        BY <1>6, <3>1 DEF B
      <4>2. best # 0
        BY <1>6, <4>1
      <4>3. bestIndex = i
        BY <1>6, <4>1, <4>2
      <4>4. unique
        BY <1>6, <4>1, <4>2, <4>3
      <4>5. QED
        BY <1>8, <4>2, <4>4
    <3>2. QED
      BY <3>1
  <2>2. perfectMatchCount' # 1
    BY <1>6, <1>8 DEF Scored
  <2>3. Undecided
    BY <1>6, <2>1 DEF Undecided
  <2>4. Choosing'
    BY <1>3, <2>2, <2>3 DEF Choosing
  <2>5. QED
    BY <1>1, <1>2, <1>3, <1>4, <2>4 DEF IInv, RInv, States
<1>9. QED
  BY <1>7, <1>8

LEMMA ChooseStep ==
  ASSUME IInv, Choose
  PROVE  IInv' /\ (Promise!Resolve \/ UNCHANGED << candidates, answer >>)
<1>1. pc = "choose" /\ answer = "pending" /\ Asked /\ Assessed /\ Choosing /\ Given
  BY DEF Choose, IInv, RInv
<1>2. UNCHANGED << environment, found, input, suitable, successCount >> /\ r' = 1
  BY DEF Choose, ranking
<1>3. /\ Given' /\ Asked' /\ UNCHANGED candidates
      /\ Len(found.list) \in Nat /\ M \subseteq Index /\ W \subseteq M
      /\ Index = 1 .. Len(found.list)
      /\ UNCHANGED << Index, M, W, Several, Undecided >>
  BY <1>1, <1>2, Resolving
<1>4. CASE perfectMatchCount = 1
  <2>1. answer' = found.list[perfectMatch] /\ pc' = "done"
    BY <1>4 DEF Choose, Succeed
  <2>2. Promise!Choice = {C(perfectMatch)}
    BY <1>1, <1>3, <1>4, ChoiceIs DEF Choosing, Assessed
  <2>3. C(perfectMatch).fun = found.list[perfectMatch]
    BY DEF C, Candidate
  <2>4. QED
    BY <1>1, <1>3, <2>1, <2>2, <2>3, Chosen DEF IInv, RInv, States
<1>5. CASE perfectMatchCount # 1
  <2>1. pc' = "instanciate" /\ UNCHANGED answer
    BY <1>5 DEF Choose, outcome
  <2>2. Before(W, r)' = {}
    <3>1. Before(W, 1) = {}
      BY <1>3, BeforeNone
    <3>2. QED
      BY <1>2, <1>3, <3>1 DEF Before
  <2>3. successCount' = 0 /\ Counts(0, {})
    BY <1>1, <1>2 DEF Assessed, Counts
  <2>4. Counts(successCount, Before(W, r))'
    BY <2>2, <2>3 DEF Counts
  <2>5. Undecided
    BY <1>1, <1>5 DEF Choosing
  <2>6. 1 \in 1 .. Len(found.list) + 1
    BY <1>3
  <2>7. Instanciating'
    BY <1>2, <1>3, <2>3, <2>4, <2>5, <2>6 DEF Instanciating
  <2>8. /\ suitable' \in [Index' -> BOOLEAN] /\ \A i \in Index' : suitable'[i] <=> i \in M'
        /\ Several'
    BY <1>1, <1>2, <1>3 DEF Assessed
  <2>9. QED
    BY <1>1, <1>3, <2>1, <2>7, <2>8 DEF IInv, RInv, States
<1>6. QED
  BY <1>4, <1>5

LEMMA InstanciateStep ==
  ASSUME IInv, Instanciate
  PROVE  IInv' /\ (Promise!Resolve \/ UNCHANGED << candidates, answer >>)
<1>1. /\ pc = "instanciate" /\ answer = "pending" /\ Asked /\ Instanciating
      /\ suitable \in [Index -> BOOLEAN] /\ (\A i \in Index : suitable[i] <=> i \in M) /\ Several
      /\ r <= Len(found.list) /\ Given
  BY DEF Instanciate, More, IInv, RInv
<1>2. UNCHANGED << environment, found, input, pc, answer, suitable >> /\ r' = r + 1
  BY DEF Instanciate, outcome
<1>3. /\ Given' /\ Asked' /\ UNCHANGED candidates
      /\ Len(found.list) \in Nat /\ M \subseteq Index /\ W \subseteq M
      /\ Index = 1 .. Len(found.list)
      /\ UNCHANGED << Index, M, W, Several, Undecided >>
  BY <1>1, <1>2, Resolving
<1>4. r \in Index /\ r' \in 1 .. Len(found.list) + 1 /\ r \in Int
  BY <1>1, <1>2, <1>3 DEF Instanciating
<1>5. (suitable[r] /\ found.list[r] \in works) <=> r \in W
  BY <1>1, <1>4 DEF W
<1>6. /\ Before(W, r)' = IF r \in W THEN Before(W, r) \cup {r} ELSE Before(W, r)
      /\ r \notin Before(W, r)
  <2>1. W \subseteq Int
    BY <1>3
  <2>2. Before(W, r)' = Before(W, r + 1)
    BY <1>2, <1>3 DEF Before
  <2>3. r \notin Before(W, r)
    BY <1>4 DEF Before
  <2>4. QED
    BY <1>4, <2>1, <2>2, <2>3, BeforeNext
<1>7. /\ Counts(successCount, Before(W, r))'
      /\ (successCount # 0 => params \in Before(W, r) /\ atom = found.list[params])'
  <2>1. CASE r \in W
    <3>1. successCount' = successCount + 1 /\ atom' = found.list[r] /\ params' = r
      BY <1>5, <2>1 DEF Instanciate
    <3>2. Counts(successCount + 1, Before(W, r) \cup {r})
      BY <1>1, <1>6, CountNext DEF Instanciating
    <3>3. QED
      BY <1>2, <1>6, <2>1, <3>1, <3>2 DEF Counts
  <2>2. CASE r \notin W
    <3>1. UNCHANGED << successCount, atom, params >>
      BY <1>5, <2>2 DEF Instanciate
    <3>2. QED
      BY <1>1, <1>2, <1>6, <2>2, <3>1 DEF Counts, Instanciating
  <2>3. QED
    BY <2>1, <2>2
<1>8. Instanciating'
  BY <1>1, <1>2, <1>3, <1>4, <1>7 DEF Instanciating
<1>9. QED
  BY <1>1, <1>2, <1>3, <1>8 DEF IInv, RInv

LEMMA InstanciatedStep ==
  ASSUME IInv, Instanciated
  PROVE  IInv' /\ (Promise!Resolve \/ UNCHANGED << candidates, answer >>)
<1>1. /\ pc = "instanciate" /\ answer = "pending" /\ Asked /\ Instanciating /\ Several
      /\ ~ r <= Len(found.list) /\ Given
  BY DEF Instanciated, More, IInv, RInv
<1>2. UNCHANGED << environment, found, input >>
  BY DEF Instanciated
<1>3. /\ Given' /\ UNCHANGED candidates
      /\ Len(found.list) \in Nat /\ M \subseteq Index /\ W \subseteq M
      /\ Index = 1 .. Len(found.list)
  BY <1>1, <1>2, Resolving
<1>4. Before(W, r) = W
  <2>1. r = Len(found.list) + 1
    BY <1>1, <1>3 DEF Instanciating
  <2>2. QED
    BY <1>3, <2>1, BeforeAll
<1>5. /\ Counts(successCount, W)
      /\ successCount # 0 => params \in W /\ atom = found.list[params]
  BY <1>1, <1>4 DEF Instanciating
<1>6. Promise!Choice = {C(i) : i \in W}
  BY <1>1, ChoiceIs DEF Instanciating
<1>7. CASE successCount = 1
  <2>1. pc' = "done" /\ answer' = atom
    BY <1>7 DEF Instanciated, Succeed
  <2>2. W = {params} /\ atom = found.list[params]
    BY <1>5, <1>7 DEF Counts
  <2>3. Promise!Choice = {C(params)} /\ C(params).fun = atom
    BY <1>6, <2>2 DEF C, Candidate
  <2>4. QED
    BY <1>1, <1>3, <2>1, <2>3, Chosen DEF IInv, RInv, States
<1>8. CASE successCount # 1
  <2>1. pc' = "done" /\ answer' = "failed"
    BY <1>8 DEF Instanciated, Fail
  <2>2. ~ \E i \in W : W = {i}
    BY <1>5, <1>8 DEF Counts
  <2>3. Promise!Single({C(i) : i \in W}) <=> \E i \in W : W = {i}
    <3>1. W \subseteq Index
      BY <1>3
    <3>2. QED
      BY <1>1, <3>1, Standing
  <2>4. ~ Promise!Single(Promise!Choice)
    BY <1>6, <2>2, <2>3
  <2>5. QED
    BY <1>1, <1>3, <2>1, <2>4, NotChosen DEF IInv, RInv, States
<1>9. QED
  BY <1>7, <1>8

LEMMA StutterStep ==
  ASSUME IInv, UNCHANGED vars
  PROVE  IInv' /\ UNCHANGED << candidates, answer >>
<1>1. UNCHANGED << environment, found, input, pc, result, r, suitable, scores, parameters,
                   suitableCount, atom, params, perfectMatch, perfectMatchCount, best, bestIndex,
                   unique, successCount, answer >>
  BY DEF vars, solving, ranking, outcome
<1>2. Given' /\ UNCHANGED << candidates, Found >>
  BY <1>1, GivenKept DEF IInv, environment
<1>3. UNCHANGED << Index, M, P, B, W, Several, Undecided, Asked >> /\ \A i : V(i)' = V(i)
  BY <1>1, Kept DEF IInv
<1>4. UNCHANGED << Untouched, Matching, Assessed, Scoring, Choosing, Instanciating >>
  BY <1>1, <1>3 DEF Untouched, Matching, Assessed, Scoring, Choosing, Instanciating, Before, Counts
<1>5. QED
  BY <1>1, <1>2, <1>3, <1>4 DEF IInv, RInv

-----------------------------------------------------------------------------
(* The names.  What the recursive functions of NameLookup compute is shown *)
(* with sets of naturals that have a least element, from the               *)
(* well-foundedness of <: along the declarations, and from the parents of  *)
(* an atom, which have lower ids, down to the atom.                        *)
LEMMA Least ==
  ASSUME NEW S, S \subseteq Nat, S # {}
  PROVE  \E m \in S : \A k \in S : m <= k
<1>. DEFINE R == OpToRel(<, Nat)
<1>1. IsWellFoundedOn(R, Nat)
  BY NatLessThanWellFounded
<1>2. \A x, y \in Nat : << y, x >> \in R <=> y < x
  BY DEF OpToRel
<1>. HIDE DEF R
<1>3. PICK x \in S : \A y \in S : ~ << y, x >> \in R
  BY <1>1, WFMin
<1>4. ASSUME NEW y \in S PROVE x <= y
  <2>1. x \in Nat /\ y \in Nat /\ ~ (y < x)
    BY <1>2, <1>3
  <2>. QED  BY <2>1
<1>. QED  BY <1>4

LEMMA Induct ==
  ASSUME NEW S, 0 \in S, \A n \in Nat : n \in S => n + 1 \in S
  PROVE  Nat \subseteq S
<1>. DEFINE T == {n \in Nat : n \notin S}
<1>. SUFFICES ASSUME T # {} PROVE FALSE
  OBVIOUS
<1>1. PICK m \in T : \A k \in T : m <= k
  BY Least
<1>2. m \in Nat /\ m # 0 /\ m \notin S
  OBVIOUS
<1>3. m - 1 \in Nat /\ ~ (m <= m - 1) /\ (m - 1) + 1 = m
  BY <1>2
<1>4. m - 1 \in S
  BY <1>1, <1>3
<1>. QED  BY <1>2, <1>3, <1>4

Along(f, n, base, step) ==
  f = [i \in 0 .. n |-> IF i = 0 THEN base ELSE step[i, f[i - 1]]]

LEMMA AlongIndexes ==
  ASSUME NEW n \in Nat, NEW Lists, NEW base \in Lists, NEW step \in [(1 .. n) \X Lists -> Lists]
  PROVE  \E f \in [0 .. n -> Lists] : Along(f, n, base, step)
<1>. DEFINE S == {m \in Nat : m <= n => \E f \in [0 .. m -> Lists] : Along(f, m, base, step)}
<1>1. 0 \in S
  <2>. DEFINE f == [i \in 0 .. 0 |-> base]
  <2>1. f \in [0 .. 0 -> Lists] /\ \A i \in 0 .. 0 : i = 0
    OBVIOUS
  <2>2. Along(f, 0, base, step)
    BY <2>1 DEF Along
  <2>. QED  BY <2>1, <2>2
<1>2. ASSUME NEW m \in Nat, m \in S PROVE m + 1 \in S
  <2>. SUFFICES ASSUME m + 1 <= n PROVE \E f \in [0 .. m + 1 -> Lists] : Along(f, m + 1, base, step)
    OBVIOUS
  <2>1. PICK f \in [0 .. m -> Lists] : Along(f, m, base, step)
    BY <1>2
  <2>. DEFINE g == [i \in 0 .. m + 1 |-> IF i <= m THEN f[i] ELSE step[m + 1, f[m]]]
              e(i) == IF i = 0 THEN base ELSE step[i, g[i - 1]]
  <2>2. f[m] \in Lists /\ m + 1 \in 1 .. n
    OBVIOUS
  <2>3. g \in [0 .. m + 1 -> Lists]
    <3>1. step[m + 1, f[m]] \in Lists
      BY <2>2
    <3>2. \A i \in 0 .. m + 1 : i <= m => f[i] \in Lists
      OBVIOUS
    <3>. QED  BY <3>1, <3>2
  <2>4. ASSUME NEW i \in 0 .. m + 1 PROVE g[i] = e(i)
    <3>1. CASE i = 0
      <4>1. f[0] = base
        <5>1. 0 \in 0 .. m
          OBVIOUS
        <5>. QED  BY <2>1, <5>1 DEF Along
      <4>. QED  BY <3>1, <4>1
    <3>2. CASE i # 0 /\ i <= m
      <4>1. i - 1 \in 0 .. m + 1 /\ i - 1 <= m /\ i \in 0 .. m
        BY <3>2
      <4>2. f[i] = step[i, f[i - 1]]
        BY <2>1, <3>2, <4>1 DEF Along
      <4>. QED  BY <3>2, <4>1, <4>2
    <3>3. CASE i = m + 1
      <4>1. m \in 0 .. m + 1 /\ m <= m /\ ~ (i <= m) /\ i # 0 /\ i - 1 = m
        BY <3>3
      <4>2. g[m] = f[m] /\ g[i] = step[m + 1, f[m]]
        BY <3>3, <4>1
      <4>. QED  BY <3>3, <4>1, <4>2
    <3>4. i = 0 \/ (i # 0 /\ i <= m) \/ i = m + 1
      OBVIOUS
    <3>. QED  BY <3>1, <3>2, <3>3, <3>4
  <2>5. g = [i \in 0 .. m + 1 |-> e(i)]
    <3>1. g = [i \in 0 .. m + 1 |-> g[i]]
      OBVIOUS
    <3>. HIDE DEF g
    <3>. QED  BY <2>4, <3>1
  <2>6. Along(g, m + 1, base, step)
    <3>. HIDE DEF g
    <3>. QED  BY <2>5 DEF Along
  <2>. QED  BY <2>3, <2>6
<1>. HIDE DEF S
<1>3. n \in S
  BY <1>1, <1>2, Induct
<1>. QED  BY <1>3 DEF S

Below(n) == {a \in Atoms : Program[a].id < n}

Down(f, D, base, step) ==
  f = [a \in D |-> IF parentScope(a) = NoAtom THEN base[a] ELSE step[a, f[parentScope(a)]]]

LEMMA BelowParent ==
  ASSUME NEW n \in Nat, NEW a \in Below(n), parentScope(a) # NoAtom
  PROVE  parentScope(a) \in Below(n)
BY ParentAssumption DEF Below

LEMMA DownUnique ==
  ASSUME NEW m \in Nat, NEW n \in Nat, NEW k \in Nat, k <= m, k <= n,
         NEW base, NEW step,
         NEW f, Down(f, Below(m), base, step), NEW g, Down(g, Below(n), base, step)
  PROVE  \A a \in Below(k) : f[a] = g[a]
<1>. DEFINE S == {i \in Nat : i <= k => \A a \in Below(i) : f[a] = g[a]}
<1>1. 0 \in S
  BY ParentAssumption DEF Below
<1>2. ASSUME NEW i \in Nat, i \in S PROVE i + 1 \in S
  <2>. SUFFICES ASSUME i + 1 <= k, NEW a \in Below(i + 1) PROVE f[a] = g[a]
    OBVIOUS
  <2>1. a \in Below(m) /\ a \in Below(n)
    BY ParentAssumption DEF Below
  <2>2. parentScope(a) # NoAtom => parentScope(a) \in Below(i)
    BY ParentAssumption DEF Below
  <2>3. parentScope(a) # NoAtom => f[parentScope(a)] = g[parentScope(a)]
    BY <1>2, <2>2
  <2>4. f[a] = IF parentScope(a) = NoAtom THEN base[a] ELSE step[a, f[parentScope(a)]]
    BY <2>1 DEF Down
  <2>5. g[a] = IF parentScope(a) = NoAtom THEN base[a] ELSE step[a, g[parentScope(a)]]
    BY <2>1 DEF Down
  <2>. QED  BY <2>3, <2>4, <2>5
<1>. HIDE DEF S
<1>3. k \in S
  BY <1>1, <1>2, Induct
<1>. QED  BY <1>3 DEF S

LEMMA DownBelow ==
  ASSUME NEW n \in Nat, NEW Lists, NEW base \in [Atoms -> Lists], NEW step \in [Atoms \X Lists -> Lists]
  PROVE  \E f \in [Below(n) -> Lists] : Down(f, Below(n), base, step)
<1>. DEFINE S == {m \in Nat : \E f \in [Below(m) -> Lists] : Down(f, Below(m), base, step)}
<1>1. 0 \in S
  <2>. DEFINE f == [a \in Below(0) |-> base[a]]
  <2>1. Below(0) = {}
    BY ParentAssumption DEF Below
  <2>2. f \in [Below(0) -> Lists] /\ Down(f, Below(0), base, step)
    BY <2>1 DEF Down
  <2>. QED  BY <2>2
<1>2. ASSUME NEW m \in Nat, m \in S PROVE m + 1 \in S
  <2>1. PICK f \in [Below(m) -> Lists] : Down(f, Below(m), base, step)
    BY <1>2
  <2>. DEFINE e(h, a) == IF parentScope(a) = NoAtom THEN base[a] ELSE step[a, h[parentScope(a)]]
              g == [a \in Below(m + 1) |-> e(f, a)]
  <2>2. ASSUME NEW a \in Below(m + 1)
        PROVE  /\ a \in Atoms
               /\ parentScope(a) # NoAtom =>
                    parentScope(a) \in Below(m) /\ parentScope(a) \in Below(m + 1)
    BY ParentAssumption DEF Below
  <2>3. ASSUME NEW a \in Below(m + 1) PROVE g[a] \in Lists
    <3>1. CASE parentScope(a) = NoAtom
      BY <2>2, <3>1
    <3>2. CASE parentScope(a) # NoAtom
      <4>1. f[parentScope(a)] \in Lists
        BY <2>2, <3>2
      <4>. QED  BY <2>2, <3>2, <4>1
    <3>. QED  BY <3>1, <3>2
  <2>4. ASSUME NEW a \in Below(m) PROVE f[a] = e(f, a) /\ a \in Below(m + 1)
    <3>1. a \in Below(m + 1)
      BY ParentAssumption DEF Below
    <3>. QED  BY <2>1, <3>1 DEF Down
  <2>5. ASSUME NEW a \in Below(m) PROVE g[a] = f[a]
    BY <2>4
  <2>6. ASSUME NEW a \in Below(m + 1) PROVE e(f, a) = e(g, a)
    <3>1. parentScope(a) # NoAtom => f[parentScope(a)] = g[parentScope(a)]
      BY <2>2, <2>5
    <3>. HIDE DEF g
    <3>. QED  BY <3>1
  <2>7. Down(g, Below(m + 1), base, step)
    <3>1. g = [a \in Below(m + 1) |-> e(g, a)]
      BY <2>6
    <3>. HIDE DEF g
    <3>. QED  BY <3>1 DEF Down
  <2>8. g \in [Below(m + 1) -> Lists]
    BY <2>3
  <2>. HIDE DEF g
  <2>9. \E h \in [Below(m + 1) -> Lists] : Down(h, Below(m + 1), base, step)
    BY <2>7, <2>8
  <2>10. m + 1 \in Nat
    OBVIOUS
  <2>. QED  BY <2>9, <2>10
<1>. HIDE DEF S
<1>3. n \in S
  BY <1>1, <1>2, Induct
<1>. QED  BY <1>3 DEF S

LEMMA AlongParents ==
  ASSUME NEW Lists, NEW base \in [Atoms -> Lists], NEW step \in [Atoms \X Lists -> Lists]
  PROVE  \E f \in [Atoms -> Lists] : Down(f, Atoms, base, step)
<1>. DEFINE h(n) == CHOOSE f \in [Below(n) -> Lists] : Down(f, Below(n), base, step)
            up(a) == Program[a].id + 1
            g == [a \in Atoms |-> h(up(a))[a]]
            e(f, a) == IF parentScope(a) = NoAtom THEN base[a] ELSE step[a, f[parentScope(a)]]
<1>1. ASSUME NEW n \in Nat PROVE h(n) \in [Below(n) -> Lists] /\ Down(h(n), Below(n), base, step)
  BY DownBelow
<1>2. ASSUME NEW a \in Atoms PROVE up(a) \in Nat /\ a \in Below(up(a))
  BY ParentAssumption DEF Below
<1>. HIDE DEF h, up
<1>3. g \in [Atoms -> Lists]
  <2>1. ASSUME NEW a \in Atoms PROVE h(up(a))[a] \in Lists
    BY <1>1, <1>2
  <2>. QED  BY <2>1
<1>4. ASSUME NEW a \in Atoms PROVE g[a] = e(g, a)
  <2>1. g[a] = h(up(a))[a]
    OBVIOUS
  <2>2. h(up(a))[a] = e(h(up(a)), a)
    BY <1>1, <1>2 DEF Down
  <2>3. CASE parentScope(a) = NoAtom
    BY <2>1, <2>2, <2>3
  <2>4. CASE parentScope(a) # NoAtom
    <3>. DEFINE p == parentScope(a)
    <3>1. p \in Atoms /\ up(p) \in Nat /\ up(a) \in Nat /\ up(p) <= up(a) /\ p \in Below(up(p))
      BY <1>2, <2>4, ParentAssumption DEF up
    <3>2. Down(h(up(p)), Below(up(p)), base, step) /\ Down(h(up(a)), Below(up(a)), base, step)
      BY <1>1, <3>1
    <3>. HIDE DEF p
    <3>3. h(up(p))[p] = h(up(a))[p]
      BY <3>1, <3>2, DownUnique
    <3>4. g[p] = h(up(p))[p]
      BY <3>1
    <3>. QED  BY <2>1, <2>2, <2>4, <3>3, <3>4 DEF p
  <2>. QED  BY <2>3, <2>4
<1>5. Down(g, Atoms, base, step)
  <2>1. g = [a \in Atoms |-> g[a]]
    OBVIOUS
  <2>. HIDE DEF g
  <2>2. g = [a \in Atoms |-> e(g, a)]
    BY <1>4, <2>1
  <2>. QED  BY <2>2 DEF Down
<1>. QED  BY <1>3, <1>5

(* The children found so far, by the recursive function of eachChild.      *)
Children(f, order, scope, property, name) ==
  f = [i \in 0 .. Len(order) |->
        IF i = 0 THEN << >>
        ELSE IF isChild(order[i], scope, property, name) THEN Append(f[i - 1], order[i])
        ELSE f[i - 1]]

LEMMA EachChildIs ==
  ASSUME NEW order \in Seq(Atoms), NEW scope, NEW property, NEW name
  PROVE  \E f \in [0 .. Len(order) -> Seq(Atoms)] :
           /\ Children(f, order, scope, property, name)
           /\ eachChild(order, scope, property, name) = f[Len(order)]
<1>. DEFINE n == Len(order)
            Lists == Seq(Atoms)
            is(i) == isChild(order[i], scope, property, name)
            step == [x \in (1 .. n) \X Lists |-> IF is(x[1]) THEN Append(x[2], order[x[1]]) ELSE x[2]]
            e(f, i) == IF i = 0 THEN << >> ELSE IF is(i) THEN Append(f[i - 1], order[i]) ELSE f[i - 1]
            h == CHOOSE f : f = [i \in 0 .. n |-> e(f, i)]
<1>1. n \in Nat /\ (\A i \in 1 .. n : order[i] \in Atoms) /\ << >> \in Lists
  OBVIOUS
<1>2. step \in [(1 .. n) \X Lists -> Lists]
  <2>1. ASSUME NEW x \in (1 .. n) \X Lists
        PROVE  (IF is(x[1]) THEN Append(x[2], order[x[1]]) ELSE x[2]) \in Lists
    <3>1. x[1] \in 1 .. n /\ x[2] \in Lists /\ order[x[1]] \in Atoms
      BY <1>1
    <3>. HIDE DEF is
    <3>. QED  BY <3>1
  <2>. HIDE DEF is, Lists
  <2>. QED  BY <2>1
<1>3. PICK f \in [0 .. n -> Lists] : Along(f, n, << >>, step)
  <2>. HIDE DEF step, Lists, n
  <2>. QED  BY <1>1, <1>2, AlongIndexes
<1>4. ASSUME NEW i \in 0 .. n, i # 0, NEW v \in Lists
      PROVE  step[i, v] = IF is(i) THEN Append(v, order[i]) ELSE v
  <2>1. << i, v >> \in (1 .. n) \X Lists
    BY <1>1, <1>4
  <2>. HIDE DEF is, Lists, n
  <2>. QED  BY <2>1
<1>5. ASSUME NEW g \in [0 .. n -> Lists], NEW i \in 0 .. n, i # 0 PROVE g[i - 1] \in Lists
  <2>1. i - 1 \in 0 .. n
    BY <1>1, <1>5
  <2>. HIDE DEF Lists, n
  <2>. QED  BY <1>5, <2>1
<1>6. f = [i \in 0 .. n |-> e(f, i)]
  <2>1. ASSUME NEW i \in 0 .. n PROVE (IF i = 0 THEN << >> ELSE step[i, f[i - 1]]) = e(f, i)
    <3>. HIDE DEF step, is, Lists, n
    <3>. QED  BY <1>4, <1>5
  <2>. HIDE DEF e, step, Lists, n
  <2>. QED  BY <1>3, <2>1 DEF Along
<1>7. h = [i \in 0 .. n |-> e(h, i)]
  BY <1>6
<1>8. eachChild(order, scope, property, name) = h[n]
  BY DEF eachChild
<1>9. h \in [0 .. n -> Lists]
  <2>. DEFINE S == {i \in Nat : i <= n => h[i] \in Lists}
  <2>1. 0 \in S
    <3>1. 0 \in 0 .. n
      BY <1>1
    <3>. HIDE DEF h, n, Lists, is
    <3>2. h[0] = << >>
      BY <1>7, <3>1
    <3>. QED  BY <1>1, <3>2
  <2>2. ASSUME NEW i \in Nat, i \in S PROVE i + 1 \in S
    <3>. SUFFICES ASSUME i + 1 <= n PROVE h[i + 1] \in Lists
      OBVIOUS
    <3>1. i + 1 \in 0 .. n /\ i + 1 # 0 /\ (i + 1) - 1 = i /\ i <= n /\ i + 1 \in 1 .. n
      BY <1>1
    <3>2. h[i] \in Lists /\ order[i + 1] \in Atoms
      BY <1>1, <2>2, <3>1
    <3>3. h[i + 1] = e(h, i + 1)
      <4>. HIDE DEF h, e, n
      <4>. QED  BY <1>7, <3>1
    <3>4. h[i + 1] = IF is(i + 1) THEN Append(h[i], order[i + 1]) ELSE h[i]
      <4>. HIDE DEF h, is, n
      <4>. QED  BY <3>1, <3>3
    <3>. HIDE DEF h, is
    <3>. QED  BY <3>2, <3>4
  <2>. HIDE DEF S
  <2>3. Nat \subseteq S
    BY <2>1, <2>2, Induct
  <2>4. \A i \in 0 .. n : h[i] \in Lists
    <3>. HIDE DEF h, Lists
    <3>. QED  BY <1>1, <2>3 DEF S
  <2>5. h = [i \in 0 .. n |-> h[i]]
    <3>. HIDE DEF h, e
    <3>. QED  BY <1>7
  <2>. HIDE DEF h, n, Lists
  <2>. QED  BY <2>4, <2>5
<1>10. Children(h, order, scope, property, name)
  <2>. HIDE DEF h
  <2>. QED  BY <1>7 DEF Children
<1>. HIDE DEF h
<1>. QED  BY <1>8, <1>9, <1>10

(* A scope has the children of that name, in the order of their            *)
(* declaration, each once.                                                 *)
LEMMA Listed ==
  ASSUME NEW order \in Seq(Atoms), NEW scope, NEW property, NEW name
  PROVE  /\ eachChild(order, scope, property, name) \in Seq(Atoms)
         /\ ToSet(eachChild(order, scope, property, name))
              = {a \in ToSet(order) : isChild(a, scope, property, name)}
         /\ Distinct(order) => Distinct(eachChild(order, scope, property, name))
<1>. DEFINE n == Len(order)
            is(a) == isChild(a, scope, property, name)
            Holds(s, i) ==
              /\ \A k \in 1 .. Len(s) : \E j \in 1 .. i : s[k] = order[j] /\ is(order[j])
              /\ \A j \in 1 .. i : is(order[j]) => \E k \in 1 .. Len(s) : s[k] = order[j]
              /\ Distinct(order) => Distinct(s)
<1>1. PICK f \in [0 .. n -> Seq(Atoms)] :
        /\ Children(f, order, scope, property, name)
        /\ eachChild(order, scope, property, name) = f[n]
  BY EachChildIs
<1>2. n \in Nat /\ \A i \in 1 .. n : order[i] \in Atoms
  OBVIOUS
<1>. DEFINE S == {i \in Nat : i <= n => Holds(f[i], i)}
<1>3. 0 \in S
  <2>1. f[0] = << >>
    <3>1. 0 \in 0 .. n
      BY <1>2
    <3>. QED  BY <1>1, <3>1 DEF Children
  <2>. QED  BY <2>1 DEF Distinct
<1>4. ASSUME NEW i \in Nat, i \in S PROVE i + 1 \in S
  <2>. SUFFICES ASSUME i + 1 <= n PROVE Holds(f[i + 1], i + 1)
    OBVIOUS
  <2>1. /\ i + 1 \in 0 .. n /\ i + 1 # 0 /\ (i + 1) - 1 = i /\ i <= n /\ i + 1 \in 1 .. n
        /\ i \in 0 .. n /\ 1 .. i + 1 = (1 .. i) \cup {i + 1} /\ ~ (i + 1 \in 1 .. i)
    BY <1>2
  <2>. DEFINE s == f[i]
              x == order[i + 1]
  <2>2. s \in Seq(Atoms) /\ x \in Atoms
    BY <1>2, <2>1
  <2>3. Holds(s, i)
    BY <1>4, <2>1
  <2>4. f[i + 1] = IF is(x) THEN Append(s, x) ELSE s
    <3>. HIDE DEF is
    <3>1. f = [j \in 0 .. n |-> IF j = 0 THEN << >>
                                ELSE IF is(order[j]) THEN Append(f[j - 1], order[j]) ELSE f[j - 1]]
      BY <1>1 DEF Children, is
    <3>. QED  BY <2>1, <3>1
  <2>5. \A j \in 1 .. i : j \in 1 .. n /\ j # i + 1
    BY <1>2, <2>1
  <2>. HIDE DEF s, x, is
  <2>6. CASE ~ is(x)
    <3>1. f[i + 1] = s
      BY <2>4, <2>6
    <3>2. \A j \in 1 .. i + 1 : is(order[j]) => j \in 1 .. i
      BY <2>1, <2>6 DEF x
    <3>. QED  BY <2>1, <2>3, <3>1, <3>2
  <2>7. CASE is(x)
    <3>. DEFINE t == Append(s, x)
                m == Len(s)
    <3>1. /\ m \in Nat /\ Len(t) = m + 1 /\ t[m + 1] = x /\ \A k \in 1 .. m : t[k] = s[k]
          /\ 1 .. m + 1 = (1 .. m) \cup {m + 1}
      BY <2>2
    <3>2. f[i + 1] = t
      BY <2>4, <2>7
    <3>. HIDE DEF t, m
    <3>3. ASSUME NEW k \in 1 .. Len(t)
          PROVE  \E j \in 1 .. i + 1 : t[k] = order[j] /\ is(order[j])
      <4>1. CASE k \in 1 .. m
        <5>1. PICK j \in 1 .. i : s[k] = order[j] /\ is(order[j])
          BY <2>3, <4>1 DEF m
        <5>. QED  BY <2>1, <3>1, <4>1, <5>1
      <4>2. CASE k = m + 1
        BY <2>1, <2>7, <3>1, <4>2 DEF x
      <4>. QED  BY <3>1, <3>3, <4>1, <4>2
    <3>4. ASSUME NEW j \in 1 .. i + 1, is(order[j])
          PROVE  \E k \in 1 .. Len(t) : t[k] = order[j]
      <4>1. CASE j \in 1 .. i
        <5>1. PICK k \in 1 .. m : s[k] = order[j]
          BY <2>3, <3>4, <4>1 DEF m
        <5>. QED  BY <3>1, <5>1
      <4>2. CASE j = i + 1
        BY <3>1, <4>2 DEF x
      <4>. QED  BY <2>1, <4>1, <4>2
    <3>5. ASSUME Distinct(order), NEW k \in 1 .. Len(t), NEW l \in 1 .. Len(t), t[k] = t[l]
          PROVE  k = l
      <4>1. ASSUME NEW p \in 1 .. m PROVE s[p] # x
        <5>1. PICK j \in 1 .. i : s[p] = order[j]
          BY <2>3, <4>1 DEF m
        <5>2. order[j] # order[i + 1]
          BY <2>1, <2>5, <3>5 DEF Distinct
        <5>. QED  BY <5>1, <5>2 DEF x
      <4>2. Distinct(s)
        BY <2>3, <3>5
      <4>3. k \in 1 .. m /\ l \in 1 .. m => k = l
        BY <3>1, <3>5, <4>2 DEF Distinct, m
      <4>. QED  BY <3>1, <3>5, <4>1, <4>3
    <3>6. Distinct(order) => Distinct(t)
      BY <3>5 DEF Distinct
    <3>. QED  BY <3>2, <3>3, <3>4, <3>6
  <2>. QED  BY <2>6, <2>7
<1>. HIDE DEF S
<1>5. n \in S
  BY <1>2, <1>3, <1>4, Induct
<1>6. Holds(f[n], n)
  BY <1>2, <1>5 DEF S
<1>7. f[n] \in Seq(Atoms)
  BY <1>2
<1>8. ToSet(f[n]) = {a \in ToSet(order) : is(a)}
  <2>1. DOMAIN f[n] = 1 .. Len(f[n]) /\ DOMAIN order = 1 .. n
    BY <1>7
  <2>. DEFINE s == f[n]
  <2>2. DOMAIN s = 1 .. Len(s)
    BY <2>1
  <2>. HIDE DEF is, n, s
  <2>3. ASSUME NEW k \in DOMAIN s PROVE \E j \in DOMAIN order : s[k] = order[j] /\ is(s[k])
    BY <1>6, <2>1, <2>2 DEF s
  <2>4. ASSUME NEW j \in DOMAIN order, is(order[j]) PROVE \E k \in DOMAIN s : s[k] = order[j]
    BY <1>6, <2>1, <2>2, <2>4 DEF s
  <2>5. ToSet(s) = {a \in ToSet(order) : is(a)}
    BY <2>3, <2>4 DEF ToSet
  <2>. QED  BY <2>5 DEF s
<1>. QED  BY <1>1, <1>6, <1>7, <1>8

(* What holds of an atom as soon as it holds of its parent holds of all.   *)
LEMMA FromParents ==
  ASSUME NEW S,
         \A a \in Atoms : parentScope(a) = NoAtom \/ parentScope(a) \in S => a \in S
  PROVE  Atoms \subseteq S
<1>. DEFINE T == {a \in Atoms : a \notin S}
            I == {Program[a].id : a \in T}
<1>. SUFFICES ASSUME T # {} PROVE FALSE
  OBVIOUS
<1>1. I \subseteq Nat /\ I # {}
  BY ParentAssumption
<1>2. PICK m \in I : \A k \in I : m <= k
  <2>. HIDE DEF I
  <2>. QED  BY <1>1, Least
<1>3. PICK a \in T : Program[a].id = m
  BY <1>2
<1>4. parentScope(a) # NoAtom /\ parentScope(a) \notin S /\ a \in Atoms
  BY <1>3
<1>5. parentScope(a) \in T /\ Program[parentScope(a)].id < m /\ Program[parentScope(a)].id \in Nat /\ m \in Nat
  BY <1>3, <1>4, ParentAssumption
<1>6. m <= Program[parentScope(a)].id
  BY <1>2, <1>5
<1>. QED  BY <1>5, <1>6

Looks(f, order, name) ==
  f = [scope \in Atoms |->
        LET local  == nameLookupOnChildren(order, scope, name)
            parent == parentScope(scope)
        IN IF parent = NoAtom THEN local
           ELSE IF AskToParentFirst(scope) THEN OrElse(f[parent], local)
           ELSE OrElse(local, f[parent])]

LEMMA LookupIs ==
  ASSUME NEW order \in Seq(Atoms), NEW name
  PROVE  \E f : /\ Looks(f, order, name)
                /\ \A from : nameLookupFromParentScope(order, from, name) = f[from]
<1>. DEFINE Lists == Seq(Atoms)
            loc(a) == nameLookupOnChildren(order, a, name)
            both(a, v) == IF AskToParentFirst(a) THEN OrElse(v, loc(a)) ELSE OrElse(loc(a), v)
            base == [a \in Atoms |-> loc(a)]
            step == [x \in Atoms \X Lists |-> both(x[1], x[2])]
            e(f, a) == IF parentScope(a) = NoAtom THEN loc(a)
                       ELSE IF AskToParentFirst(a) THEN OrElse(f[parentScope(a)], loc(a))
                       ELSE OrElse(loc(a), f[parentScope(a)])
            h == CHOOSE f : f = [a \in Atoms |-> e(f, a)]
<1>1. ASSUME NEW a \in Atoms PROVE loc(a) \in Lists
  BY Listed DEF nameLookupOnChildren
<1>2. ASSUME NEW a \in Atoms, NEW v \in Lists PROVE both(a, v) \in Lists
  <2>. HIDE DEF Lists, loc
  <2>. QED  BY <1>1 DEF OrElse
<1>3. base \in [Atoms -> Lists] /\ step \in [Atoms \X Lists -> Lists]
  <2>. HIDE DEF Lists, loc, both
  <2>1. ASSUME NEW x \in Atoms \X Lists PROVE both(x[1], x[2]) \in Lists
    BY <1>2
  <2>. QED  BY <1>1, <2>1
<1>4. PICK f \in [Atoms -> Lists] : Down(f, Atoms, base, step)
  <2>. HIDE DEF base, step, Lists
  <2>. QED  BY <1>3, AlongParents
<1>5. f = [a \in Atoms |-> e(f, a)]
  <2>1. ASSUME NEW a \in Atoms, NEW v \in Lists PROVE step[a, v] = both(a, v)
    <3>1. << a, v >> \in Atoms \X Lists
      OBVIOUS
    <3>. HIDE DEF both, Lists
    <3>. QED  BY <3>1
  <2>2. ASSUME NEW a \in Atoms
        PROVE  (IF parentScope(a) = NoAtom THEN base[a] ELSE step[a, f[parentScope(a)]]) = e(f, a)
    <3>1. parentScope(a) # NoAtom => f[parentScope(a)] \in Lists
      BY ParentAssumption
    <3>2. base[a] = loc(a)
      OBVIOUS
    <3>. HIDE DEF base, step, loc, Lists
    <3>. QED  BY <2>1, <3>1, <3>2
  <2>. HIDE DEF base, step, e, Lists
  <2>. QED  BY <1>4, <2>2 DEF Down
<1>6. h = [a \in Atoms |-> e(h, a)]
  <2>. HIDE DEF e
  <2>. QED  BY <1>5
<1>7. \A from : nameLookupFromParentScope(order, from, name) = h[from]
  BY DEF nameLookupFromParentScope
<1>8. Looks(h, order, name)
  <2>. HIDE DEF h
  <2>. QED  BY <1>6 DEF Looks
<1>. QED  BY <1>7, <1>8

Chained(f) ==
  f = [a \in Atoms |-> IF parentScope(a) = NoAtom THEN << a >> ELSE << a >> \o f[parentScope(a)]]

LEMMA AroundIs == \E f : Chained(f) /\ \A from : Around(from) = f[from]
<1>. DEFINE Lists == Seq(Atoms)
            base == [a \in Atoms |-> << a >>]
            step == [x \in Atoms \X Lists |-> << x[1] >> \o x[2]]
            e(f, a) == IF parentScope(a) = NoAtom THEN << a >> ELSE << a >> \o f[parentScope(a)]
            h == CHOOSE f : f = [a \in Atoms |-> e(f, a)]
<1>1. base \in [Atoms -> Lists] /\ step \in [Atoms \X Lists -> Lists]
  OBVIOUS
<1>2. PICK f \in [Atoms -> Lists] : Down(f, Atoms, base, step)
  <2>. HIDE DEF base, step, Lists
  <2>. QED  BY <1>1, AlongParents
<1>3. f = [a \in Atoms |-> e(f, a)]
  <2>1. ASSUME NEW a \in Atoms, NEW v \in Lists PROVE step[a, v] = << a >> \o v
    <3>1. << a, v >> \in Atoms \X Lists
      OBVIOUS
    <3>. HIDE DEF Lists
    <3>. QED  BY <3>1
  <2>2. ASSUME NEW a \in Atoms
        PROVE  (IF parentScope(a) = NoAtom THEN base[a] ELSE step[a, f[parentScope(a)]]) = e(f, a)
    <3>1. parentScope(a) # NoAtom => f[parentScope(a)] \in Lists
      BY ParentAssumption
    <3>2. base[a] = << a >>
      OBVIOUS
    <3>. HIDE DEF base, step, Lists
    <3>. QED  BY <2>1, <3>1, <3>2
  <2>. HIDE DEF base, step, e, Lists
  <2>. QED  BY <1>2, <2>2 DEF Down
<1>4. h = [a \in Atoms |-> e(h, a)]
  <2>. HIDE DEF e
  <2>. QED  BY <1>3
<1>5. \A from : Around(from) = h[from]
  BY DEF Around
<1>6. Chained(h)
  <2>. HIDE DEF h
  <2>. QED  BY <1>4 DEF Chained
<1>. QED  BY <1>5, <1>6

LEMMA AroundParent ==
  ASSUME NEW a \in Atoms
  PROVE  /\ Around(a) = IF parentScope(a) = NoAtom THEN << a >> ELSE << a >> \o Around(parentScope(a))
         /\ Around(a) \in Seq(Atoms)
<1>1. PICK f : Chained(f) /\ \A from : Around(from) = f[from]
  BY AroundIs
<1>2. ASSUME NEW b \in Atoms
      PROVE  Around(b) = IF parentScope(b) = NoAtom THEN << b >> ELSE << b >> \o Around(parentScope(b))
  BY <1>1 DEF Chained
<1>. DEFINE S == {b \in Atoms : Around(b) \in Seq(Atoms)}
<1>3. ASSUME NEW b \in Atoms, parentScope(b) = NoAtom \/ parentScope(b) \in S PROVE b \in S
  <2>1. Around(b) \in Seq(Atoms)
    <3>1. << b >> \in Seq(Atoms)
      OBVIOUS
    <3>2. CASE parentScope(b) = NoAtom
      BY <1>2, <3>1, <3>2
    <3>3. CASE parentScope(b) # NoAtom
      <4>. DEFINE c == Around(parentScope(b))
      <4>1. c \in Seq(Atoms) /\ Around(b) = << b >> \o c
        BY <1>2, <1>3, <3>3
      <4>. HIDE DEF c
      <4>. QED  BY <3>1, <4>1
    <3>. QED  BY <3>2, <3>3
  <2>. QED  BY <2>1
<1>. HIDE DEF S
<1>4. a \in S
  BY <1>3, FromParents
<1>. QED  BY <1>2, <1>4 DEF S

(* The functions a name stands for in a scope, and the scopes of a chain   *)
(* the rule keeps: the nearest class with such a function, else the        *)
(* outermost scope.                                                        *)
Named(order, scope, name) == {f \in ToSet(order) : isChild(f, scope, "no", name)}

Holding(order, name, c) == {i \in 1 .. Len(c) : Named(order, c[i], name) # {}}

Nearest(H, c)  == {i \in H : isClass(c[i]) /\ \A j \in H : isClass(c[j]) => i <= j}
Outermost(H)   == {i \in H : \A j \in H : j <= i}

Preferred(H, c) == IF \E i \in H : isClass(c[i]) THEN Nearest(H, c) ELSE Outermost(H)

Meant(order, name, c) ==
  UNION {Named(order, c[i], name) : i \in Preferred(Holding(order, name, c), c)}

Shifted(H) == {i + 1 : i \in H}

LEMMA PreferredSome ==
  ASSUME NEW n \in Nat, NEW H, H \subseteq 1 .. n, NEW c
  PROVE  Preferred(H, c) \subseteq H /\ (H # {} => Preferred(H, c) # {})
<1>1. Preferred(H, c) \subseteq H
  BY DEF Preferred, Nearest, Outermost
<1>2. ASSUME H # {} PROVE Preferred(H, c) # {}
  <2>1. CASE \E i \in H : isClass(c[i])
    <3>. DEFINE T == {i \in H : isClass(c[i])}
    <3>1. T # {} /\ T \subseteq Nat
      <4>1. H \subseteq Nat
        OBVIOUS
      <4>. QED  BY <2>1, <4>1
    <3>2. PICK m \in T : \A k \in T : m <= k
      <4>. HIDE DEF T
      <4>. QED  BY <3>1, Least
    <3>. QED  BY <2>1, <3>2 DEF Preferred, Nearest
  <2>2. CASE ~ \E i \in H : isClass(c[i])
    <3>. DEFINE T == {n - i : i \in H}
    <3>1. T # {} /\ T \subseteq Nat
      <4>1. \A i \in H : n - i \in Nat
        OBVIOUS
      <4>. QED  BY <1>2, <4>1
    <3>2. PICK m \in T : \A k \in T : m <= k
      <4>. HIDE DEF T
      <4>. QED  BY <3>1, Least
    <3>3. PICK i \in H : m = n - i
      BY <3>2
    <3>4. \A j \in H : n - i <= n - j
      BY <3>2, <3>3
    <3>5. \A j \in H : j <= i
      BY <3>4
    <3>6. i \in Outermost(H)
      BY <3>5 DEF Outermost
    <3>. QED  BY <2>2, <3>6 DEF Preferred
  <2>. QED  BY <2>1, <2>2
<1>. QED  BY <1>1, <1>2

LEMMA OutermostInside ==
  ASSUME NEW n \in Nat, NEW H, H \subseteq 1 .. n
  PROVE  Outermost(Shifted(H)) = Shifted(Outermost(H))
<1>1. \A i, j \in H : i + 1 <= j + 1 <=> i <= j
  OBVIOUS
<1>2. Outermost(Shifted(H)) \subseteq Shifted(Outermost(H))
  <2>. SUFFICES ASSUME NEW k \in Outermost(Shifted(H)) PROVE k \in Shifted(Outermost(H))
    OBVIOUS
  <2>1. PICK i \in H : k = i + 1
    BY DEF Outermost, Shifted
  <2>2. ASSUME NEW j \in H PROVE j <= i
    BY <1>1, <2>1 DEF Outermost, Shifted
  <2>. QED  BY <2>1, <2>2 DEF Outermost, Shifted
<1>3. Shifted(Outermost(H)) \subseteq Outermost(Shifted(H))
  BY <1>1 DEF Outermost, Shifted
<1>. QED  BY <1>2, <1>3

(* One scope more, inside the others.                                      *)
OneMore(c, d, n) == \A i \in 1 .. n : d[i + 1] = c[i]

PrefersInside(H, c, d) ==
  /\ Preferred(Shifted(H), d) = Shifted(Preferred(H, c))
  /\ isClass(d[1]) \/ H = {} => Preferred(Shifted(H) \cup {1}, d) = {1}
  /\ ~ isClass(d[1]) /\ H # {} => Preferred(Shifted(H) \cup {1}, d) = Shifted(Preferred(H, c))

LEMMA PreferredInside ==
  ASSUME NEW c, NEW d, NEW n \in Nat, NEW H, H \subseteq 1 .. n, OneMore(c, d, n)
  PROVE  PrefersInside(H, c, d)
<1>1. \A i \in H : i \in Nat /\ i >= 1 /\ d[i + 1] = c[i]
  BY DEF OneMore
<1>2. Nearest(Shifted(H), d) = Shifted(Nearest(H, c))
  <2>1. \A i \in H : i + 1 \in Shifted(H) /\ d[i + 1] = c[i] /\ i \in Nat
    BY <1>1 DEF Shifted
  <2>2. ASSUME NEW k \in Nearest(Shifted(H), d) PROVE k \in Shifted(Nearest(H, c))
    <3>1. PICK i \in H : k = i + 1
      BY DEF Nearest, Shifted
    <3>2. isClass(c[i])
      BY <2>1, <3>1 DEF Nearest
    <3>3. ASSUME NEW j \in H, isClass(c[j]) PROVE i <= j
      <4>1. i + 1 <= j + 1
        BY <2>1, <3>1, <3>3 DEF Nearest
      <4>. QED  BY <2>1, <4>1
    <3>. QED  BY <3>1, <3>2, <3>3 DEF Nearest, Shifted
  <2>3. ASSUME NEW k \in Shifted(Nearest(H, c)) PROVE k \in Nearest(Shifted(H), d)
    <3>1. PICK i \in H : k = i + 1 /\ isClass(c[i]) /\ \A j \in H : isClass(c[j]) => i <= j
      BY DEF Nearest, Shifted
    <3>2. ASSUME NEW l \in Shifted(H), isClass(d[l]) PROVE k <= l
      <4>1. PICK j \in H : l = j + 1
        BY DEF Shifted
      <4>2. i <= j
        BY <2>1, <3>1, <3>2, <4>1
      <4>. QED  BY <2>1, <3>1, <4>1, <4>2
    <3>3. k \in Shifted(H) /\ isClass(d[k])
      BY <2>1, <3>1
    <3>. QED  BY <3>2, <3>3 DEF Nearest
  <2>. QED  BY <2>2, <2>3
<1>3. ASSUME NEW G, G = Shifted(H) PROVE Preferred(G, d) = Shifted(Preferred(H, c))
  <2>1. (\E i \in G : isClass(d[i])) <=> \E i \in H : isClass(c[i])
    BY <1>1, <1>3 DEF Shifted
  <2>2. Nearest(G, d) = Shifted(Nearest(H, c))
    BY <1>3, <1>2
  <2>3. Outermost(G) = Shifted(Outermost(H))
    BY <1>3, OutermostInside
  <2>. QED  BY <2>1, <2>2, <2>3 DEF Preferred
<1>4. ASSUME NEW G, G = Shifted(H) \cup {1}
      PROVE  Preferred(G, d) = IF isClass(d[1]) \/ H = {} THEN {1} ELSE Shifted(Preferred(H, c))
  <2>1. \A i \in Shifted(H) : i \in Nat /\ i > 1
    BY <1>1 DEF Shifted
  <2>2. CASE isClass(d[1])
    <3>1. Nearest(G, d) = {1}
      BY <1>4, <2>1, <2>2 DEF Nearest
    <3>. QED  BY <1>4, <2>2, <3>1 DEF Preferred
  <2>3. CASE ~ isClass(d[1]) /\ H = {}
    <3>1. G = {1}
      BY <1>4, <2>3 DEF Shifted
    <3>. QED  BY <2>3, <3>1 DEF Preferred, Outermost
  <2>4. CASE ~ isClass(d[1]) /\ H # {}
    <3>1. (\E i \in G : isClass(d[i])) <=> \E i \in H : isClass(c[i])
      BY <1>1, <1>4, <2>4 DEF Shifted
    <3>2. Nearest(G, d) = Shifted(Nearest(H, c))
      <4>1. Nearest(G, d) = {i \in Shifted(H) : isClass(d[i]) /\ \A j \in Shifted(H) : isClass(d[j]) => i <= j}
        BY <1>4, <2>4 DEF Nearest
      <4>. QED  BY <1>2, <4>1 DEF Nearest
    <3>3. Outermost(G) = Shifted(Outermost(H))
      <4>1. Outermost(G) = {i \in Shifted(H) : \A j \in Shifted(H) : j <= i}
        <5>1. PICK h \in Shifted(H) : TRUE
          BY <2>4 DEF Shifted
        <5>2. h # 1 /\ ~ (h <= 1) /\ (\A i \in Shifted(H) : 1 <= i)
          BY <2>1
        <5>. QED  BY <1>4, <5>1, <5>2 DEF Outermost
      <4>. QED  BY <4>1, OutermostInside DEF Outermost
    <3>. QED  BY <2>4, <3>1, <3>2, <3>3 DEF Preferred
  <2>. QED  BY <2>2, <2>3, <2>4
<1>. QED  BY <1>3, <1>4 DEF PrefersInside

LEMMA MeantInside ==
  ASSUME NEW order, NEW name, NEW a \in Atoms, NEW c \in Seq(Atoms)
  PROVE  /\ Meant(order, name, << a >> \o c) =
              IF (isClass(a) /\ Named(order, a, name) # {}) \/ Meant(order, name, c) = {}
              THEN Named(order, a, name)
              ELSE Meant(order, name, c)
         /\ Named(order, a, name) = {} =>
              Meant(order, name, << a >> \o c) = Meant(order, name, c)
<1>. DEFINE d == << a >> \o c
            n == Len(c)
            H == Holding(order, name, c)
            G == Holding(order, name, d)
            N(b) == Named(order, b, name)
<1>1. /\ n \in Nat /\ Len(d) = n + 1 /\ d[1] = a /\ \A i \in 1 .. n : d[i + 1] = c[i]
      /\ 1 .. n + 1 = {1} \cup {i + 1 : i \in 1 .. n}
  <2>1. n \in Nat /\ Len(d) = n + 1 /\ d[1] = a /\ \A i \in 1 .. n : d[i + 1] = c[i]
    OBVIOUS
  <2>. HIDE DEF n
  <2>2. \A k \in 1 .. n + 1 : k = 1 \/ (k - 1 \in 1 .. n /\ k = (k - 1) + 1)
    BY <2>1
  <2>3. \A i \in 1 .. n : i + 1 \in 1 .. n + 1
    BY <2>1
  <2>4. 1 \in 1 .. n + 1
    BY <2>1
  <2>. QED  BY <2>1, <2>2, <2>3, <2>4
<1>2. H \subseteq 1 .. n /\ H = {i \in 1 .. n : N(c[i]) # {}} /\ G = {i \in 1 .. n + 1 : N(d[i]) # {}}
  BY <1>1 DEF Holding
<1>. HIDE DEF d, n, N, H, G
<1>3. G = IF N(a) # {} THEN Shifted(H) \cup {1} ELSE Shifted(H)
  <2>1. G = {i \in {1} : N(d[i]) # {}} \cup {i \in {j + 1 : j \in 1 .. n} : N(d[i]) # {}}
    BY <1>1, <1>2
  <2>2. {i \in {j + 1 : j \in 1 .. n} : N(d[i]) # {}} = Shifted(H)
    BY <1>1, <1>2 DEF Shifted
  <2>3. {i \in {1} : N(d[i]) # {}} = IF N(a) # {} THEN {1} ELSE {}
    BY <1>1
  <2>. QED  BY <2>1, <2>2, <2>3
<1>4. /\ N(a) = {} => Preferred(G, d) = Shifted(Preferred(H, c))
      /\ N(a) # {} => Preferred(G, d) = IF isClass(a) \/ H = {} THEN {1} ELSE Shifted(Preferred(H, c))
  <2>1. OneMore(c, d, n)
    BY <1>1 DEF OneMore
  <2>2. H \subseteq 1 .. n /\ n \in Nat
    BY <1>1, <1>2
  <2>3. PrefersInside(H, c, d)
    BY <2>1, <2>2, PreferredInside
  <2>. QED  BY <1>1, <1>3, <2>3 DEF PrefersInside
<1>5. Preferred(H, c) \subseteq H /\ (H # {} => Preferred(H, c) # {})
  BY <1>1, <1>2, PreferredSome
<1>6. /\ Meant(order, name, c) = UNION {N(c[i]) : i \in Preferred(H, c)}
      /\ Meant(order, name, d) = UNION {N(d[i]) : i \in Preferred(G, d)}
  BY DEF Meant, H, G, N
<1>7. UNION {N(d[i]) : i \in Shifted(Preferred(H, c))} = Meant(order, name, c)
  <2>1. \A i \in Preferred(H, c) : d[i + 1] = c[i]
    BY <1>1, <1>2, <1>5
  <2>2. {N(d[i]) : i \in Shifted(Preferred(H, c))} = {N(c[i]) : i \in Preferred(H, c)}
    BY <2>1 DEF Shifted
  <2>. QED  BY <1>6, <2>2
<1>8. Meant(order, name, c) = {} <=> H = {}
  <2>1. ASSUME H # {} PROVE Meant(order, name, c) # {}
    <3>1. PICK i \in Preferred(H, c) : TRUE
      BY <1>5, <2>1
    <3>2. N(c[i]) # {}
      BY <1>2, <1>5, <3>1
    <3>3. N(c[i]) \in {N(c[j]) : j \in Preferred(H, c)}
      BY <3>1
    <3>4. PICK f : f \in N(c[i])
      BY <3>2
    <3>. QED  BY <1>6, <3>3, <3>4
  <2>2. ASSUME H = {} PROVE Meant(order, name, c) = {}
    <3>1. Preferred(H, c) = {}
      BY <1>5, <2>2
    <3>. QED  BY <1>6, <3>1
  <2>. QED  BY <2>1, <2>2
<1>9. UNION {N(d[i]) : i \in {1}} = N(a)
  BY <1>1
<1>10. Meant(order, name, d) =
         IF (isClass(a) /\ N(a) # {}) \/ Meant(order, name, c) = {} THEN N(a) ELSE Meant(order, name, c)
  BY <1>4, <1>6, <1>7, <1>8, <1>9
<1>. QED  BY <1>4, <1>6, <1>7, <1>10 DEF d, N

LEMMA MeantAlone ==
  ASSUME NEW order, NEW name, NEW a
  PROVE  Meant(order, name, << a >>) = Named(order, a, name)
<1>. DEFINE c == << a >>
            H == Holding(order, name, c)
<1>1. Len(c) = 1 /\ c[1] = a /\ 1 .. 1 = {1}
  OBVIOUS
<1>2. H = IF Named(order, a, name) # {} THEN {1} ELSE {}
  <2>1. H = {i \in {1} : Named(order, c[i], name) # {}}
    BY <1>1 DEF Holding
  <2>. QED  BY <1>1, <2>1
<1>. HIDE DEF c, H
<1>3. Preferred(H, c) = H
  BY <1>2 DEF Preferred, Nearest, Outermost
<1>4. Meant(order, name, c) = UNION {Named(order, c[i], name) : i \in H}
  BY <1>3 DEF Meant, H
<1>. QED  BY <1>1, <1>2, <1>4 DEF c

LEMMA ListedNone ==
  ASSUME NEW list \in Seq(Atoms)
  PROVE  list = << >> <=> ToSet(list) = {}
<1>1. list = << >> => ToSet(list) = {}
  BY DEF ToSet
<1>2. ASSUME list # << >> PROVE ToSet(list) # {}
  <2>1. 1 \in DOMAIN list
    BY <1>2
  <2>. QED  BY <2>1 DEF ToSet
<1>. QED  BY <1>1, <1>2

LEMMA NamedListed ==
  ASSUME NEW order \in Seq(Atoms), NEW scope, NEW name
  PROVE  /\ nameLookupOnChildren(order, scope, name) \in Seq(Atoms)
         /\ ToSet(nameLookupOnChildren(order, scope, name)) = Named(order, scope, name)
         /\ nameLookupOnChildren(order, scope, name) = << >> <=> Named(order, scope, name) = {}
         /\ Distinct(order) => Distinct(nameLookupOnChildren(order, scope, name))
BY Listed, ListedNone DEF nameLookupOnChildren, Named

(* From a scope a name stands for the functions of the scope preferred     *)
(* among those around.                                                     *)
LEMMA LookupMeant ==
  ASSUME NEW order \in Seq(Atoms), NEW name, NEW from \in Atoms
  PROVE  /\ nameLookupFromParentScope(order, from, name) \in Seq(Atoms)
         /\ ToSet(nameLookupFromParentScope(order, from, name)) = Meant(order, name, Around(from))
         /\ Distinct(order) => Distinct(nameLookupFromParentScope(order, from, name))
<1>1. PICK f : /\ Looks(f, order, name)
               /\ \A a : nameLookupFromParentScope(order, a, name) = f[a]
  BY LookupIs
<1>. DEFINE Right(a) == /\ f[a] \in Seq(Atoms)
                        /\ ToSet(f[a]) = Meant(order, name, Around(a))
                        /\ Distinct(order) => Distinct(f[a])
            S == {a \in Atoms : Right(a)}
<1>2. ASSUME NEW a \in Atoms, parentScope(a) = NoAtom \/ parentScope(a) \in S PROVE a \in S
  <2>. DEFINE local == nameLookupOnChildren(order, a, name)
              parent == parentScope(a)
  <2>1. f[a] = IF parent = NoAtom THEN local
               ELSE IF AskToParentFirst(a) THEN OrElse(f[parent], local)
               ELSE OrElse(local, f[parent])
    BY <1>1 DEF Looks
  <2>2. /\ local \in Seq(Atoms) /\ ToSet(local) = Named(order, a, name)
        /\ local = << >> <=> Named(order, a, name) = {}
        /\ Distinct(order) => Distinct(local)
    BY NamedListed
  <2>. HIDE DEF local
  <2>3. CASE parent = NoAtom
    <3>1. Around(a) = << a >>
      BY <2>3, AroundParent
    <3>2. Meant(order, name, << a >>) = Named(order, a, name)
      BY MeantAlone
    <3>. QED  BY <2>1, <2>2, <2>3, <3>1, <3>2
  <2>4. CASE parent # NoAtom
    <3>. DEFINE c == Around(parent)
                above == f[parent]
    <3>1. parent \in Atoms /\ Right(parent)
      BY <1>2, <2>4
    <3>2. Around(a) = << a >> \o c /\ c \in Seq(Atoms)
      BY <2>4, <3>1, AroundParent
    <3>3. above \in Seq(Atoms) /\ ToSet(above) = Meant(order, name, c)
      BY <3>1
    <3>4. above = << >> <=> Meant(order, name, c) = {}
      BY <3>3, ListedNone
    <3>5. Distinct(order) => Distinct(above)
      BY <3>1
    <3>6. f[a] = IF AskToParentFirst(a) THEN OrElse(above, local) ELSE OrElse(local, above)
      BY <2>1, <2>4
    <3>7. Meant(order, name, << a >> \o c) =
            IF (isClass(a) /\ Named(order, a, name) # {}) \/ Meant(order, name, c) = {}
            THEN Named(order, a, name)
            ELSE Meant(order, name, c)
      <4>. HIDE DEF c
      <4>. QED  BY <3>2, MeantInside
    <3>. HIDE DEF c, above, parent
    <3>8. CASE isClass(a)
      <4>1. f[a] = IF local # << >> THEN local ELSE above
        BY <3>6, <3>8 DEF AskToParentFirst, OrElse
      <4>. QED  BY <2>2, <3>2, <3>3, <3>4, <3>5, <3>7, <3>8, <4>1
    <3>9. CASE ~ isClass(a)
      <4>1. f[a] = IF above # << >> THEN above ELSE local
        BY <3>6, <3>9 DEF AskToParentFirst, OrElse
      <4>. QED  BY <2>2, <3>2, <3>3, <3>4, <3>5, <3>7, <3>9, <4>1
    <3>. QED  BY <3>8, <3>9
  <2>. QED  BY <2>3, <2>4
<1>. HIDE DEF S
<1>3. from \in S
  BY <1>2, FromParents
<1>4. Right(from)
  BY <1>3 DEF S
<1>. QED  BY <1>1, <1>4

(* A name finds functions declared, each once; the rule of a name without  *)
(* referer.                                                                *)
LEMMA IdentifiedAs ==
  ASSUME NEW order \in Seq(Atoms), NEW c, c.frame \in Atoms
  PROVE  /\ identify(order, c).list \in Seq(Atoms)
         /\ Distinct(order) => Distinct(identify(order, c).list)
         /\ c.self = NoAtom /\ ~ identify(order, c).property =>
              ToSet(identify(order, c).list) =
                IF Named(order, c.frame, c.name) # {} THEN Named(order, c.frame, c.name)
                ELSE IF parentScope(c.frame) = NoAtom THEN {}
                ELSE Meant(order, c.name, Around(parentScope(c.frame)))
<1>. DEFINE all == identify(order, c)
            parent == parentScope(c.frame)
            own == nameLookupOnChildren(order, c.frame, c.name)
            above == IF parent = NoAtom THEN << >> ELSE nameLookupFromParentScope(order, parent, c.name)
            one == OrElse(own, above)
            props(a) == propertyLookupOnChildren(order, a, c.property, c.name)
            members == nameLookupOnChildren(order, c.self, c.name)
            OK(list) == list \in Seq(Atoms) /\ (Distinct(order) => Distinct(list))
<1>1. OK(<< >>)
  BY DEF Distinct
<1>2. \A a : OK(props(a))
  BY Listed DEF propertyLookupOnChildren
<1>3. OK(own) /\ OK(members) /\ ToSet(own) = Named(order, c.frame, c.name)
      /\ (own = << >> <=> Named(order, c.frame, c.name) = {})
  BY NamedListed
<1>4. /\ OK(above)
      /\ ToSet(above) = IF parent = NoAtom THEN {} ELSE Meant(order, c.name, Around(parent))
  <2>1. CASE parent = NoAtom
    <3>1. above = << >> /\ ToSet(<< >>) = {}
      BY <2>1 DEF ToSet
    <3>. QED  BY <1>1, <2>1, <3>1
  <2>2. CASE parent # NoAtom
    <3>1. parent \in Atoms
      BY <2>2, ParentAssumption
    <3>2. above = nameLookupFromParentScope(order, parent, c.name)
      BY <2>2
    <3>. HIDE DEF above, parent
    <3>. QED  BY <2>2, <3>1, <3>2, LookupMeant
  <2>. QED  BY <2>1, <2>2
<1>. HIDE DEF own, above, members, props
<1>5. OK(one) /\ ToSet(one) = IF own # << >> THEN ToSet(own) ELSE ToSet(above)
  BY <1>3, <1>4 DEF OrElse
<1>6. CASE c.self # NoAtom
  <2>1. all = IF members # << >> THEN [property |-> FALSE, list |-> members]
              ELSE [property |-> props(c.self) # << >>, list |-> props(c.self)]
    BY <1>6 DEF identify, IdentifyMember, members, props
  <2>. HIDE DEF all
  <2>2. OK(all.list)
    BY <1>2, <1>3, <2>1
  <2>. QED  BY <1>6, <2>2 DEF all
<1>7. CASE c.self = NoAtom
  <2>1. all = IF one # << >> \/ parent = NoAtom THEN [property |-> FALSE, list |-> one]
              ELSE [property |-> props(parent) # << >>, list |-> props(parent)]
    BY <1>7 DEF identify, IdentifyFromScope, own, above, props
  <2>2. ToSet(<< >>) = {}
    BY DEF ToSet
  <2>3. OK(all.list)
    <3>. HIDE DEF all, one, parent
    <3>. QED  BY <1>2, <1>5, <2>1
  <2>4. ~ all.property => ToSet(all.list) = ToSet(one)
    <3>. HIDE DEF all, one, parent
    <3>1. CASE one # << >> \/ parent = NoAtom
      BY <2>1, <3>1
    <3>2. CASE ~ (one # << >> \/ parent = NoAtom)
      <4>1. all.list = props(parent) /\ (all.property <=> props(parent) # << >>)
        BY <2>1, <3>2
      <4>. QED  BY <2>2, <3>2, <4>1
    <3>. QED  BY <3>1, <3>2
  <2>. HIDE DEF all, one, parent
  <2>5. ~ all.property =>
          ToSet(all.list) =
            IF Named(order, c.frame, c.name) # {} THEN Named(order, c.frame, c.name)
            ELSE IF parent = NoAtom THEN {}
            ELSE Meant(order, c.name, Around(parent))
    BY <1>3, <1>4, <1>5, <2>4
  <2>. QED  BY <2>3, <2>5 DEF all, parent
<1>. QED  BY <1>6, <1>7

(* The case that is resolved, and what Identify found.                     *)
Posed == declared \in Seq(Atoms) /\ Distinct(declared) /\ call.frame \in Atoms

Identified == Posed /\ (pc # "identify" => found = Found)

LEMMA RuleFollowed ==
  ASSUME Posed, found = Found
  PROVE  LookupAsRuled
<1>. DEFINE around  == Around(call.frame)
            has     == {i \in 1 .. Len(around) : Declares(around[i])}
            classes == {i \in has : i > 1 /\ isClass(around[i])}
            ruled   == IF 1 \in has THEN {1}
                       ELSE IF classes # {} THEN {i \in classes : \A j \in classes : i <= j}
                       ELSE {i \in has : \A j \in has : j <= i}
            N(a)    == Named(declared, a, call.name)
            parent  == parentScope(call.frame)
            asked   == {f \in ToSet(declared) : /\ Program[f].name = call.name /\ Program[f].property = "no"
                                                /\ \E i \in ruled : parentScope(f) = around[i]}
<1>. SUFFICES ASSUME call.self = NoAtom, ~ found.property PROVE ToSet(found.list) = asked
  BY DEF LookupAsRuled
<1>1. ToSet(found.list) = IF N(call.frame) # {} THEN N(call.frame)
                          ELSE IF parent = NoAtom THEN {}
                          ELSE Meant(declared, call.name, Around(parent))
  BY IdentifiedAs DEF Posed, Found
<1>2. \A a : Declares(a) <=> N(a) # {}
  BY DEF Declares, Named, isChild
<1>3. asked = UNION {N(around[i]) : i \in ruled}
  <2>. HIDE DEF ruled, around
  <2>. QED  BY DEF Named, isChild
<1>4. has = Holding(declared, call.name, around)
  <2>. HIDE DEF around
  <2>. QED  BY <1>2 DEF Holding
<1>5. around = IF parent = NoAtom THEN << call.frame >> ELSE << call.frame >> \o Around(parent)
  BY AroundParent DEF Posed
<1>6. parent # NoAtom => Around(parent) \in Seq(Atoms)
  BY AroundParent, ParentAssumption DEF Posed
<1>7. around \in Seq(Atoms) /\ 1 \in 1 .. Len(around) /\ around[1] = call.frame
  <2>. DEFINE c == Around(parent)
  <2>1. around \in Seq(Atoms)
    BY AroundParent DEF Posed
  <2>. HIDE DEF around, c, parent
  <2>2. CASE parent = NoAtom
    BY <1>5, <2>1, <2>2
  <2>3. CASE parent # NoAtom
    <3>1. around = << call.frame >> \o c /\ c \in Seq(Atoms)
      BY <1>5, <1>6, <2>3 DEF c
    <3>. QED  BY <2>1, <3>1
  <2>. QED  BY <2>2, <2>3
<1>8. CASE N(call.frame) # {}
  <2>1. 1 \in has
    <3>. HIDE DEF around
    <3>. QED  BY <1>2, <1>7, <1>8
  <2>2. ruled = {1}
    BY <2>1
  <2>. HIDE DEF ruled, around, asked, N
  <2>. QED  BY <1>1, <1>3, <1>7, <1>8, <2>2
<1>9. CASE N(call.frame) = {}
  <2>1. 1 \notin has
    <3>. HIDE DEF around
    <3>. QED  BY <1>2, <1>7, <1>9
  <2>2. has \subseteq 1 .. Len(around) /\ Len(around) \in Nat
    <3>. HIDE DEF around
    <3>. QED  BY <1>7
  <2>. HIDE DEF around
  <2>. DEFINE H == has
  <2>3. classes = {i \in H : isClass(around[i])}
    <3>1. \A i \in H : i > 1
      BY <2>1, <2>2
    <3>. QED  BY <3>1
  <2>4. ruled = Preferred(H, around)
    <3>1. ruled = IF classes # {} THEN {i \in classes : \A j \in classes : i <= j}
                  ELSE {i \in H : \A j \in H : j <= i}
      BY <2>1
    <3>. HIDE DEF ruled, has, H, classes
    <3>2. {i \in classes : \A j \in classes : i <= j} = Nearest(H, around)
      BY <2>3 DEF Nearest
    <3>. QED  BY <2>3, <3>1, <3>2 DEF Preferred, Outermost
  <2>5. asked = Meant(declared, call.name, around)
    <3>. HIDE DEF asked, ruled, has
    <3>. QED  BY <1>3, <1>4, <2>4 DEF Meant, H
  <2>6. CASE parent = NoAtom
    <3>1. Meant(declared, call.name, around) = N(call.frame)
      BY <1>5, <2>6, MeantAlone
    <3>. HIDE DEF asked
    <3>. QED  BY <1>1, <1>9, <2>5, <2>6, <3>1
  <2>7. CASE parent # NoAtom
    <3>1. call.frame \in Atoms /\ Around(parent) \in Seq(Atoms) /\ around = << call.frame >> \o Around(parent)
      BY <1>5, <1>6, <2>7 DEF Posed
    <3>2. Meant(declared, call.name, around) = Meant(declared, call.name, Around(parent))
      BY <1>9, <3>1, MeantInside
    <3>. HIDE DEF asked
    <3>. QED  BY <1>1, <1>9, <2>5, <2>7, <3>2
  <2>. QED  BY <2>6, <2>7
<1>. QED  BY <1>8, <1>9

LEMMA IdentifiedInit == Init => Identified
<1>. SUFFICES ASSUME Init PROVE Identified
  OBVIOUS
<1>1. PICK case \in Cases : declared = case.declared /\ call = case.call
  BY DEF Init
<1>. QED  BY <1>1, CallsAssumption DEF Init, Identified, Posed

LEMMA IdentifiedKept == Identified /\ [Next]_vars => Identified'
<1>. SUFFICES ASSUME Identified, [Next]_vars PROVE Identified'
  OBVIOUS
<1>1. UNCHANGED << declared, call >>
  BY DEF Next, vars, environment, Identify, Call, KnownCall, Match, Matched, Score, Scored, Choose,
         Instanciate, Instanciated
<1>2. Posed' /\ Found' = Found
  BY <1>1 DEF Identified, Posed, Found
<1>3. CASE Identify
  BY <1>2, <1>3 DEF Identify, Identified
<1>4. CASE ~ Identify
  <2>1. UNCHANGED found /\ (pc' = "identify" => pc = "identify") /\ (pc = "identify" => pc' = "identify")
    BY <1>4 DEF Next, vars, Call, KnownCall, Match, Matched, Score, Scored, Choose, Instanciate,
                Instanciated, Fail, Succeed
  <2>. QED  BY <1>2, <2>1 DEF Identified
<1>. QED  BY <1>3, <1>4

-----------------------------------------------------------------------------
(* The arguments.  A placement of the first k has put its argument at the  *)
(* parameter, or generic parameter, it is for, unless a later one did.     *)
At(p, gen, i) == p.gen = gen /\ p.index = i

LastAt(all, k, gen, i, v) ==
  \/ v = Missing /\ \A j \in 1 .. k : ~ At(all[j], gen, i)
  \/ \E j \in 1 .. k : /\ At(all[j], gen, i) /\ v = all[j].arg
                       /\ \A l \in j + 1 .. k : ~ At(all[l], gen, i)

LEMMA LastAtNext ==
  ASSUME NEW all, NEW k \in Nat, NEW gen, NEW i, NEW v, NEW w, LastAt(all, k, gen, i, v),
         w = IF At(all[k + 1], gen, i) THEN all[k + 1].arg ELSE v
  PROVE  LastAt(all, k + 1, gen, i, w)
<1>1. 1 .. k + 1 = (1 .. k) \cup {k + 1} /\ k + 1 \in 1 .. k + 1
  OBVIOUS
<1>2. CASE At(all[k + 1], gen, i)
  <2>1. \A l \in (k + 1) + 1 .. k + 1 : FALSE
    OBVIOUS
  <2>. QED  BY <1>1, <1>2, <2>1 DEF LastAt
<1>3. CASE ~ At(all[k + 1], gen, i)
  <2>1. w = v
    BY <1>3
  <2>2. CASE v = Missing /\ \A j \in 1 .. k : ~ At(all[j], gen, i)
    BY <1>1, <1>3, <2>1, <2>2 DEF LastAt
  <2>3. CASE \E j \in 1 .. k : /\ At(all[j], gen, i) /\ v = all[j].arg
                               /\ \A l \in j + 1 .. k : ~ At(all[l], gen, i)
    <3>1. PICK j \in 1 .. k : /\ At(all[j], gen, i) /\ v = all[j].arg
                              /\ \A l \in j + 1 .. k : ~ At(all[l], gen, i)
      BY <2>3
    <3>2. \A l \in j + 1 .. k + 1 : l \in j + 1 .. k \/ l = k + 1
      OBVIOUS
    <3>. QED  BY <1>1, <1>3, <2>1, <3>1, <3>2 DEF LastAt
  <2>. QED  BY <2>2, <2>3 DEF LastAt
<1>. QED  BY <1>2, <1>3

(* The slots of q parameters and g generic parameters.                     *)
Rows(q, g, D) == [params : [1 .. q -> D], gens : [1 .. g -> D]]

Placing(s, all, n, start) ==
  s = [k \in 0 .. n |-> IF k = 0 THEN start ELSE Place(s[k - 1], all[k])]

Meet(all, n, q, g) ==
  \A k \in 1 .. n : all[k].index \in 1 .. (IF all[k].gen THEN g ELSE q) /\ all[k].gen \in BOOLEAN

LEMMA PlaceInRow ==
  ASSUME NEW q, NEW g, NEW D, NEW s \in Rows(q, g, D), NEW p, p.arg \in D
  PROVE  Place(s, p) \in Rows(q, g, D)
<1>1. CASE p.index = 0
  BY <1>1 DEF Place
<1>2. CASE p.index # 0 /\ p.gen
  BY <1>2 DEF Place, Rows
<1>3. CASE p.index # 0 /\ ~ p.gen
  BY <1>3 DEF Place, Rows
<1>. QED  BY <1>1, <1>2, <1>3

LEMMA PlacingExists ==
  ASSUME NEW all, NEW n \in Nat, NEW q, NEW g, NEW D, NEW start \in Rows(q, g, D),
         \A k \in 1 .. n : all[k].arg \in D
  PROVE  \E s \in [0 .. n -> Rows(q, g, D)] : Placing(s, all, n, start)
<1>. DEFINE R == Rows(q, g, D)
            step == [x \in (1 .. n) \X R |-> Place(x[2], all[x[1]])]
<1>1. step \in [(1 .. n) \X R -> R]
  <2>1. ASSUME NEW x \in (1 .. n) \X R PROVE Place(x[2], all[x[1]]) \in R
    <3>1. x[2] \in R /\ all[x[1]].arg \in D
      <4>. HIDE DEF R
      <4>. QED  OBVIOUS
    <3>. QED  BY <3>1, PlaceInRow
  <2>. HIDE DEF R
  <2>. QED  BY <2>1
<1>2. PICK s \in [0 .. n -> R] : Along(s, n, start, step)
  <2>. HIDE DEF step
  <2>1. start \in R
    OBVIOUS
  <2>. HIDE DEF R
  <2>. QED  BY <1>1, <2>1, AlongIndexes
<1>3. ASSUME NEW k \in 0 .. n, k # 0 PROVE step[k, s[k - 1]] = Place(s[k - 1], all[k])
  <2>1. k - 1 \in 0 .. n /\ k \in 1 .. n
    BY <1>3
  <2>2. << k, s[k - 1] >> \in (1 .. n) \X R
    <3>. HIDE DEF R
    <3>. QED  BY <2>1
  <2>. HIDE DEF R
  <2>. QED  BY <2>2
<1>4. Placing(s, all, n, start)
  <2>. HIDE DEF step, R
  <2>. QED  BY <1>2, <1>3 DEF Along, Placing
<1>. QED  BY <1>2, <1>4

Bare(q, g) == [params |-> [i \in 1 .. q |-> Missing], gens |-> [i \in 1 .. g |-> Missing]]

Ended(slots, all, k, q, g, D) ==
  /\ slots \in Rows(q, g, D)
  /\ \A i \in 1 .. q : LastAt(all, k, FALSE, i, slots.params[i])
  /\ \A i \in 1 .. g : LastAt(all, k, TRUE, i, slots.gens[i])

LEMMA PlacingLast ==
  ASSUME NEW all, NEW n \in Nat, NEW q \in Nat, NEW g \in Nat, NEW D, Missing \in D,
         \A k \in 1 .. n : all[k].arg \in D,
         Meet(all, n, q, g),
         NEW s, Placing(s, all, n, Bare(q, g))
  PROVE  Ended(s[n], all, n, q, g, D)
<1>. DEFINE Right(k) == Ended(s[k], all, k, q, g, D)
            S == {k \in Nat : k <= n => Right(k)}
<1>1. 0 \in S
  <2>1. 0 \in 0 .. n
    OBVIOUS
  <2>2. s[0] = Bare(q, g)
    BY <2>1 DEF Placing
  <2>3. s[0] \in Rows(q, g, D)
    BY <2>2 DEF Rows, Bare
  <2>4. \A j \in 1 .. 0 : FALSE
    OBVIOUS
  <2>5. \A gen, i : LastAt(all, 0, gen, i, Missing)
    BY <2>4 DEF LastAt
  <2>6. /\ \A i \in 1 .. q : s[0].params[i] = Missing
        /\ \A i \in 1 .. g : s[0].gens[i] = Missing
    BY <2>2 DEF Bare
  <2>. QED  BY <2>3, <2>5, <2>6 DEF Ended
<1>2. ASSUME NEW k \in Nat, k \in S PROVE k + 1 \in S
  <2>. HIDE DEF Right
  <2>. SUFFICES ASSUME k + 1 <= n PROVE Right(k + 1)
    OBVIOUS
  <2>. USE DEF Right
  <2>. DEFINE p == all[k + 1]
              old == s[k]
              new == s[k + 1]
  <2>1. /\ k + 1 \in 0 .. n /\ k + 1 # 0 /\ (k + 1) - 1 = k /\ k <= n /\ k + 1 \in 1 .. n
    OBVIOUS
  <2>2. new = Place(old, p)
    BY <2>1 DEF Placing
  <2>3. Right(k)
    BY <1>2, <2>1
  <2>4. p.arg \in D /\ p.index \in 1 .. (IF p.gen THEN g ELSE q) /\ p.gen \in BOOLEAN
    BY <2>1 DEF Meet
  <2>5. old \in Rows(q, g, D)
    BY <2>3 DEF Ended
  <2>. HIDE DEF p, old, new
  <2>6. new \in Rows(q, g, D)
    BY <2>2, <2>4, <2>5, PlaceInRow
  <2>7. p.index # 0
    BY <2>4
  <2>8. ASSUME NEW i \in 1 .. q
        PROVE  new.params[i] = IF At(p, FALSE, i) THEN p.arg ELSE old.params[i]
    <3>1. CASE p.gen
      <4>1. new.params = old.params
        BY <2>2, <2>5, <2>7, <3>1 DEF Place, Rows
      <4>. QED  BY <3>1, <4>1 DEF At
    <3>2. CASE ~ p.gen
      <4>1. new.params = [old.params EXCEPT ![p.index] = p.arg] /\ p.gen = FALSE
        BY <2>2, <2>4, <2>5, <2>7, <3>2 DEF Place, Rows
      <4>2. old.params \in [1 .. q -> D]
        BY <2>5 DEF Rows
      <4>. QED  BY <4>1, <4>2 DEF At
    <3>. QED  BY <3>1, <3>2
  <2>9. ASSUME NEW i \in 1 .. g
        PROVE  new.gens[i] = IF At(p, TRUE, i) THEN p.arg ELSE old.gens[i]
    <3>1. CASE ~ p.gen
      <4>1. new.gens = old.gens
        BY <2>2, <2>5, <2>7, <3>1 DEF Place, Rows
      <4>. QED  BY <3>1, <4>1 DEF At
    <3>2. CASE p.gen
      <4>1. new.gens = [old.gens EXCEPT ![p.index] = p.arg] /\ p.gen = TRUE
        BY <2>2, <2>4, <2>5, <2>7, <3>2 DEF Place, Rows
      <4>2. old.gens \in [1 .. g -> D]
        BY <2>5 DEF Rows
      <4>. QED  BY <4>1, <4>2 DEF At
    <3>. QED  BY <3>1, <3>2
  <2>10. ASSUME NEW i \in 1 .. q PROVE LastAt(all, k + 1, FALSE, i, new.params[i])
    <3>1. LastAt(all, k, FALSE, i, old.params[i])
      BY <2>3 DEF old, Ended
    <3>. QED  BY <2>8, <3>1, LastAtNext DEF p
  <2>11. ASSUME NEW i \in 1 .. g PROVE LastAt(all, k + 1, TRUE, i, new.gens[i])
    <3>1. LastAt(all, k, TRUE, i, old.gens[i])
      BY <2>3 DEF old, Ended
    <3>. QED  BY <2>9, <3>1, LastAtNext DEF p
  <2>. QED  BY <2>6, <2>10, <2>11 DEF new, Ended
<1>. HIDE DEF S
<1>3. Nat \subseteq S
  BY <1>1, <1>2, Induct
<1>4. Right(n)
  <2>. HIDE DEF Right
  <2>. QED  BY <1>3 DEF S
<1>. QED  BY <1>4

LEMMA PlacedIs ==
  ASSUME NEW f, NEW all, NEW n \in Nat, Len(all) = n, Wrong(Checked(f, all)) = {},
         NEW q, NEW g, NEW D, NEW start \in Rows(q, g, D),
         \A k \in 1 .. n : all[k].arg \in D
  PROVE  \E s : Placing(s, all, n, start) /\ Placed(start, Checked(f, all)) = s[n]
<1>. DEFINE checked == Checked(f, all)
            last == Min(Wrong(checked) \cup {Len(checked)})
            e(s, k) == IF k = 0 THEN start ELSE Place(s[k - 1], checked[k].p)
            h == CHOOSE s : s = [k \in 0 .. last |-> e(s, k)]
<1>1. Len(checked) = n /\ \A k \in 1 .. n : checked[k].p = all[k]
  BY DEF Checked
<1>2. last = n
  <2>1. Wrong(checked) \cup {Len(checked)} = {n}
    BY <1>1
  <2>2. Min({n}) = n
    BY DEF Min
  <2>. QED  BY <2>1, <2>2
<1>3. Placed(start, checked) = h[last]
  BY DEF Placed
<1>. HIDE DEF checked, last
<1>4. ASSUME NEW s
      PROVE  Placing(s, all, n, start) <=> s = [k \in 0 .. last |-> e(s, k)]
  <2>1. \A k \in 0 .. n : e(s, k) = IF k = 0 THEN start ELSE Place(s[k - 1], all[k])
    BY <1>1
  <2>. HIDE DEF e
  <2>. QED  BY <1>2, <2>1 DEF Placing
<1>5. \E s : s = [k \in 0 .. last |-> e(s, k)]
  <2>1. \E s : Placing(s, all, n, start)
    BY PlacingExists
  <2>. HIDE DEF e
  <2>. QED  BY <1>4, <2>1
<1>6. h = [k \in 0 .. last |-> e(h, k)]
  <2>. HIDE DEF e
  <2>. QED  BY <1>5
<1>7. Placing(h, all, n, start)
  <2>. HIDE DEF h, e
  <2>. QED  BY <1>4, <1>6
<1>. QED  BY <1>2, <1>3, <1>7 DEF checked

(* The generic arguments first, then those given by position, then those   *)
(* given by name.                                                          *)
Is(p, gen, index, arg) == p.gen = gen /\ p.index = index /\ p.arg = arg

InRows(f, in, all, a, n, m) ==
  /\ Len(all) = a + n + m
  /\ \A i \in 1 .. a : Is(all[i], TRUE, i, in.gens[i])
  /\ \A i \in 1 .. n : Is(all[a + i], FALSE, i, in.indexed[i])
  /\ \A i \in 1 .. m :
       Is(all[a + n + i], FALSE, findByName(f, in.named[i].name, n), in.named[i].arg)

LEMMA PlacementsAre ==
  ASSUME NEW f, NEW in, Sequence(in.indexed), Sequence(in.named), Sequence(in.gens), in.namedGens = FALSE
  PROVE  InRows(f, in, Placements(f, in), Len(in.gens), Len(in.indexed), Len(in.named))
<1>. DEFINE a == Len(in.gens)
            n == Len(in.indexed)
            m == Len(in.named)
            gens    == [i \in 1 .. a |-> [gen |-> TRUE, index |-> i, arg |-> in.gens[i]]]
            indexed == [i \in 1 .. n |-> [gen |-> FALSE, index |-> i, arg |-> in.indexed[i]]]
            named   == [i \in 1 .. m |->
                         [gen |-> FALSE, arg |-> in.named[i].arg,
                          index |-> findByName(f, in.named[i].name, n)]]
<1>1. a \in Nat /\ n \in Nat /\ m \in Nat
  BY SequenceLen
<1>2. Placements(f, in) = ((gens \o << >>) \o indexed) \o named
  BY DEF Placements
<1>3. /\ DOMAIN gens = 1 .. a /\ DOMAIN indexed = 1 .. n /\ DOMAIN named = 1 .. m
      /\ \A i \in 1 .. a : Is(gens[i], TRUE, i, in.gens[i])
      /\ \A i \in 1 .. n : Is(indexed[i], FALSE, i, in.indexed[i])
      /\ \A i \in 1 .. m : Is(named[i], FALSE, findByName(f, in.named[i].name, n), in.named[i].arg)
  BY DEF Is
<1>4. gens = [i \in 1 .. a |-> gens[i]] /\ indexed = [i \in 1 .. n |-> indexed[i]] /\ named = [i \in 1 .. m |-> named[i]]
  <2>. HIDE DEF a, n, m
  <2>. QED  OBVIOUS
<1>. HIDE DEF gens, indexed, named, a, n, m
<1>5. \E X : gens \in Seq(X) /\ indexed \in Seq(X) /\ named \in Seq(X)
  <2>. DEFINE X == {gens[i] : i \in 1 .. a} \cup {indexed[i] : i \in 1 .. n} \cup {named[i] : i \in 1 .. m}
  <2>1. gens \in [1 .. a -> X] /\ indexed \in [1 .. n -> X] /\ named \in [1 .. m -> X]
    BY <1>4
  <2>. HIDE DEF X
  <2>2. gens \in Seq(X) /\ indexed \in Seq(X) /\ named \in Seq(X)
    BY <1>1, <2>1
  <2>. QED  BY <2>2
<1>6. PICK X : gens \in Seq(X) /\ indexed \in Seq(X) /\ named \in Seq(X)
  BY <1>5
<1>7. Len(gens) = a /\ Len(indexed) = n /\ Len(named) = m
  BY <1>1, <1>3, <1>6
<1>8. gens \o << >> = gens
  BY <1>6
<1>. DEFINE two == gens \o indexed
            all == two \o named
<1>9. /\ two \in Seq(X) /\ Len(two) = a + n
      /\ \A i \in 1 .. a : two[i] = gens[i]
      /\ \A i \in 1 .. n : two[a + i] = indexed[i]
  <2>1. two \in Seq(X) /\ Len(two) = a + n
    BY <1>1, <1>6, <1>7
  <2>2. \A i \in 1 .. a : two[i] = gens[i]
    BY <1>1, <1>6, <1>7
  <2>3. ASSUME NEW i \in 1 .. n PROVE two[a + i] = indexed[i]
    <3>1. a + i \in 1 .. a + n /\ ~ (a + i <= a) /\ (a + i) - a = i
      BY <1>1
    <3>. QED  BY <1>1, <1>6, <1>7, <3>1
  <2>. QED  BY <2>1, <2>2, <2>3
<1>. HIDE DEF two
<1>10. /\ Len(all) = a + n + m
       /\ \A i \in 1 .. a + n : all[i] = two[i]
       /\ \A i \in 1 .. m : all[a + n + i] = named[i]
  <2>. DEFINE t == a + n
  <2>1. t \in Nat /\ Len(two) = t
    BY <1>1, <1>9
  <2>. HIDE DEF t
  <2>2. /\ Len(all) = t + m
        /\ \A i \in 1 .. t : all[i] = two[i]
        /\ \A i \in 1 .. m : all[t + i] = named[i]
    <3>1. named \in Seq(X) /\ two \in Seq(X) /\ Len(named) = m
      BY <1>6, <1>7, <1>9
    <3>2. Len(all) = t + m
      BY <2>1, <3>1
    <3>3. \A i \in 1 .. t : all[i] = two[i]
      BY <1>1, <2>1, <3>1
    <3>4. ASSUME NEW i \in 1 .. m PROVE all[t + i] = named[i]
      <4>1. t + i \in 1 .. t + m /\ ~ (t + i <= t) /\ (t + i) - t = i
        BY <1>1, <2>1
      <4>. QED  BY <2>1, <3>1, <4>1
    <3>. QED  BY <3>2, <3>3, <3>4
  <2>. QED  BY <2>2 DEF t
<1>11. /\ \A i \in 1 .. a : i \in 1 .. a + n
       /\ \A i \in 1 .. n : a + i \in 1 .. a + n
  BY <1>1
<1>12. Placements(f, in) = all
  BY <1>2, <1>8 DEF two
<1>. HIDE DEF all
<1>13. InRows(f, in, all, a, n, m)
  BY <1>3, <1>9, <1>10, <1>11 DEF InRows
<1>. QED  BY <1>12, <1>13 DEF a, n, m

LEMMA FoundByName ==
  ASSUME NEW f \in Atoms, NEW name, NEW n \in Nat, findByName(f, name, n) # 0
  PROVE  /\ findByName(f, name, n) \in n + 1 .. Len(Program[f].params)
         /\ Program[f].params[findByName(f, name, n)].name = name
<1>. DEFINE own == Program[f].params
            at == {i \in n + 1 .. Len(own) : own[i].name = name}
<1>1. Len(own) \in Nat
  BY SequenceLen, ParametersAssumption
<1>2. at # {} /\ findByName(f, name, n) = Min(at)
  BY DEF findByName
<1>3. at \subseteq Nat
  BY <1>1
<1>4. \E x \in at : \A y \in at : x <= y
  <2>. HIDE DEF at
  <2>. QED  BY <1>2, <1>3, Least
<1>5. Min(at) \in at
  <2>. HIDE DEF at
  <2>. QED  BY <1>4 DEF Min
<1>. QED  BY <1>2, <1>5

(* Generic parameters given by name have no parameter to go to.            *)
LEMMA NamedGensRefused ==
  ASSUME NEW f, NEW in, Sequence(in.indexed), Sequence(in.named), Sequence(in.gens), in.namedGens = TRUE
  PROVE  \E k \in 1 .. Len(Placements(f, in)) : Placements(f, in)[k].index = 0
<1>. DEFINE a == Len(in.gens)
            n == Len(in.indexed)
            m == Len(in.named)
            gens    == [i \in 1 .. a |-> [gen |-> TRUE, index |-> i, arg |-> in.gens[i]]]
            indexed == [i \in 1 .. n |-> [gen |-> FALSE, index |-> i, arg |-> in.indexed[i]]]
            named   == [i \in 1 .. m |->
                         [gen |-> FALSE, arg |-> in.named[i].arg,
                          index |-> findByName(f, in.named[i].name, n)]]
            none == [gen |-> TRUE, index |-> 0, arg |-> Missing]
<1>1. a \in Nat /\ n \in Nat /\ m \in Nat
  BY SequenceLen
<1>2. Placements(f, in) = ((gens \o << none >>) \o indexed) \o named
  BY DEF Placements
<1>3. none.index = 0
  OBVIOUS
<1>4. gens = [i \in 1 .. a |-> gens[i]] /\ indexed = [i \in 1 .. n |-> indexed[i]] /\ named = [i \in 1 .. m |-> named[i]]
  <2>. HIDE DEF a, n, m
  <2>. QED  OBVIOUS
<1>. HIDE DEF gens, indexed, named, none, a, n, m
<1>5. \E X : gens \in Seq(X) /\ indexed \in Seq(X) /\ named \in Seq(X) /\ none \in X
  <2>. DEFINE X == {gens[i] : i \in 1 .. a} \cup {indexed[i] : i \in 1 .. n} \cup {named[i] : i \in 1 .. m} \cup {none}
  <2>1. gens \in [1 .. a -> X] /\ indexed \in [1 .. n -> X] /\ named \in [1 .. m -> X] /\ none \in X
    BY <1>4
  <2>. HIDE DEF X
  <2>2. gens \in Seq(X) /\ indexed \in Seq(X) /\ named \in Seq(X)
    BY <1>1, <2>1
  <2>. QED  BY <2>1, <2>2
<1>6. PICK X : gens \in Seq(X) /\ indexed \in Seq(X) /\ named \in Seq(X) /\ none \in X
  BY <1>5
<1>. DEFINE one == gens \o << none >>
            two == one \o indexed
            all == two \o named
            k   == Len(gens) + 1
<1>7. one \in Seq(X) /\ k \in 1 .. Len(one) /\ one[k] = none
  BY <1>6
<1>. HIDE DEF one, k
<1>8. two \in Seq(X) /\ k \in 1 .. Len(two) /\ two[k] = none
  BY <1>6, <1>7
<1>. HIDE DEF two
<1>9. k \in 1 .. Len(all) /\ all[k] = none
  BY <1>6, <1>8
<1>10. Placements(f, in) = all
  BY <1>2 DEF one, two
<1>. HIDE DEF all
<1>. QED  BY <1>3, <1>9, <1>10

(* The arguments of f, placed.                                             *)
Row(f, in, all, a, n, m, q, g) ==
  /\ a = Len(in.gens) /\ n = Len(in.indexed) /\ m = Len(in.named)
  /\ q = Len(Program[f].params) /\ g = Len(Program[f].gens)
  /\ n <= q /\ a <= g
  /\ InRows(f, in, all, a, n, m)
  /\ \A k \in 1 .. a + n + m : all[k].index # 0

LEMMA NamesFound ==
  ASSUME NEW f \in Atoms, NEW in, NEW all, NEW a \in Nat, NEW n \in Nat, NEW m \in Nat,
         NEW q \in Nat, NEW g \in Nat, Row(f, in, all, a, n, m, q, g), NEW k \in 1 .. m
  PROVE  /\ findByName(f, in.named[k].name, n) \in n + 1 .. q
         /\ Program[f].params[findByName(f, in.named[k].name, n)].name = in.named[k].name
<1>. DEFINE i == findByName(f, in.named[k].name, n)
<1>1. Is(all[a + n + k], FALSE, i, in.named[k].arg) /\ q = Len(Program[f].params)
  BY DEF Row, InRows
<1>2. a + n + k \in 1 .. a + n + m
  OBVIOUS
<1>3. all[a + n + k].index # 0
  BY <1>2 DEF Row
<1>4. i # 0
  BY <1>1, <1>3 DEF Is
<1>. QED  BY <1>1, <1>4, FoundByName

LEMMA ThreeRows ==
  ASSUME NEW a \in Nat, NEW n \in Nat, NEW m \in Nat, NEW k \in 1 .. a + n + m
  PROVE  \/ k \in 1 .. a
         \/ \E i \in 1 .. n : k = a + i
         \/ \E i \in 1 .. m : k = a + n + i
<1>1. k \notin 1 .. a => k - a \in 1 .. n \/ k - (a + n) \in 1 .. m
  OBVIOUS
<1>2. k = a + (k - a) /\ k = a + n + (k - (a + n))
  OBVIOUS
<1>. QED  BY <1>1, <1>2

LEMMA RowsMeet ==
  ASSUME NEW f \in Atoms, NEW in, NEW all, NEW a \in Nat, NEW n \in Nat, NEW m \in Nat,
         NEW q \in Nat, NEW g \in Nat, Row(f, in, all, a, n, m, q, g)
  PROVE  Meet(all, a + n + m, q, g)
<1>. DEFINE Fits(p) == p.index \in 1 .. (IF p.gen THEN g ELSE q) /\ p.gen \in BOOLEAN
<1>1. \A p, i, arg : Is(p, TRUE, i, arg) /\ i \in 1 .. g => Fits(p)
  BY DEF Is
<1>2. \A p, i, arg : Is(p, FALSE, i, arg) /\ i \in 1 .. q => Fits(p)
  BY DEF Is
<1>. HIDE DEF Fits
<1>3. SUFFICES ASSUME NEW k \in 1 .. a + n + m PROVE Fits(all[k])
  BY DEF Meet, Fits
<1>4. n <= q /\ a <= g
  BY DEF Row
<1>5. CASE k \in 1 .. a
  <2>1. Is(all[k], TRUE, k, in.gens[k])
    BY <1>5 DEF Row, InRows
  <2>2. k \in 1 .. g
    BY <1>4, <1>5
  <2>. QED  BY <1>1, <2>1, <2>2
<1>6. ASSUME NEW i \in 1 .. n, k = a + i PROVE Fits(all[k])
  <2>1. Is(all[k], FALSE, i, in.indexed[i])
    BY <1>6 DEF Row, InRows
  <2>2. i \in 1 .. q
    BY <1>4
  <2>. QED  BY <1>2, <2>1, <2>2
<1>7. ASSUME NEW i \in 1 .. m, k = a + n + i PROVE Fits(all[k])
  <2>1. Is(all[k], FALSE, findByName(f, in.named[i].name, n), in.named[i].arg)
    BY <1>7 DEF Row, InRows
  <2>2. findByName(f, in.named[i].name, n) \in n + 1 .. q
    BY NamesFound
  <2>3. findByName(f, in.named[i].name, n) \in 1 .. q
    BY <2>2
  <2>. QED  BY <1>2, <2>1, <2>3
<1>. QED  BY <1>5, <1>6, <1>7, ThreeRows

LEMMA RowsPlaced ==
  ASSUME NEW f \in Atoms, NEW in, Sequence(in.indexed), Sequence(in.named), Sequence(in.gens),
         NEW all, NEW a \in Nat, NEW n \in Nat, NEW m \in Nat,
         NEW q \in Nat, NEW g \in Nat, Row(f, in, all, a, n, m, q, g),
         NEW D, NEW slots, AllGiven(slots), Ended(slots, all, a + n + m, q, g, D)
  PROVE  PlacedRight(f, in, slots)
<1>. DEFINE ix(k) == findByName(f, in.named[k].name, n)
            own == Program[f].params
            z == a + n + m
<1>7. /\ \A i \in 1 .. a : Is(all[i], TRUE, i, in.gens[i])
      /\ \A i \in 1 .. n : Is(all[a + i], FALSE, i, in.indexed[i])
      /\ \A i \in 1 .. m : Is(all[a + n + i], FALSE, ix(i), in.named[i].arg)
      /\ n <= q /\ a <= g /\ q = Len(own)
      /\ a = Len(in.gens) /\ n = Len(in.indexed) /\ m = Len(in.named)
  BY DEF Row, InRows
<1>8. \A k \in 1 .. m : ix(k) \in n + 1 .. q /\ own[ix(k)].name = in.named[k].name
  <2>1. ASSUME NEW k \in 1 .. m
        PROVE  /\ findByName(f, in.named[k].name, n) \in n + 1 .. q
               /\ Program[f].params[findByName(f, in.named[k].name, n)].name = in.named[k].name
    <3>. HIDE DEF ix, own, z
    <3>. QED  BY NamesFound
  <2>. QED  BY <2>1
<1>9. \A k \in 1 .. z :
        \/ k \in 1 .. a
        \/ \E i \in 1 .. n : k = a + i
        \/ \E i \in 1 .. m : k = a + n + i
  BY ThreeRows
<1>. HIDE DEF ix, own
<1>16. /\ \A i \in 1 .. q : LastAt(all, z, FALSE, i, slots.params[i])
       /\ \A i \in 1 .. g : LastAt(all, z, TRUE, i, slots.gens[i])
  BY DEF Ended
<1>17. /\ slots.params \in [1 .. q -> D] /\ slots.gens \in [1 .. g -> D]
       /\ Len(slots.params) = q /\ Len(slots.gens) = g
  <2>1. slots.params \in [1 .. q -> D] /\ slots.gens \in [1 .. g -> D]
    BY DEF Ended, Rows
  <2>. QED  BY <2>1
<1>18. /\ \A i \in 1 .. q : slots.params[i] # Missing
       /\ \A i \in 1 .. g : slots.gens[i] # Missing
  BY <1>17 DEF AllGiven
<1>19. ASSUME NEW i \in 1 .. q
       PROVE  \E j \in 1 .. z : /\ At(all[j], FALSE, i) /\ slots.params[i] = all[j].arg
                                /\ \A l \in j + 1 .. z : ~ At(all[l], FALSE, i)
  BY <1>16, <1>18 DEF LastAt
<1>20. ASSUME NEW i \in 1 .. g
       PROVE  \E j \in 1 .. z : At(all[j], TRUE, i) /\ slots.gens[i] = all[j].arg
  BY <1>16, <1>18 DEF LastAt
<1>21. ASSUME NEW i \in 1 .. n PROVE slots.params[i] = in.indexed[i]
  <2>1. i \in 1 .. q
    BY <1>7
  <2>2. PICK j \in 1 .. z : At(all[j], FALSE, i) /\ slots.params[i] = all[j].arg
    BY <1>19, <2>1
  <2>3. j \notin 1 .. a
    BY <1>7, <2>2 DEF At, Is
  <2>4. ASSUME NEW k \in 1 .. m, j = a + n + k PROVE FALSE
    <3>1. ix(k) = i /\ ix(k) \in n + 1 .. q
      BY <1>8, <1>7, <2>2, <2>4 DEF At, Is
    <3>. QED  BY <3>1
  <2>5. PICK k \in 1 .. n : j = a + k
    BY <1>9, <2>3, <2>4
  <2>6. k = i
    BY <1>7, <2>2, <2>5 DEF At, Is
  <2>. QED  BY <1>7, <2>2, <2>5, <2>6 DEF Is
<1>22. ASSUME NEW i \in n + 1 .. q
       PROVE  \E k \in 1 .. m :
                /\ in.named[k].name = own[i].name /\ in.named[k].arg = slots.params[i]
                /\ \A j \in k + 1 .. m : in.named[j].name # own[i].name
  <2>1. i \in 1 .. q /\ i \notin 1 .. n
    BY <1>7
  <2>2. PICK j \in 1 .. z : /\ At(all[j], FALSE, i) /\ slots.params[i] = all[j].arg
                            /\ \A l \in j + 1 .. z : ~ At(all[l], FALSE, i)
    BY <1>19, <2>1
  <2>3. j \notin 1 .. a
    BY <1>7, <2>2 DEF At, Is
  <2>4. ASSUME NEW k \in 1 .. n, j = a + k PROVE FALSE
    BY <1>7, <2>1, <2>2, <2>4 DEF At, Is
  <2>5. PICK k \in 1 .. m : j = a + n + k
    BY <1>9, <2>3, <2>4
  <2>6. ix(k) = i /\ in.named[k].arg = slots.params[i] /\ in.named[k].name = own[i].name
    <3>1. Is(all[j], FALSE, ix(k), in.named[k].arg)
      BY <1>7, <2>5
    <3>2. ix(k) = i /\ in.named[k].arg = slots.params[i]
      BY <2>2, <3>1 DEF At, Is
    <3>. QED  BY <1>8, <3>2
  <2>7. ASSUME NEW l \in k + 1 .. m, in.named[l].name = own[i].name PROVE FALSE
    <3>1. ix(l) = i
      BY <2>6, <2>7 DEF ix
    <3>2. l \in 1 .. m /\ a + n + l \in j + 1 .. z
      BY <2>5, <2>7
    <3>3. At(all[a + n + l], FALSE, i)
      BY <1>7, <3>1, <3>2 DEF At, Is
    <3>. QED  BY <2>2, <3>2, <3>3
  <2>. QED  BY <2>6, <2>7
<1>23. SubSeq(slots.params, 1, n) = in.indexed
  <2>1. in.indexed = [i \in 1 .. n |-> in.indexed[i]]
    BY <1>7 DEF Sequence
  <2>2. SubSeq(slots.params, 1, n) = [i \in 1 .. n |-> slots.params[i]]
    BY <1>7, <1>17
  <2>. QED  BY <1>21, <2>1, <2>2
<1>24. slots.gens = in.gens
  <2>1. ASSUME NEW i \in 1 .. g PROVE i \in 1 .. a /\ slots.gens[i] = in.gens[i]
    <3>1. PICK j \in 1 .. z : At(all[j], TRUE, i) /\ slots.gens[i] = all[j].arg
      BY <1>20
    <3>2. j \in 1 .. a
      <4>1. ASSUME NEW k \in 1 .. n, j = a + k PROVE FALSE
        BY <1>7, <3>1, <4>1 DEF At, Is
      <4>2. ASSUME NEW k \in 1 .. m, j = a + n + k PROVE FALSE
        BY <1>7, <3>1, <4>2 DEF At, Is
      <4>. QED  BY <1>9, <4>1, <4>2
    <3>. QED  BY <1>7, <3>1, <3>2 DEF At, Is
  <2>2. g = a
    <3>1. g # 0 => g \in 1 .. a
      BY <2>1
    <3>. QED  BY <1>7, <3>1
  <2>3. in.gens = [i \in 1 .. a |-> in.gens[i]]
    BY <1>7 DEF Sequence
  <2>4. slots.gens = [i \in 1 .. a |-> slots.gens[i]]
    BY <1>17, <2>2
  <2>5. \A i \in 1 .. a : slots.gens[i] = in.gens[i]
    BY <2>1, <2>2
  <2>. QED  BY <2>3, <2>4, <2>5
<1>25. \A k \in 1 .. m : \E i \in n + 1 .. q : in.named[k].name = own[i].name
  BY <1>8
<1>26. /\ Len(slots.params) = q /\ n <= q /\ q = Len(own)
       /\ n = Len(in.indexed) /\ m = Len(in.named)
  BY <1>7, <1>17
<1>27. \A i \in n + 1 .. Len(own) :
         \E k \in 1 .. Len(in.named) :
           /\ in.named[k].name = own[i].name /\ in.named[k].arg = slots.params[i]
           /\ \A j \in k + 1 .. Len(in.named) : in.named[j].name # own[i].name
  BY <1>22, <1>26, Zenon
<1>28. \A k \in 1 .. Len(in.named) : \E i \in n + 1 .. Len(own) : in.named[k].name = own[i].name
  BY <1>25, <1>26
<1>. QED  BY <1>23, <1>24, <1>26, <1>27, <1>28, Zenon DEF PlacedRight, own

LEMMA ValidPlaced ==
  ASSUME NEW f \in Atoms, NEW in, Sequence(in.indexed), Sequence(in.named), Sequence(in.gens),
         in.namedGens \in BOOLEAN, validateAtom(f, in, EmptySlots).match # "none"
  PROVE  PlacedRight(f, in, validateAtom(f, in, EmptySlots).slots)
<1>. DEFINE all     == Placements(f, in)
            checked == Checked(f, all)
            start   == Start(f, EmptySlots)
            slots   == Placed(start, checked)
            q == Len(Program[f].params)
            g == Len(Program[f].gens)
            a == Len(in.gens)
            n == Len(in.indexed)
            m == Len(in.named)
            z == Len(all)
<1>1. q \in Nat /\ g \in Nat /\ a \in Nat /\ n \in Nat /\ m \in Nat
  BY SequenceLen, ParametersAssumption
<1>2. /\ ~ TooMany(f, in)
      /\ validateAtom(f, in, EmptySlots) = Verdict(f, in, checked, slots)
  BY DEF validateAtom, Judged
<1>3. Wrong(checked) = {} /\ AllGiven(slots) /\ validateAtom(f, in, EmptySlots).slots = slots
  <2>. HIDE DEF checked, slots
  <2>. QED  BY <1>2 DEF Verdict
<1>4. n <= q /\ a <= g
  BY <1>1, <1>2 DEF TooMany
<1>5. \A k \in 1 .. z : all[k].index # 0
  <2>1. ASSUME NEW k \in 1 .. z PROVE all[k].index # 0
    <3>1. checked[k].match = pushParameter(f, all[k]) /\ k \in DOMAIN checked
      BY DEF Checked
    <3>2. pushParameter(f, all[k]) # "none"
      <4>. HIDE DEF checked
      <4>. QED  BY <1>3, <3>1 DEF Wrong
    <3>. QED  BY <3>2 DEF pushParameter
  <2>. QED  BY <2>1
<1>6. in.namedGens = FALSE
  <2>. SUFFICES ASSUME in.namedGens = TRUE PROVE FALSE
    OBVIOUS
  <2>1. \E k \in 1 .. z : all[k].index = 0
    BY NamedGensRefused DEF Sequence
  <2>. QED  BY <1>5, <2>1
<1>7. InRows(f, in, all, a, n, m)
  BY <1>6, PlacementsAre
<1>8. z = a + n + m /\ z \in Nat
  <2>. HIDE DEF z, a, n, m, all
  <2>. QED  BY <1>1, <1>7 DEF InRows, z
<1>9. Row(f, in, all, a, n, m, q, g)
  <2>1. \A k \in 1 .. a + n + m : all[k].index # 0
    <3>. HIDE DEF z, a, n, m, all
    <3>. QED  BY <1>5, <1>8
  <2>. QED  BY <1>4, <1>7, <2>1 DEF Row
<1>10. start = Bare(q, g)
  BY DEF Start, ResetSlots, Bare
<1>. DEFINE D == {all[k].arg : k \in 1 .. z} \cup {Missing}
<1>11. Missing \in D /\ \A k \in 1 .. z : all[k].arg \in D
  OBVIOUS
<1>. HIDE DEF all, checked, start, slots, q, g, a, n, m, z, D
<1>12. start \in Rows(q, g, D)
  BY <1>10, <1>11 DEF Rows, Bare
<1>13. Meet(all, z, q, g)
  BY <1>1, <1>8, <1>9, RowsMeet
<1>14. PICK s : Placing(s, all, z, start) /\ slots = s[z]
  <2>1. Len(all) = z /\ Wrong(Checked(f, all)) = {}
    BY <1>3 DEF z, checked
  <2>2. \E s : Placing(s, all, z, start) /\ Placed(start, Checked(f, all)) = s[z]
    BY <1>8, <1>11, <1>12, <2>1, PlacedIs
  <2>. QED  BY <2>2 DEF slots, checked
<1>15. Ended(slots, all, z, q, g, D)
  BY <1>1, <1>8, <1>10, <1>11, <1>13, <1>14, PlacingLast
<1>16. PlacedRight(f, in, slots)
  BY <1>1, <1>3, <1>8, <1>9, <1>15, RowsPlaced
<1>. QED  BY <1>3, <1>16

-----------------------------------------------------------------------------
(* What is kept of a validation: the parameters of the function found,     *)
(* nothing of the others.                                                  *)
Handing ==
  /\ pc = "match" => /\ DOMAIN parameters = Index
                     /\ \A i \in Before(M, r) : parameters[i] = V(i).slots
  /\ pc \in {"score", "choose", "instanciate"} => \A i \in M : parameters[i] = V(i).slots
  /\ Accepted => Asked /\ \E i \in M : answer = found.list[i] /\ handed = V(i).slots

LEMMA HandingInit == Init => Handing
BY DEF Init, Handing, Accepted

LEMMA HandingDone ==
  ASSUME IInv, UNCHANGED << environment, found, input >>, Asked, pc' = "done",
         NEW i \in M, answer' = found.list[i], handed' = V(i).slots
  PROVE  Handing'
<1>1. Asked' /\ M' = M /\ V(i)' = V(i) /\ UNCHANGED found
  BY Resolving
<1>. QED  BY <1>1 DEF Handing

LEMMA HandingMatch ==
  ASSUME IInv, Handing, Match
  PROVE  Handing'
<1>1. pc = "match" /\ answer = "pending" /\ Asked /\ Matching /\ r <= Len(found.list)
  BY DEF Match, More, IInv, RInv
<1>2. UNCHANGED << environment, found, input, pc, answer >> /\ r' = r + 1
  BY DEF Match, outcome
<1>3. /\ Len(found.list) \in Nat /\ M \subseteq Index
      /\ Index = 1 .. Len(found.list) /\ UNCHANGED << Index, M >> /\ \A i : V(i)' = V(i)
  BY <1>1, <1>2, Resolving
<1>4. r \in Index /\ r \in Int
  BY <1>1, <1>3 DEF Matching
<1>5. validateAtom(found.list[r], input, result) = V(r)
  BY LeftIgnored DEF V
<1>6. Before(M, r)' = IF r \in M THEN Before(M, r) \cup {r} ELSE Before(M, r)
  <2>1. M \subseteq Int
    BY <1>3
  <2>2. Before(M, r)' = Before(M, r + 1)
    BY <1>2, <1>3 DEF Before
  <2>. QED  BY <1>4, <2>1, <2>2, BeforeNext
<1>7. r \notin Before(M, r) /\ Before(M, r) \subseteq Index
  <2>1. r \notin Before(M, r)
    BY <1>4 DEF Before
  <2>2. Before(M, r) \subseteq M
    BY DEF Before
  <2>. QED  BY <1>3, <2>1, <2>2
<1>8. DOMAIN parameters = Index /\ \A i \in Before(M, r) : parameters[i] = V(i).slots
  BY <1>1 DEF Handing
<1>9. CASE V(r).match = "none"
  <2>1. UNCHANGED parameters
    BY <1>5, <1>9 DEF Match, solving
  <2>2. r \notin M
    BY <1>9 DEF M
  <2>. QED  BY <1>1, <1>2, <1>3, <1>6, <1>8, <2>1, <2>2 DEF Handing, Accepted
<1>10. CASE V(r).match # "none"
  <2>1. parameters' = [parameters EXCEPT ![r] = V(r).slots]
    BY <1>5, <1>10 DEF Match
  <2>2. DOMAIN parameters' = Index
    BY <1>8, <2>1
  <2>3. \A i \in Before(M, r) \cup {r} : parameters'[i] = V(i).slots
    BY <1>4, <1>7, <1>8, <2>1
  <2>. QED  BY <1>1, <1>2, <1>3, <1>6, <2>2, <2>3 DEF Handing, Accepted
<1>. QED  BY <1>9, <1>10

LEMMA HandingMatched ==
  ASSUME IInv, Handing, Matched
  PROVE  Handing'
<1>1. pc = "match" /\ answer = "pending" /\ Asked /\ Matching /\ ~ r <= Len(found.list) /\ Given
  BY DEF Matched, More, IInv, RInv
<1>2. UNCHANGED << environment, found, input, parameters >>
  BY DEF Matched, solving
<1>3. /\ Len(found.list) \in Nat /\ M \subseteq Index /\ Index = 1 .. Len(found.list)
      /\ UNCHANGED M /\ \A i : V(i)' = V(i)
  BY <1>1, <1>2, Resolving
<1>4. Before(M, r) = M
  <2>1. r = Len(found.list) + 1
    BY <1>1, <1>3 DEF Matching
  <2>. QED  BY <1>3, <2>1, BeforeAll
<1>5. \A i \in M : parameters[i] = V(i).slots
  BY <1>1, <1>4 DEF Handing
<1>6. CASE suitableCount = 0
  <2>1. pc' = "done" /\ answer' = "failed"
    BY <1>6 DEF Matched, Fail
  <2>. QED  BY <2>1 DEF Handing, Accepted
<1>7. CASE suitableCount = 1
  <2>1. params \in M /\ atom = found.list[params]
    BY <1>1, <1>4, <1>7 DEF Matching
  <2>2. pc' = "done" /\ answer' = atom /\ handed' = parameters[params]
    BY <1>7 DEF Matched, Succeed
  <2>. QED  BY <1>1, <1>2, <1>5, <2>1, <2>2, HandingDone
<1>8. CASE suitableCount \notin {0, 1}
  <2>1. pc' \in {"score", "choose"} /\ answer' = "pending"
    BY <1>1, <1>8 DEF Matched, outcome
  <2>. QED  BY <1>2, <1>3, <1>5, <2>1 DEF Handing, Accepted
<1>. QED  BY <1>6, <1>7, <1>8

(* The loops that rank the functions keep the parameters.                  *)
LEMMA HandingRanked ==
  ASSUME IInv, Handing, Asked, UNCHANGED << environment, found, input, parameters, answer >>,
         answer = "pending",
         pc \in {"score", "choose", "instanciate"}, pc' \in {"score", "choose", "instanciate"}
  PROVE  Handing'
<1>1. UNCHANGED M /\ \A i : V(i)' = V(i)
  BY Resolving
<1>. QED  BY <1>1 DEF Handing, Accepted

LEMMA HandingKept == IInv /\ Handing /\ [Next]_vars => Handing'
<1>. SUFFICES ASSUME IInv, Handing, [Next]_vars PROVE Handing'
  OBVIOUS
<1>1. CASE Identify
  <2>1. pc' \in {"done", "call"} /\ answer' \in {"pending", "failed"}
    BY <1>1 DEF Identify, Fail, IInv, RInv, outcome
  <2>. QED  BY <2>1 DEF Handing, Accepted
<1>2. CASE Call
  <2>1. pc = "call" /\ answer = "pending" /\ r = 1 /\ UNCHANGED << r, found >>
    BY <1>2 DEF Call, IInv, RInv
  <2>2. CASE Refused(found)
    BY <1>2, <2>1, <2>2 DEF Call, Fail, Handing, Accepted
  <2>3. CASE ~ Refused(found)
    <3>1. /\ pc' \in {"known", "match"} /\ answer' = "pending"
          /\ parameters' = [i \in 1 .. Len(found.list) |-> EmptySlots]
      BY <1>2, <2>1, <2>3 DEF Call, outcome
    <3>2. DOMAIN parameters' = Index'
      BY <2>1, <3>1 DEF Index
    <3>3. Before(M, r)' = {}
      <4>1. \A i \in Index' : i \in Int /\ ~ i < 1
        <5>1. Len(found.list) \in Nat
          BY <2>1, SequenceLen DEF IInv, RInv, Given
        <5>. QED  BY <2>1, <5>1 DEF Index
      <4>. QED  BY <2>1, <4>1 DEF Before, M
    <3>. QED  BY <3>1, <3>2, <3>3 DEF Handing, Accepted
  <2>. QED  BY <2>2, <2>3
<1>3. CASE KnownCall
  <2>1. pc = "known" /\ answer = "pending" /\ Asked /\ Len(found.list) = 1
    BY <1>3 DEF KnownCall, IInv, RInv
  <2>2. UNCHANGED << environment, found, input >>
    BY <1>3 DEF KnownCall
  <2>3. validateAtom(found.list[1], input, result) = V(1)
    BY LeftIgnored DEF V
  <2>4. CASE V(1).match = "none"
    BY <1>3, <2>3, <2>4 DEF KnownCall, Fail, Handing, Accepted
  <2>5. CASE V(1).match # "none"
    <3>1. 1 \in M
      BY <2>1, <2>5 DEF M, Index
    <3>2. pc' = "done" /\ answer' = found.list[1] /\ handed' = V(1).slots
      BY <1>3, <2>3, <2>5 DEF KnownCall
    <3>. QED  BY <2>1, <2>2, <3>1, <3>2, HandingDone
  <2>. QED  BY <2>4, <2>5
<1>4. CASE Match
  BY <1>4, HandingMatch
<1>5. CASE Matched
  BY <1>5, HandingMatched
<1>6. CASE Score \/ Scored
  <2>1. pc = "score" /\ Asked /\ answer = "pending" /\ pc' \in {"score", "choose"}
    BY <1>6 DEF Score, Scored, IInv, RInv
  <2>2. UNCHANGED << environment, found, input, parameters, answer >>
    BY <1>6 DEF Score, Scored, solving, outcome
  <2>. QED  BY <2>1, <2>2, HandingRanked
<1>7. CASE Choose
  <2>1. pc = "choose" /\ Asked /\ answer = "pending" /\ Choosing
    BY <1>7 DEF Choose, IInv, RInv
  <2>2. UNCHANGED << environment, found, input, parameters >>
    BY <1>7 DEF Choose
  <2>3. CASE perfectMatchCount = 1
    <3>1. perfectMatch \in M
      BY <2>1, <2>3 DEF Choosing
    <3>2. /\ pc' = "done" /\ answer' = found.list[perfectMatch]
          /\ handed' = parameters[perfectMatch]
      BY <1>7, <2>3 DEF Choose, Succeed
    <3>3. parameters[perfectMatch] = V(perfectMatch).slots
      BY <2>1, <3>1 DEF Handing
    <3>. QED  BY <2>1, <2>2, <3>1, <3>2, <3>3, HandingDone
  <2>4. CASE perfectMatchCount # 1
    <3>1. pc' = "instanciate" /\ UNCHANGED answer
      BY <1>7, <2>4 DEF Choose, outcome
    <3>. QED  BY <2>1, <2>2, <3>1, HandingRanked
  <2>. QED  BY <2>3, <2>4
<1>8. CASE Instanciate
  <2>1. pc = "instanciate" /\ Asked /\ answer = "pending" /\ pc' = pc
    BY <1>8 DEF Instanciate, IInv, RInv
  <2>2. UNCHANGED << environment, found, input, parameters, answer >>
    BY <1>8 DEF Instanciate, outcome
  <2>. QED  BY <2>1, <2>2, HandingRanked
<1>9. CASE Instanciated
  <2>1. /\ pc = "instanciate" /\ Asked /\ answer = "pending" /\ Instanciating
        /\ ~ r <= Len(found.list)
    BY <1>9 DEF Instanciated, More, IInv, RInv
  <2>2. UNCHANGED << environment, found, input, parameters >>
    BY <1>9 DEF Instanciated
  <2>3. CASE successCount = 1
    <3>1. params \in M /\ atom = found.list[params]
      BY <2>1, <2>3 DEF Instanciating, Before, W
    <3>2. parameters[params] = V(params).slots
      BY <2>1, <3>1 DEF Handing
    <3>3. pc' = "done" /\ answer' = atom /\ handed' = parameters[params]
      BY <1>9, <2>3 DEF Instanciated, Succeed
    <3>. QED  BY <2>1, <2>2, <3>1, <3>2, <3>3, HandingDone
  <2>4. CASE successCount # 1
    BY <1>9, <2>4 DEF Instanciated, Fail, Handing, Accepted
  <2>. QED  BY <2>3, <2>4
<1>10. CASE UNCHANGED vars
  <2>1. UNCHANGED << environment, found, input, pc, r, parameters, answer, handed >>
    BY <1>10 DEF vars, solving, outcome
  <2>2. UNCHANGED << Index, M, Asked >> /\ \A i : V(i)' = V(i)
    BY <2>1, Kept DEF IInv
  <2>3. UNCHANGED Before(M, r)
    BY <2>1, <2>2 DEF Before
  <2>. QED  BY <2>1, <2>2, <2>3 DEF Handing, Accepted
<1>. QED  BY <1>1, <1>2, <1>3, <1>4, <1>5, <1>6, <1>7, <1>8, <1>9, <1>10 DEF Next

LEMMA PlacedAnswer ==
  ASSUME IInv, Handing, Posed
  PROVE  ArgumentsPlaced
<1>. SUFFICES ASSUME Accepted PROVE ArgumentsPlaced
  BY DEF ArgumentsPlaced
<1>1. Asked /\ Given
  BY DEF Handing, IInv
<1>2. PICK i \in M : answer = found.list[i] /\ handed = V(i).slots
  BY DEF Handing
<1>3. answer \in Atoms
  <2>. DEFINE list == Found.list
  <2>1. list \in Seq(Atoms) /\ found = Found
    BY <1>1, IdentifiedAs DEF Posed, Found, Asked
  <2>2. i \in 1 .. Len(list) /\ answer = list[i]
    BY <1>2, <2>1 DEF M, Index
  <2>. HIDE DEF list
  <2>. QED  BY <2>1, <2>2
<1>4. V(i) = validateAtom(answer, input, EmptySlots) /\ V(i).match # "none"
  BY <1>2 DEF V, M
<1>5. PlacedRight(answer, input, handed)
  BY <1>1, <1>2, <1>3, <1>4, FetchedSequences, ValidPlaced
<1>. QED  BY <1>5 DEF ArgumentsPlaced, PlacedRight

-----------------------------------------------------------------------------
(* The strengthening: what resolve knows of the functions found, at every  *)
(* point of its loops, holds when a call begins...                         *)
THEOREM InitInv == Init => IInv
<1> SUFFICES ASSUME Init PROVE IInv
  OBVIOUS
<1>1. PICK case \in Cases : declared = case.declared /\ call = case.call
  BY DEF Init
<1>2. declared \in Seq(Atoms) /\ Distinct(declared) /\ call.frame \in Atoms
  BY <1>1, CallsAssumption
<1>3. Sequence(Found.list) /\ Distinct(Found.list)
  <2>. DEFINE list == Found.list
  <2>1. list \in Seq(Atoms) /\ Distinct(list)
    BY <1>2, IdentifiedAs DEF Found
  <2>. HIDE DEF list
  <2>2. list \in Seq(ToSet(list))
    BY <2>1 DEF ToSet
  <2>. QED  BY <2>1, <2>2 DEF list, Sequence
<1>4. Sequence(call.indexed) /\ Sequence(call.named) /\ Sequence(call.gens)
  BY <1>1, CallsAssumption
<1>5. candidates = Candidates(Found)
  BY DEF Init
<1>6. RInv
  BY DEF Init, RInv, Untouched, States
<1>7. QED
  BY <1>3, <1>4, <1>5, <1>6 DEF IInv, Given

(* ... and every step keeps it, and decides as OverloadChoice does or      *)
(* decides nothing.                                                        *)
THEOREM StepInv ==
  ASSUME IInv, [Next]_vars
  PROVE  IInv' /\ [Promise!Resolve]_<< candidates, answer >>
BY IdentifyStep, CallStep, KnownCallStep, MatchStep, MatchedStep, ScoreStep, ScoredStep,
   ChooseStep, InstanciateStep, InstanciatedStep, StutterStep DEF Next

(* The function called by an overloaded call depends on the set of the     *)
(* functions its name stands for and on how each matches the arguments,    *)
(* never on the order of their declarations: resolve makes the choice of   *)
(* OverloadChoice, once, for every program and every call.                 *)
THEOREM Refinement == Spec => ImplementsChoice
<1>1. Init => Promise!Init
  BY DEF Init, Promise!Init
<1>2. QED
  BY <1>1, InitInv, StepInv, PTL DEF Spec, ImplementsChoice, Promise!Spec

(* A name used without a referer stands for the functions of one scope:    *)
(* those declared in the function itself, else those of the nearest class  *)
(* around it that has any, else those of the outermost scope that has any  *)
(* (atom.cpp:390-400), whatever the depth of the scopes and the order of   *)
(* the declarations.                                                       *)
THEOREM LookupRuled == Spec => []LookupAsRuled
<1>1. Spec => []Identified
  BY IdentifiedInit, IdentifiedKept, PTL DEF Spec
<1>2. Identified => LookupAsRuled
  <2>1. CASE pc = "identify"
    BY <2>1 DEF LookupAsRuled
  <2>2. CASE pc # "identify"
    BY <2>2, RuleFollowed DEF Identified
  <2>. QED  BY <2>1, <2>2
<1>. QED  BY <1>1, <1>2, PTL

(* The function called is given every argument once, at the parameter of   *)
(* its position or of its name, and no parameter of it is left without     *)
(* argument (func-overload-match.cpp, resolve's pointers into              *)
(* `parameters'), for any functions, any number of parameters and any      *)
(* arguments.                                                              *)
THEOREM ParametersPlaced == Spec => []ArgumentsPlaced
<1>1. Init => IInv /\ Handing /\ Identified
  BY InitInv, HandingInit, IdentifiedInit
<1>2. IInv /\ Handing /\ Identified /\ [Next]_vars => (IInv /\ Handing /\ Identified)'
  BY StepInv, HandingKept, IdentifiedKept
<1>3. IInv /\ Handing /\ Identified => ArgumentsPlaced
  BY PlacedAnswer DEF Identified
<1>. QED  BY <1>1, <1>2, <1>3, PTL DEF Spec
=============================================================================
