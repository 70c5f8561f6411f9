------------------------- MODULE ProducerCodeProofs -------------------------
(***************************************************************************)
(* Proofs about the code Producer leaves, for syntax trees of any size: in *)
(* a function without handlers every jump lands on the label it was        *)
(* emitted for.                                                            *)
(*                                                                         *)
(* What a visitor still has to do matters: a jump needs its label to come, *)
(* the register of a short circuit waits for one, some steps only come     *)
(* right after another.  The first part shows this of every visitor, the   *)
(* second that every step keeps it, the third draws on it.  The last part  *)
(* is about visitors again: none of their jumps leaves an object behind or *)
(* skips a declaration.                                                    *)
(***************************************************************************)
EXTENDS ProducerProofs

-----------------------------------------------------------------------------
(* Visitors.                                                               *)

(* A label of this tag is among the steps of s.                            *)
Named(s, tag) == \E m \in DOMAIN s : s[m].do = "label" /\ s[m].tag = tag

(* What the tags of steps are for.                                         *)
Kind(x) ==
  /\ x.do = "label"       => x.tag[2] \notin {"", "var", "exit"}
  /\ x.do = "alloc"       => x.tag[2] \in {"", "var"}
  /\ x.do = "alloc later" => x.tag[2] = "sc"
  /\ x.do = "register"    => x.tag[2] = "start"

(* Steps that only come right after another.                               *)
After(s, k) ==
  /\ s[k].do = "exit" => k > 1 /\ s[k - 1].do = "register"
  /\ s[k].do = "alloc" /\ s[k].tag[2] = "var" =>
       k > 1 /\ s[k - 1].do = "label" /\ s[k - 1].tag = << s[k].tag[1], "start" >>

(* The steps that follow the label of a short circuit.                     *)
Reserves(s, k) ==
  s[k].do = "label" /\ s[k].tag[2] = "sc" =>
    /\ k + 3 <= Len(s)
    /\ s[k + 1] = Do("reserve") /\ s[k + 2] = ScopeEnd /\ s[k + 3] = Alloc

(* The handler registered is the next step's, and was given a label.       *)
LeftNext(s, k) ==
  s[k].do = "register" =>
    /\ k + 1 <= Len(s)
    /\ s[k + 1].do = "exit" /\ s[k + 1].op = s[k].op /\ s[k + 1].tag = s[k].tag

Begun(s, k) ==
  s[k].do = "register" =>
    \E j \in DOMAIN s : j < k /\ s[j].do = "label" /\ s[j].tag = s[k].tag

(* The label a register waits for.                                         *)
Awaited(s, k) ==
  s[k].do = "alloc later" =>
    \E m \in DOMAIN s : m > k /\ s[m].do = "label" /\ s[m].tag = s[k].tag

(* A label, and the register that waits for it, are there once.            *)
Once(s) ==
  \A k, m \in DOMAIN s :
    (s[k].do \in {"label", "alloc later"} /\ s[m].do = s[k].do /\ s[m].tag = s[k].tag) => k = m

(* An instruction is emitted before any child is visited.                  *)
Fresh(s) ==
  \E k \in 1 .. 3 : /\ k <= Len(s) /\ s[k].do \in {"emit", "alloc"}
                    /\ \A j \in 1 .. k - 1 : s[j].do = "enter"

(* A visitor that starts at the offset `at'.                               *)
Visitor(s, at) ==
  /\ s \in Steps
  /\ \A k \in DOMAIN s :
       /\ Kind(s[k]) /\ After(s, k) /\ Reserves(s, k) /\ Awaited(s, k)
       /\ LeftNext(s, k) /\ Begun(s, k)
       /\ s[k].do # "finish"
       /\ s[k].tag = NoTag \/ (s[k].tag[1] = at /\ Fresh(s))
       /\ s[k].do = "jump" => Named(s, s[k].tag)
       /\ s[k].do = "label" /\ s[k].tag[2] = "sc" =>
            \E j \in DOMAIN s : j < k /\ s[j].do = "alloc later" /\ s[j].tag = s[k].tag
  /\ Once(s)

-----------------------------------------------------------------------------
(* Most visitors are made of parts that have none of the steps with a      *)
(* place: L and J are the names of their labels and of their jumps.        *)

Ordinary(x) ==
  /\ x.do \in {"emit", "alloc", "jzraise", "enter", "leave", "stmt", "stmts", "expr"}
  /\ x.tag = NoTag

Part(s, at, L, J) ==
  /\ s \in Steps
  /\ \A k \in DOMAIN s :
       \/ Ordinary(s[k])
       \/ s[k].do = "label" /\ s[k].tag[1] = at /\ s[k].tag = << at, s[k].tag[2] >>
            /\ s[k].tag[2] \in L
       \/ s[k].do = "jump"  /\ s[k].tag[1] = at /\ s[k].tag = << at, s[k].tag[2] >>
            /\ s[k].tag[2] \in J
  /\ \A name \in L : Named(s, << at, name >>)
  /\ Once(s)

LEMMA Lengths ==
  ASSUME NEW s \in Steps
  PROVE  DOMAIN s = 1 .. Len(s) /\ Len(s) \in Nat /\ \A k \in DOMAIN s : k \in Nat \ {0}
BY DEF Steps

LEMMA SameShift ==
  ASSUME NEW k \in Nat, NEW m \in Nat, NEW n \in Nat, k - n = m - n
  PROVE  k = m
OBVIOUS

LEMMA Concat ==
  ASSUME NEW s \in Steps, NEW t \in Steps
  PROVE  /\ s \o t \in Steps /\ Len(s \o t) = Len(s) + Len(t)
         /\ Len(s) \in Nat /\ Len(t) \in Nat
         /\ \A k \in DOMAIN s : k \in DOMAIN (s \o t) /\ (s \o t)[k] = s[k]
         /\ \A k \in DOMAIN t : k + Len(s) \in DOMAIN (s \o t) /\ (s \o t)[k + Len(s)] = t[k]
         /\ \A k \in DOMAIN (s \o t) :
              \/ k \in DOMAIN s
              \/ k - Len(s) \in DOMAIN t /\ (s \o t)[k] = t[k - Len(s)] /\ k > Len(s)
BY DEF Steps

LEMMA NamedConcat ==
  ASSUME NEW s \in Steps, NEW t \in Steps, NEW tag
  PROVE  Named(s \o t, tag) <=> Named(s, tag) \/ Named(t, tag)
<1>. DEFINE c == s \o t
<1>1. /\ \A k \in DOMAIN s : k \in DOMAIN c /\ c[k] = s[k]
      /\ \A k \in DOMAIN t : k + Len(s) \in DOMAIN c /\ c[k + Len(s)] = t[k]
      /\ \A k \in DOMAIN c :
           k \in DOMAIN s \/ (k - Len(s) \in DOMAIN t /\ c[k] = t[k - Len(s)])
  BY Concat
<1>. HIDE DEF c
<1>2. Named(c, tag) <=> Named(s, tag) \/ Named(t, tag)
  BY <1>1 DEF Named
<1>. QED  BY <1>2 DEF c

(* A label or a waiting register in both parts is there twice.             *)
LEMMA OnceConcat ==
  ASSUME NEW s \in Steps, NEW t \in Steps, Once(s), Once(t),
         \A k \in DOMAIN s, m \in DOMAIN t :
           ~ (s[k].do \in {"label", "alloc later"} /\ t[m].do = s[k].do /\ t[m].tag = s[k].tag)
  PROVE  Once(s \o t)
<1>. DEFINE c == s \o t
<1>1. /\ \A k \in DOMAIN s : k \in DOMAIN c /\ c[k] = s[k]
      /\ \A k \in DOMAIN c :
           k \in DOMAIN s \/ (k - Len(s) \in DOMAIN t /\ c[k] = t[k - Len(s)])
      /\ Len(s) \in Nat /\ c \in Steps
  BY Concat, ZenonT(30)
<1>. HIDE DEF c
<1>4. \A k \in DOMAIN c : k \in Nat
  BY <1>1, Lengths
<1>2. ASSUME NEW k \in DOMAIN c, NEW m \in DOMAIN c,
             c[k].do \in {"label", "alloc later"}, c[m].do = c[k].do, c[m].tag = c[k].tag
      PROVE  k = m
  <2>1. CASE k \in DOMAIN s /\ m \in DOMAIN s
    BY <1>1, <1>2, <2>1 DEF Once
  <2>2. CASE /\ k - Len(s) \in DOMAIN t /\ c[k] = t[k - Len(s)]
             /\ m - Len(s) \in DOMAIN t /\ c[m] = t[m - Len(s)]
    <3>1. k - Len(s) = m - Len(s)
      BY <1>2, <2>2 DEF Once
    <3>2. k \in Nat /\ m \in Nat /\ Len(s) \in Nat
      BY <1>4, Lengths
    <3>. QED  BY <3>1, <3>2, SameShift
  <2>3. CASE /\ k \in DOMAIN s /\ m - Len(s) \in DOMAIN t /\ c[m] = t[m - Len(s)]
    BY <1>1, <1>2, <2>3
  <2>4. CASE /\ m \in DOMAIN s /\ k - Len(s) \in DOMAIN t /\ c[k] = t[k - Len(s)]
    BY <1>1, <1>2, <2>4, ZenonT(30)
  <2>. QED  BY <1>1, <2>1, <2>2, <2>3, <2>4
<1>3. Once(c)
  BY <1>2 DEF Once
<1>. QED  BY <1>3 DEF c

LEMMA PartConcat ==
  ASSUME NEW at, NEW L1, NEW J1, NEW L2, NEW J2, NEW s, NEW t,
         Part(s, at, L1, J1), Part(t, at, L2, J2), L1 \cap L2 = {}
  PROVE  Part(s \o t, at, L1 \cup L2, J1 \cup J2)
<1>. DEFINE c == s \o t
<1>1. s \in Steps /\ t \in Steps
  BY DEF Part
<1>2. /\ \A k \in DOMAIN s : k \in DOMAIN c /\ c[k] = s[k]
      /\ \A k \in DOMAIN c :
           k \in DOMAIN s \/ (k - Len(s) \in DOMAIN t /\ c[k] = t[k - Len(s)])
      /\ c \in Steps
  BY <1>1, Concat
<1>3. \A tag : Named(c, tag) <=> Named(s, tag) \/ Named(t, tag)
  BY <1>1, NamedConcat
<1>4. Once(c)
  <2>1. ASSUME NEW k \in DOMAIN s, NEW m \in DOMAIN t,
               s[k].do \in {"label", "alloc later"}, t[m].do = s[k].do, t[m].tag = s[k].tag
        PROVE  FALSE
    <3>1. s[k].tag[2] \in L1 /\ t[m].tag[2] \in L2
      BY <2>1 DEF Part, Ordinary
    <3>. QED  BY <2>1, <3>1
  <2>. QED  BY <1>1, <2>1, OnceConcat DEF Part
<1>. HIDE DEF c
<1>5. Part(c, at, L1 \cup L2, J1 \cup J2)
  BY <1>2, <1>3, <1>4 DEF Part
<1>. QED  BY <1>5 DEF c

(* The parts.                                                              *)
LEMMA NoPart == \A at : Part(<< >>, at, {}, {})
BY DEF Part, Once, Steps

LEMMA Single ==
  ASSUME NEW x \in Step
  PROVE  << x >> \in Steps /\ DOMAIN << x >> = {1} /\ << x >>[1] = x
<1>1. DOMAIN << x >> = 1 .. 1 /\ 1 .. 1 = {1}
  OBVIOUS
<1>. QED  BY <1>1, FewSteps

LEMMA OnePart ==
  ASSUME NEW at, NEW x \in Step, Ordinary(x)
  PROVE  Part(<< x >>, at, {}, {})
<1>. DEFINE s == << x >>
<1>1. s \in Steps /\ DOMAIN s = {1} /\ s[1] = x
  BY Single
<1>. HIDE DEF s
<1>2. Part(s, at, {}, {})
  BY <1>1 DEF Part, Once
<1>. QED  BY <1>2 DEF s

LEMMA LabelPart ==
  ASSUME NEW at \in Nat, NEW name \in Names
  PROVE  /\ Part(<< Label(at, name) >>, at, {name}, {})
         /\ \A op \in Jumps : Part(<< Jump(op, at, name) >>, at, {}, {name})
<1>1. Label(at, name) \in Step /\ \A op \in Jumps : Jump(op, at, name) \in Step
  BY DEF Label, Jump, Step, Tag, Names
<1>2. Part(<< Label(at, name) >>, at, {name}, {})
  <2>. DEFINE x == Label(at, name)
  <2>1. x \in Step /\ x.do = "label" /\ x.tag = << at, name >>
    BY <1>1 DEF Label
  <2>. DEFINE s == << x >>
  <2>2. s \in Steps /\ DOMAIN s = {1} /\ s[1] = x
    BY <2>1, Single
  <2>. HIDE DEF x, s
  <2>3. Part(s, at, {name}, {})
    BY <2>1, <2>2 DEF Part, Once, Named
  <2>. QED  BY <2>3 DEF x, s
<1>3. ASSUME NEW op \in Jumps PROVE Part(<< Jump(op, at, name) >>, at, {}, {name})
  <2>. DEFINE x == Jump(op, at, name)
  <2>1. x \in Step /\ x.do = "jump" /\ x.tag = << at, name >>
    BY <1>1 DEF Jump
  <2>. DEFINE s == << x >>
  <2>2. s \in Steps /\ DOMAIN s = {1} /\ s[1] = x
    BY <2>1, Single
  <2>. HIDE DEF x, s
  <2>3. Part(s, at, {}, {name})
    BY <2>1, <2>2 DEF Part, Once, Named
  <2>. QED  BY <2>3 DEF x, s
<1>. QED  BY <1>2, <1>3

LEMMA OrdinarySteps ==
  /\ Ordinary(Alloc) /\ Ordinary(AllocBool) /\ Ordinary(Enter) /\ Ordinary(Leave)
  /\ Ordinary(Expr) /\ Ordinary(Stmt) /\ Ordinary(ScopeBegin) /\ Ordinary(ScopeEnd)
  /\ Ordinary(Do("jzraise")) /\ Ordinary(Do("stmts"))
  /\ Ordinary(Emit("ret")) /\ Ordinary(Emit("raise"))
BY DEF Ordinary, Alloc, AllocBool, Enter, Leave, Expr, Stmt, ScopeBegin, ScopeEnd, Do, Emit

LEMMA LockedPart ==
  ASSUME NEW at, NEW L, NEW J, NEW s, Part(s, at, L, J)
  PROVE  Part(Locked(s), at, L, J)
<1>1. Part(<< ScopeBegin >>, at, {}, {}) /\ Part(<< ScopeEnd >>, at, {}, {})
  BY OnePart, OneStep, OrdinarySteps
<1>2. Part(<< ScopeBegin >> \o s, at, {} \cup L, {} \cup J)
  BY <1>1, PartConcat
<1>3. Part((<< ScopeBegin >> \o s) \o << ScopeEnd >>, at, ({} \cup L) \cup {}, ({} \cup J) \cup {})
  BY <1>1, <1>2, PartConcat
<1>4. ({} \cup L) \cup {} = L /\ ({} \cup J) \cup {} = J
  OBVIOUS
<1>. QED  BY <1>3, <1>4 DEF Locked

LEMMA PartVisitor ==
  ASSUME NEW at \in Nat, NEW L, NEW J, NEW s, Part(s, at, L, J), J \subseteq L,
         L \subseteq Names \ {"", "var", "sc", "exit"}, Fresh(s) \/ L = {}
  PROVE  Visitor(s, at)
<1>1. ASSUME NEW k \in DOMAIN s
      PROVE  /\ Kind(s[k]) /\ s[k].do \notin {"finish", "exit", "alloc later", "register"}
             /\ s[k].tag = NoTag \/ (s[k].tag[1] = at /\ Fresh(s))
             /\ s[k].do = "alloc" => s[k].tag[2] # "var"
             /\ s[k].do = "label" => s[k].tag[2] # "sc"
             /\ s[k].do = "jump" => Named(s, s[k].tag)
  <2>1. NoTag[2] = ""
    BY DEF NoTag
  <2>2. CASE Ordinary(s[k])
    BY <2>1, <2>2 DEF Ordinary, Kind
  <2>3. CASE s[k].do = "label" /\ s[k].tag[1] = at /\ s[k].tag[2] \in L
    BY <2>3 DEF Kind
  <2>4. CASE s[k].do = "jump" /\ s[k].tag[1] = at /\ s[k].tag = << at, s[k].tag[2] >>
             /\ s[k].tag[2] \in J
    BY <2>4 DEF Kind, Part
  <2>. QED  BY <2>2, <2>3, <2>4 DEF Part
<1>2. s \in Steps /\ Once(s)
  BY DEF Part
<1>. QED  BY <1>1, <1>2 DEF Visitor, After, Reserves, Awaited, LeftNext, Begun

LEMMA FreshConcat ==
  ASSUME NEW s \in Steps, NEW t \in Steps, Fresh(s)
  PROVE  Fresh(s \o t)
<1>. DEFINE c == s \o t
<1>1. /\ DOMAIN s = 1 .. Len(s) /\ Len(s) \in Nat /\ Len(c) = Len(s) + Len(t) /\ Len(t) \in Nat
      /\ \A k \in DOMAIN s : c[k] = s[k]
  BY Concat, Lengths
<1>. HIDE DEF c
<1>2. PICK k \in 1 .. 3 : /\ k <= Len(s) /\ s[k].do \in {"emit", "alloc"}
                          /\ \A j \in 1 .. k - 1 : s[j].do = "enter"
  BY DEF Fresh
<1>3. k <= Len(c) /\ k \in DOMAIN s /\ \A j \in 1 .. k - 1 : j \in DOMAIN s
  BY <1>1, <1>2
<1>4. c[k].do \in {"emit", "alloc"} /\ \A j \in 1 .. k - 1 : c[j].do = "enter"
  BY <1>1, <1>2, <1>3
<1>5. Fresh(c)
  BY <1>3, <1>4 DEF Fresh
<1>. QED  BY <1>5 DEF c

LEMMA FreshStart ==
  ASSUME NEW x \in Step, NEW y \in Step, x.do \in {"emit", "alloc"}
  PROVE  /\ Fresh(<< x >>) /\ Fresh(<< x, y >>)
         /\ y.do = "enter" => Fresh(<< y, x >>)
<1>1. Fresh(<< x >>)
  BY DEF Fresh
<1>2. Fresh(<< x, y >>)
  BY DEF Fresh
<1>3. ASSUME y.do = "enter" PROVE Fresh(<< y, x >>)
  <2>. DEFINE s == << y, x >>
  <2>1. Len(s) = 2 /\ s[1] = y /\ s[2] = x
    OBVIOUS
  <2>. HIDE DEF s
  <2>2. Fresh(s)
    <3>1. 2 \in 1 .. 3 /\ 2 <= Len(s) /\ s[2].do \in {"emit", "alloc"}
          /\ \A j \in 1 .. 2 - 1 : s[j].do = "enter"
      BY <1>3, <2>1
    <3>. QED  BY <3>1 DEF Fresh
  <2>. QED  BY <2>2 DEF s
<1>. QED  BY <1>1, <1>2, <1>3

LEMMA FreshLocked ==
  ASSUME NEW s \in Steps
  PROVE  Fresh(Locked(s))
<1>1. << ScopeBegin >> \in Steps /\ << ScopeEnd >> \in Steps /\ ScopeBegin \in Step
  BY OneStep, FewSteps
<1>2. Fresh(<< ScopeBegin >>)
  BY <1>1, FreshStart DEF ScopeBegin, Emit
<1>3. Fresh(<< ScopeBegin >> \o s)
  BY <1>1, <1>2, FreshConcat
<1>. QED  BY <1>1, <1>3, FreshConcat, ConcatSteps DEF Locked

-----------------------------------------------------------------------------
(* The visitors of expressions and statements.                             *)

LEMMA TwoSteps ==
  ASSUME NEW S, NEW a \in S, NEW b \in S
  PROVE  << a, b >> = << a >> \o << b >>
<1>. DEFINE s == << a >>
            t == << b >>
            u == << a, b >>
<1>1. /\ s \in Seq(S) /\ t \in Seq(S) /\ u \in Seq(S) /\ Len(u) = 2 /\ Len(s) = 1 /\ Len(t) = 1
      /\ s[1] = a /\ t[1] = b /\ u[1] = a /\ u[2] = b
  OBVIOUS
<1>. HIDE DEF s, t, u
<1>2. s \o t \in Seq(S) /\ Len(s \o t) = 2 /\ (s \o t)[1] = a /\ (s \o t)[2] = b
  <2>1. /\ s \o t \in Seq(S) /\ Len(s \o t) = Len(s) + Len(t)
        /\ \A i \in 1 .. Len(s) + Len(t) :
             (s \o t)[i] = IF i <= Len(s) THEN s[i] ELSE t[i - Len(s)]
    BY <1>1, ConcatProperties
  <2>. QED  BY <1>1, <2>1
<1>3. s \o t = u
  <2>1. \A i \in 1 .. 2 : i = 1 \/ i = 2
    OBVIOUS
  <2>2. \A i \in 1 .. Len(s \o t) : (s \o t)[i] = u[i]
    BY <1>1, <1>2, <2>1
  <2>. QED  BY <1>1, <1>2, <2>2, SeqEqual
<1>. QED  BY <1>3, Zenon DEF s, t, u

LEMMA PairPart ==
  ASSUME NEW at, NEW L1, NEW J1, NEW L2, NEW J2, NEW a \in Step, NEW b \in Step,
         Part(<< a >>, at, L1, J1), Part(<< b >>, at, L2, J2), L1 \cap L2 = {}
  PROVE  Part(<< a, b >>, at, L1 \cup L2, J1 \cup J2)
<1>1. Part(<< a >> \o << b >>, at, L1 \cup L2, J1 \cup J2)
  BY PartConcat
<1>. QED  BY <1>1, TwoSteps, Zenon

LEMMA OrdinaryPair ==
  ASSUME NEW at, NEW a \in Step, NEW b \in Step, Ordinary(a), Ordinary(b)
  PROVE  Part(<< a, b >>, at, {}, {})
<1>1. Part(<< a, b >>, at, {} \cup {}, {} \cup {})
  BY OnePart, PairPart
<1>. QED  BY <1>1

LEMMA OrdinaryConcat ==
  ASSUME NEW at, NEW s, NEW t, Part(s, at, {}, {}), Part(t, at, {}, {})
  PROVE  Part(s \o t, at, {}, {})
<1>1. Part(s \o t, at, {} \cup {}, {} \cup {})
  BY PartConcat
<1>. QED  BY <1>1

LEMMA OrdinaryTriple ==
  ASSUME NEW at, NEW a \in Step, NEW b \in Step, NEW c \in Step,
         Ordinary(a), Ordinary(b), Ordinary(c)
  PROVE  Part(<< a, b, c >>, at, {}, {})
<1>1. << a, b, c >> = << a, b >> \o << c >>
  OBVIOUS
<1>. QED  BY <1>1, OnePart, OrdinaryPair, OrdinaryConcat

(* Visitors without labels are parts whatever the offset.                  *)
LEMMA OrdinaryParts ==
  ASSUME NEW at
  PROVE  /\ Part(<< Expr >>, at, {}, {}) /\ Part(<< Stmt >>, at, {}, {})
         /\ Part(<< Alloc >>, at, {}, {}) /\ Part(<< AllocBool >>, at, {}, {})
         /\ Part(<< Enter >>, at, {}, {}) /\ Part(<< Leave >>, at, {}, {})
         /\ Part(<< Do("stmts") >>, at, {}, {})
         /\ Part(Identifier, at, {}, {}) /\ Part(CallNoParameter, at, {}, {})
         /\ \A s : Part(s, at, {}, {}) => Part(Called(s), at, {}, {})
         /\ Part(Block, at, {}, {}) /\ Part(BlockStmt, at, {}, {}) /\ Part(ExprStmt, at, {}, {})
         /\ Part(Var, at, {}, {}) /\ Part(Return, at, {}, {})
         /\ Part(ReturnVoid, at, {}, {}) /\ Part(Raise, at, {}, {})
<1>. USE OneStep, OrdinarySteps
<1>1. /\ Part(<< Expr >>, at, {}, {}) /\ Part(<< Stmt >>, at, {}, {})
      /\ Part(<< Alloc >>, at, {}, {}) /\ Part(<< AllocBool >>, at, {}, {})
      /\ Part(<< Enter >>, at, {}, {}) /\ Part(<< Leave >>, at, {}, {})
      /\ Part(<< Do("stmts") >>, at, {}, {})
      /\ Part(ReturnVoid, at, {}, {})
  BY OnePart DEF ReturnVoid
<1>2. Part(Identifier, at, {}, {})
  BY OrdinaryTriple DEF Identifier
<1>3. Part(<< Enter, Alloc, Alloc, Alloc >>, at, {}, {})
  <2>1. << Enter, Alloc, Alloc, Alloc >> = << Enter, Alloc >> \o << Alloc, Alloc >>
    OBVIOUS
  <2>2. Part(<< Enter, Alloc >>, at, {}, {}) /\ Part(<< Alloc, Alloc >>, at, {}, {})
    BY OrdinaryPair
  <2>. QED  BY <2>1, <2>2, OrdinaryConcat
<1>4. Part(<< Do("jzraise"), Leave >>, at, {}, {})
  BY OrdinaryPair
<1>5. Part(CallNoParameter, at, {}, {})
  <2>1. CallNoParameter = << Enter, Alloc, Alloc, Alloc >> \o << Do("jzraise"), Leave >>
    BY DEF CallNoParameter
  <2>. QED  BY <1>3, <1>4, <2>1, OrdinaryConcat
<1>6. ASSUME NEW s, Part(s, at, {}, {}) PROVE Part(Called(s), at, {}, {})
  <2>1. Part(<< Enter, Alloc, Alloc, Alloc >> \o Locked(s), at, {}, {})
    BY <1>3, <1>6, LockedPart, OrdinaryConcat
  <2>. QED  BY <1>4, <2>1, OrdinaryConcat DEF Called
<1>7. Part(Block, at, {}, {}) /\ Part(ExprStmt, at, {}, {})
  BY <1>1, OrdinaryTriple, LockedPart DEF Block, ExprStmt
<1>8. Part(BlockStmt, at, {}, {})
  <2>1. Part((<< Enter >> \o Block) \o << Leave >>, at, {}, {})
    BY <1>1, <1>7, OrdinaryConcat
  <2>. QED  BY <2>1, LockedPart DEF BlockStmt
<1>9. Part(Var, at, {}, {})
  <2>1. Part(Locked(<< Expr >>), at, {}, {})
    BY <1>1, LockedPart
  <2>. QED  BY <1>1, <2>1, OrdinaryConcat DEF Var
<1>10. Part(Return, at, {}, {}) /\ Part(Raise, at, {}, {})
  BY OrdinaryPair, OrdinaryTriple, LockedPart DEF Return, Raise
<1>. QED  BY <1>1, <1>2, <1>5, <1>6, <1>7, <1>8, <1>9, <1>10

LEMMA OrdinaryVisitors ==
  ASSUME NEW at \in Nat
  PROVE  /\ Visitor(Identifier, at) /\ Visitor(CallNoParameter, at) /\ Visitor(CallWithParameters, at)
         /\ Visitor(BlockStmt, at) /\ Visitor(ExprStmt, at) /\ Visitor(Var, at)
         /\ Visitor(Return, at) /\ Visitor(ReturnVoid, at) /\ Visitor(Raise, at)
         /\ Visitor(<< >>, at)
<1>1. ASSUME NEW s, Part(s, at, {}, {}) PROVE Visitor(s, at)
  BY <1>1, PartVisitor
<1>. QED  BY <1>1, OrdinaryParts, NoPart DEF CallWithParameters

(* Conditionals and loops: their jumps have labels of their own.           *)
LEMMA IfElsePart ==
  ASSUME NEW at \in Nat, NEW clause, Part(clause, at, {}, {})
  PROVE  Part(IfElse(at, clause), at, {"else", "end"}, {"else", "end"}) /\ Fresh(IfElse(at, clause))
<1>. USE OneStep
<1>. DEFINE p1 == << AllocBool >>
            p2 == Locked(<< Expr >>)
            p3 == << Jump("jz", at, "else") >>
            p4 == Locked(clause)
            p5 == << Jump("jmp", at, "end"), Label(at, "else") >>
            p6 == << Label(at, "end") >>
<1>1. Part(p1, at, {}, {}) /\ Part(p2, at, {}, {}) /\ Part(p4, at, {}, {})
  BY OrdinaryParts, LockedPart
<1>2. Part(p3, at, {}, {"else"}) /\ Part(p6, at, {"end"}, {})
  BY LabelPart DEF Names, Jumps
<1>3. Part(p5, at, {"else"}, {"end"})
  <2>1. Part(<< Jump("jmp", at, "end") >>, at, {}, {"end"}) /\ Part(<< Label(at, "else") >>, at, {"else"}, {})
    BY LabelPart DEF Names, Jumps
  <2>2. Jump("jmp", at, "end") \in Step /\ Label(at, "else") \in Step
    BY TaggedStep DEF Names
  <2>3. Part(p5, at, {} \cup {"else"}, {"end"} \cup {})
    BY <2>1, <2>2, PairPart
  <2>. QED  BY <2>3
<1>. HIDE DEF p1, p2, p3, p4, p5, p6
<1>4. Part(p1 \o p2, at, {}, {})
  BY <1>1, OrdinaryConcat
<1>5. Part((p1 \o p2) \o p3, at, {}, {"else"})
  <2>1. Part((p1 \o p2) \o p3, at, {} \cup {}, {} \cup {"else"})
    BY <1>2, <1>4, PartConcat
  <2>. QED  BY <2>1
<1>6. Part(((p1 \o p2) \o p3) \o p4, at, {}, {"else"})
  <2>1. Part(((p1 \o p2) \o p3) \o p4, at, {} \cup {}, {"else"} \cup {})
    BY <1>1, <1>5, PartConcat
  <2>. QED  BY <2>1
<1>7. Part((((p1 \o p2) \o p3) \o p4) \o p5, at, {"else"}, {"else", "end"})
  <2>1. Part((((p1 \o p2) \o p3) \o p4) \o p5, at, {} \cup {"else"}, {"else"} \cup {"end"})
    BY <1>3, <1>6, PartConcat
  <2>2. {} \cup {"else"} = {"else"} /\ {"else"} \cup {"end"} = {"else", "end"}
    OBVIOUS
  <2>. QED  BY <2>1, <2>2
<1>8. Part(((((p1 \o p2) \o p3) \o p4) \o p5) \o p4, at, {"else"}, {"else", "end"})
  <2>1. Part(((((p1 \o p2) \o p3) \o p4) \o p5) \o p4, at, {"else"} \cup {}, {"else", "end"} \cup {})
    BY <1>1, <1>7, PartConcat
  <2>. QED  BY <2>1
<1>. DEFINE s == (((((p1 \o p2) \o p3) \o p4) \o p5) \o p4) \o p6
<1>9. Part(s, at, {"else", "end"}, {"else", "end"})
  <2>1. Part(s, at, {"else"} \cup {"end"}, {"else", "end"} \cup {})
    BY <1>2, <1>8, PartConcat
  <2>2. {"else"} \cup {"end"} = {"else", "end"} /\ {"else", "end"} \cup {} = {"else", "end"}
    OBVIOUS
  <2>. QED  BY <2>1, <2>2
<1>10. Fresh(s)
  <2>1. Fresh(p1)
    BY FreshStart DEF p1, AllocBool
  <2>. QED  BY <2>1, <1>1, <1>2, <1>3, FreshConcat, ConcatSteps DEF Part
<1>. QED  BY <1>9, <1>10 DEF IfElse, s, p1, p2, p3, p4, p5, p6

LEMMA Joined ==
  ASSUME NEW at, NEW L1, NEW J1, NEW L2, NEW J2, NEW L, NEW J, NEW s, NEW t,
         Part(s, at, L1, J1), Part(t, at, L2, J2), L1 \cap L2 = {},
         L = L1 \cup L2, J = J1 \cup J2
  PROVE  Part(s \o t, at, L, J)
BY PartConcat

LEMMA IfPart ==
  ASSUME NEW at \in Nat
  PROVE  /\ Part(If(at, << Expr >>, << Stmt >>), at, {"end"}, {"end"})
         /\ Fresh(If(at, << Expr >>, << Stmt >>))
<1>. USE OneStep
<1>. DEFINE p1 == << AllocBool >>
            p2 == Locked(<< Expr >>)
            p3 == << Jump("jz", at, "end") >>
            p4 == Locked(<< Stmt >>)
            p5 == << Label(at, "end") >>
            s == (((p1 \o p2) \o p3) \o p4) \o p5
<1>1. Part(p1, at, {}, {}) /\ Part(p2, at, {}, {}) /\ Part(p4, at, {}, {})
  BY OrdinaryParts, LockedPart
<1>2. Part(p3, at, {}, {"end"}) /\ Part(p5, at, {"end"}, {})
  BY LabelPart DEF Names, Jumps
<1>3. Fresh(p1)
  BY FreshStart DEF AllocBool
<1>. HIDE DEF p1, p2, p3, p4, p5
<1>4. Part(p1 \o p2, at, {}, {})
  BY <1>1, OrdinaryConcat
<1>5. Part((p1 \o p2) \o p3, at, {}, {"end"})
  BY <1>2, <1>4, Joined
<1>6. Part(((p1 \o p2) \o p3) \o p4, at, {}, {"end"})
  BY <1>1, <1>5, Joined
<1>7. Part(s, at, {"end"}, {"end"})
  BY <1>2, <1>6, Joined
<1>8. Fresh(s)
  BY <1>1, <1>2, <1>3, FreshConcat, ConcatSteps DEF Part
<1>. QED  BY <1>7, <1>8 DEF If, s, p1, p2, p3, p4, p5

LEMMA LoopParts ==
  ASSUME NEW at \in Nat
  PROVE  /\ Part(While(at), at, {"while", "end"}, {"while", "end"}) /\ Fresh(While(at))
         /\ Part(DoWhile(at), at, {"while"}, {"while"}) /\ Fresh(DoWhile(at))
<1>. USE OneStep
<1>1. /\ Part(<< AllocBool >>, at, {}, {}) /\ Part(Locked(<< Expr >>), at, {}, {})
      /\ Part(Locked(<< Stmt >>), at, {}, {})
  BY OrdinaryParts, LockedPart
<1>2. /\ Part(<< Label(at, "while") >>, at, {"while"}, {}) /\ Part(<< Label(at, "end") >>, at, {"end"}, {})
      /\ Part(<< Jump("jz", at, "end") >>, at, {}, {"end"})
      /\ Part(<< Jump("jmp", at, "while") >>, at, {}, {"while"})
      /\ Part(<< Jump("jnz", at, "while") >>, at, {}, {"while"})
  BY LabelPart DEF Names, Jumps
<1>3. /\ Label(at, "while") \in Step /\ Label(at, "end") \in Step /\ Jump("jmp", at, "while") \in Step
  BY TaggedStep DEF Names
<1>4. Part(While(at), at, {"while", "end"}, {"while", "end"}) /\ Fresh(While(at))
  <2>. DEFINE p1 == << Label(at, "while"), AllocBool >>
              p2 == Locked(<< Expr >>)
              p3 == << Jump("jz", at, "end") >>
              p4 == Locked(<< Stmt >>)
              p5 == << Jump("jmp", at, "while"), Label(at, "end") >>
              s == (((p1 \o p2) \o p3) \o p4) \o p5
  <2>1. Part(p1, at, {"while"}, {})
    <3>1. Part(p1, at, {"while"} \cup {}, {} \cup {})
      BY <1>1, <1>2, <1>3, PairPart
    <3>. QED  BY <3>1
  <2>2. Part(p5, at, {"end"}, {"while"})
    <3>1. Part(p5, at, {} \cup {"end"}, {"while"} \cup {})
      BY <1>2, <1>3, PairPart
    <3>. QED  BY <3>1
  <2>. HIDE DEF p1, p2, p3, p4, p5
  <2>3. Part(p2, at, {}, {}) /\ Part(p3, at, {}, {"end"}) /\ Part(p4, at, {}, {})
    BY <1>1, <1>2 DEF p2, p3, p4
  <2>4. Part(p1 \o p2, at, {"while"}, {})
    BY <2>1, <2>3, Joined
  <2>5. Part((p1 \o p2) \o p3, at, {"while"}, {"end"})
    BY <2>3, <2>4, Joined
  <2>6. Part(((p1 \o p2) \o p3) \o p4, at, {"while"}, {"end"})
    BY <2>3, <2>5, Joined
  <2>7. Part(s, at, {"while", "end"}, {"while", "end"})
    <3>1. {"while", "end"} = {"while"} \cup {"end"} /\ {"while", "end"} = {"end"} \cup {"while"}
          /\ {"while"} \cap {"end"} = {}
      OBVIOUS
    <3>. QED  BY <2>2, <2>6, <3>1, Joined
  <2>8. s \in Steps
    BY <2>7 DEF Part
  <2>9. While(at) = Locked(s)
    BY DEF While, s, p1, p2, p3, p4, p5
  <2>. HIDE DEF s
  <2>. QED  BY <2>7, <2>8, <2>9, LockedPart, FreshLocked
<1>5. Part(DoWhile(at), at, {"while"}, {"while"}) /\ Fresh(DoWhile(at))
  <2>. DEFINE p1 == << Label(at, "while") >>
              p2 == Locked(<< Stmt >>)
              p3 == << AllocBool >>
              p4 == Locked(<< Expr >>)
              p5 == << Jump("jnz", at, "while") >>
              s == (((p1 \o p2) \o p3) \o p4) \o p5
  <2>. HIDE DEF p1, p2, p3, p4, p5
  <2>3. /\ Part(p1, at, {"while"}, {}) /\ Part(p2, at, {}, {}) /\ Part(p3, at, {}, {})
        /\ Part(p4, at, {}, {}) /\ Part(p5, at, {}, {"while"})
    BY <1>1, <1>2 DEF p1, p2, p3, p4, p5
  <2>4. Part(p1 \o p2, at, {"while"}, {})
    BY <2>3, Joined
  <2>5. Part((p1 \o p2) \o p3, at, {"while"}, {})
    BY <2>3, <2>4, Joined
  <2>6. Part(((p1 \o p2) \o p3) \o p4, at, {"while"}, {})
    BY <2>3, <2>5, Joined
  <2>7. Part(s, at, {"while"}, {"while"})
    BY <2>3, <2>6, Joined
  <2>8. s \in Steps
    BY <2>7 DEF Part
  <2>9. DoWhile(at) = Locked(s)
    BY DEF DoWhile, s, p1, p2, p3, p4, p5
  <2>. HIDE DEF s
  <2>. QED  BY <2>7, <2>8, <2>9, LockedPart, FreshLocked
<1>. QED  BY <1>4, <1>5

LEMMA CasePart ==
  ASSUME NEW at \in Nat, NEW name \in Names
  PROVE  Part(Case(at, name), at, {name}, {name, "end"})
<1>. USE OneStep
<1>. DEFINE p1 == << AllocBool >>
            p2 == Locked(Called(<< Enter, Leave, Expr >>))
            p3 == << Jump("jz", at, name) >>
            p4 == Locked(<< Stmt >>)
            p5 == << Jump("jmp", at, "end"), Label(at, name) >>
            s == (((p1 \o p2) \o p3) \o p4) \o p5
<1>1. "end" \in Names /\ "jz" \in Jumps /\ "jmp" \in Jumps
  BY DEF Names, Jumps
<1>2. Part(p5, at, {name}, {"end"})
  <2>1. Part(<< Jump("jmp", at, "end") >>, at, {}, {"end"}) /\ Part(<< Label(at, name) >>, at, {name}, {})
    BY <1>1, LabelPart
  <2>2. Jump("jmp", at, "end") \in Step /\ Label(at, name) \in Step
    BY <1>1, TaggedStep
  <2>3. Part(p5, at, {} \cup {name}, {"end"} \cup {})
    BY <2>1, <2>2, PairPart
  <2>. QED  BY <2>3
<1>3. Part(p3, at, {}, {name})
  BY <1>1, LabelPart
<1>4. Part(p1, at, {}, {}) /\ Part(p2, at, {}, {}) /\ Part(p4, at, {}, {})
  <2>1. Part(<< Enter, Leave, Expr >>, at, {}, {})
    BY OrdinaryTriple, OrdinarySteps
  <2>. QED  BY <2>1, OrdinaryParts, LockedPart
<1>. HIDE DEF p1, p2, p3, p4, p5
<1>5. Part(p1 \o p2, at, {}, {})
  BY <1>4, OrdinaryConcat
<1>6. Part((p1 \o p2) \o p3, at, {}, {name})
  BY <1>3, <1>5, Joined
<1>7. Part(((p1 \o p2) \o p3) \o p4, at, {}, {name})
  BY <1>4, <1>6, Joined
<1>8. Part(s, at, {name}, {name, "end"})
  <2>1. {name, "end"} = {name} \cup {"end"} /\ {name} = {} \cup {name} /\ {} \cap {name} = {}
    OBVIOUS
  <2>. QED  BY <1>2, <1>7, <2>1, Joined
<1>. QED  BY <1>8, LockedPart DEF Case, s, p1, p2, p3, p4, p5

LEMMA SwitchPart ==
  ASSUME NEW at \in Nat
  PROVE  /\ Part(Switch(at), at, {"case 1", "case 2", "end"}, {"case 1", "case 2", "end"})
         /\ Fresh(Switch(at))
<1>. USE OneStep
<1>1. Part(<< AllocBool, Expr >>, at, {}, {})
  BY OrdinaryPair, OrdinarySteps
<1>2. ASSUME NEW name \in {"case 1", "case 2"} PROVE Part(Case(at, name), at, {name}, {name, "end"})
  BY CasePart DEF Names
<1>3. Part(<< Label(at, "end") >>, at, {"end"}, {})
  BY LabelPart DEF Names
<1>4. Part(<< AllocBool, Expr >> \o Case(at, "case 1"), at, {"case 1"}, {"case 1", "end"})
  <2>1. Part(<< AllocBool, Expr >> \o Case(at, "case 1"), at, {} \cup {"case 1"},
             {} \cup {"case 1", "end"})
    BY <1>1, <1>2, PartConcat
  <2>. QED  BY <2>1
<1>5. Part((<< AllocBool, Expr >> \o Case(at, "case 1")) \o Case(at, "case 2"), at,
           {"case 1", "case 2"}, {"case 1", "case 2", "end"})
  <2>1. Part((<< AllocBool, Expr >> \o Case(at, "case 1")) \o Case(at, "case 2"), at,
             {"case 1"} \cup {"case 2"}, {"case 1", "end"} \cup {"case 2", "end"})
    <3>1. {"case 1"} \cap {"case 2"} = {} /\ Part(Case(at, "case 2"), at, {"case 2"}, {"case 2", "end"})
      BY <1>2
    <3>. QED  BY <1>4, <3>1, PartConcat
  <2>2. /\ {"case 1"} \cup {"case 2"} = {"case 1", "case 2"}
        /\ {"case 1", "end"} \cup {"case 2", "end"} = {"case 1", "case 2", "end"}
    OBVIOUS
  <2>. QED  BY <2>1, <2>2
<1>6. Part(((<< AllocBool, Expr >> \o Case(at, "case 1")) \o Case(at, "case 2")) \o << Label(at, "end") >>,
           at, {"case 1", "case 2", "end"}, {"case 1", "case 2", "end"})
  <2>1. Part(((<< AllocBool, Expr >> \o Case(at, "case 1")) \o Case(at, "case 2")) \o << Label(at, "end") >>,
             at, {"case 1", "case 2"} \cup {"end"}, {"case 1", "case 2", "end"} \cup {})
    BY <1>3, <1>5, PartConcat
  <2>2. /\ {"case 1", "case 2"} \cup {"end"} = {"case 1", "case 2", "end"}
        /\ {"case 1", "case 2", "end"} \cup {} = {"case 1", "case 2", "end"}
    OBVIOUS
  <2>. QED  BY <2>1, <2>2
<1>7. ((<< AllocBool, Expr >> \o Case(at, "case 1")) \o Case(at, "case 2")) \o << Label(at, "end") >>
      \in Steps
  BY <1>6 DEF Part
<1>. QED  BY <1>6, <1>7, LockedPart, FreshLocked DEF Switch

LEMMA IfExprPart ==
  ASSUME NEW at \in Nat
  PROVE  Part(IfExpr(at), at, {"else", "end"}, {"else", "end"}) /\ Fresh(IfExpr(at))
<1>. DEFINE p1 == << Enter, Alloc >>
            p2 == IfElse(at, << Expr >>)
            p3 == << Leave >>
<1>1. Part(p1, at, {}, {}) /\ Part(p3, at, {}, {}) /\ Fresh(p1)
  BY OneStep, OrdinarySteps, OrdinaryPair, OrdinaryParts, FreshStart DEF Enter, Alloc, Do
<1>2. Part(p2, at, {"else", "end"}, {"else", "end"})
  BY IfElsePart, OrdinaryParts
<1>. HIDE DEF p1, p2, p3
<1>3. Part(p1 \o p2, at, {"else", "end"}, {"else", "end"})
  BY <1>1, <1>2, Joined
<1>4. Part((p1 \o p2) \o p3, at, {"else", "end"}, {"else", "end"})
  BY <1>1, <1>3, Joined
<1>5. Fresh((p1 \o p2) \o p3)
  BY <1>1, <1>2, FreshConcat, ConcatSteps DEF Part
<1>. QED  BY <1>4, <1>5 DEF IfExpr, p1, p2, p3

LEMMA PlainVisitors ==
  ASSUME NEW at \in Nat
  PROVE  /\ Visitor(If(at, << Expr >>, << Stmt >>), at) /\ Visitor(IfElse(at, << Stmt >>), at)
         /\ Visitor(While(at), at) /\ Visitor(DoWhile(at), at) /\ Visitor(Switch(at), at)
         /\ Visitor(IfExpr(at), at)
<1>1. ASSUME NEW L, NEW s, Part(s, at, L, L), Fresh(s),
             L \subseteq {"while", "else", "end", "case 1", "case 2"}
      PROVE  Visitor(s, at)
  <2>1. L \subseteq Names \ {"", "var", "sc", "exit"}
    BY <1>1 DEF Names
  <2>. QED  BY <1>1, <2>1, PartVisitor
<1>2. Part(<< Stmt >>, at, {}, {})
  BY OrdinaryParts
<1>3. Visitor(If(at, << Expr >>, << Stmt >>), at)
  BY <1>1, IfPart
<1>4. Visitor(IfElse(at, << Stmt >>), at) /\ Visitor(IfExpr(at), at)
  BY <1>1, <1>2, IfElsePart, IfExprPart
<1>5. Visitor(While(at), at) /\ Visitor(DoWhile(at), at)
  BY <1>1, LoopParts
<1>6. Visitor(Switch(at), at)
  BY <1>1, SwitchPart
<1>. QED  BY <1>3, <1>4, <1>5, <1>6

LEMMA ConcatAt ==
  ASSUME NEW s \in Steps, NEW t \in Steps
  PROVE  /\ s \o t \in Steps /\ Len(s \o t) = Len(s) + Len(t)
         /\ \A i \in 1 .. Len(s) : (s \o t)[i] = s[i]
         /\ \A i \in 1 .. Len(t) : (s \o t)[Len(s) + i] = t[i]
BY DEF Steps

LEMMA LockedAt ==
  ASSUME NEW s \in Steps
  PROVE  /\ Locked(s) \in Steps /\ Len(Locked(s)) = Len(s) + 2
         /\ Locked(s)[1] = ScopeBegin /\ Locked(s)[Len(s) + 2] = ScopeEnd
         /\ \A i \in 1 .. Len(s) : Locked(s)[1 + i] = s[i]
<1>. DEFINE b == << ScopeBegin >>
            e == << ScopeEnd >>
<1>1. /\ b \in Steps /\ Len(b) = 1 /\ b[1] = ScopeBegin
      /\ e \in Steps /\ Len(e) = 1 /\ e[1] = ScopeEnd
  BY OneStep, FewSteps
<1>. HIDE DEF b, e
<1>5. Len(s) \in Nat
  BY DEF Steps
<1>2. /\ b \o s \in Steps /\ Len(b \o s) = 1 + Len(s) /\ (b \o s)[1] = b[1]
      /\ \A i \in 1 .. Len(s) : (b \o s)[1 + i] = s[i]
  <2>1. /\ b \o s \in Steps /\ Len(b \o s) = Len(b) + Len(s)
        /\ \A i \in 1 .. Len(b) : (b \o s)[i] = b[i]
        /\ \A i \in 1 .. Len(s) : (b \o s)[Len(b) + i] = s[i]
    BY <1>1, ConcatAt
  <2>. QED  BY <1>1, <2>1
<1>. DEFINE u == b \o s
<1>3. /\ u \o e \in Steps /\ Len(u \o e) = (1 + Len(s)) + 1
      /\ \A i \in 1 .. 1 + Len(s) : (u \o e)[i] = u[i]
      /\ (u \o e)[(1 + Len(s)) + 1] = e[1]
  <2>. HIDE DEF u
  <2>1. /\ u \o e \in Steps /\ Len(u \o e) = Len(u) + Len(e)
        /\ \A i \in 1 .. Len(u) : (u \o e)[i] = u[i]
        /\ \A i \in 1 .. Len(e) : (u \o e)[Len(u) + i] = e[i]
    BY <1>1, <1>2, ConcatAt DEF u
  <2>2. Len(u) = 1 + Len(s) /\ Len(e) = 1 /\ 1 \in 1 .. 1
    BY <1>1, <1>2 DEF u
  <2>. QED  BY <1>5, <2>1, <2>2
<1>4. Locked(s) = (b \o s) \o e
  BY DEF Locked, b, e
<1>. HIDE DEF Steps
<1>. QED  BY <1>1, <1>2, <1>3, <1>4, <1>5

(* The parameters of a short circuit: the register and the label of the    *)
(* visitor, its jump, and what follows the label.                          *)
LEMMA ShortCircuitVisitor ==
  ASSUME NEW at \in Nat
  PROVE  Visitor(ShortCircuit(at), at)
<1>. DEFINE later == AllocAt("alloc later", at, "sc")
            jump == Jump("jz", at, "sc")
            label == Label(at, "sc")
            reserve == Do("reserve")
            p1 == << Expr, later, jump >>
            p2 == Locked(<< Expr >>)
            p3 == << label, reserve >>
            p4 == << Enter, Alloc, Alloc, Alloc, Alloc >>
            p5 == << Alloc, Leave >>
            body == Locked((p1 \o p2) \o p3)
            s == (p4 \o body) \o p5
<1>1. /\ later \in Step /\ jump \in Step /\ label \in Step /\ reserve \in Step
      /\ later.do = "alloc later" /\ jump.do = "jump" /\ label.do = "label" /\ reserve.do = "reserve"
      /\ later.tag = << at, "sc" >> /\ jump.tag = << at, "sc" >> /\ label.tag = << at, "sc" >>
      /\ reserve.tag = NoTag
  BY OneStep, TaggedStep DEF Names, AllocAt, Jump, Label, Do
<1>. HIDE DEF later, jump, label, reserve
<1>2. /\ p1 \in Steps /\ Len(p1) = 3 /\ p1[1] = Expr /\ p1[2] = later /\ p1[3] = jump
      /\ p3 \in Steps /\ Len(p3) = 2 /\ p3[1] = label /\ p3[2] = reserve
      /\ p4 \in Steps /\ Len(p4) = 5 /\ p4[1] = Enter /\ \A i \in 2 .. 5 : p4[i] = Alloc
      /\ p5 \in Steps /\ Len(p5) = 2 /\ p5[1] = Alloc /\ p5[2] = Leave
  <2>1. p1 \in Steps /\ p3 \in Steps /\ p5 \in Steps
    BY <1>1, OneStep, FewSteps
  <2>2. p4 \in Steps
    BY OneStep DEF Steps
  <2>3. /\ Len(p1) = 3 /\ p1[1] = Expr /\ p1[2] = later /\ p1[3] = jump
        /\ Len(p3) = 2 /\ p3[1] = label /\ p3[2] = reserve
        /\ Len(p5) = 2 /\ p5[1] = Alloc /\ p5[2] = Leave
    OBVIOUS
  <2>4. Len(p4) = 5 /\ p4[1] = Enter /\ p4[2] = Alloc /\ p4[3] = Alloc /\ p4[4] = Alloc /\ p4[5] = Alloc
    OBVIOUS
  <2>5. \A i \in 2 .. 5 : i = 2 \/ i = 3 \/ i = 4 \/ i = 5
    OBVIOUS
  <2>. QED  BY <2>1, <2>2, <2>3, <2>4, <2>5
<1>3. p2 \in Steps /\ Len(p2) = 3 /\ p2[1] = ScopeBegin /\ p2[2] = Expr /\ p2[3] = ScopeEnd
  <2>. DEFINE x == << Expr >>
  <2>1. x \in Steps /\ Len(x) = 1 /\ x[1] = Expr
    BY OneStep, FewSteps
  <2>. HIDE DEF x
  <2>2. /\ Locked(x) \in Steps /\ Len(Locked(x)) = Len(x) + 2
        /\ Locked(x)[1] = ScopeBegin /\ Locked(x)[Len(x) + 2] = ScopeEnd
        /\ \A i \in 1 .. Len(x) : Locked(x)[1 + i] = x[i]
    BY <2>1, LockedAt
  <2>3. Locked(x)[1 + 1] = x[1]
    BY <2>1, <2>2
  <2>. QED  BY <2>1, <2>2, <2>3 DEF x
<1>. HIDE DEF p1, p2, p3, p4, p5
<1>. DEFINE p7 == p1 \o p2
            p6 == p7 \o p3
            p8 == p4 \o body
<1>4. /\ p7 \in Steps /\ Len(p7) = 6
      /\ \A i \in 1 .. 3 : p7[i] = p1[i] /\ p7[3 + i] = p2[i]
  <2>1. /\ p1 \o p2 \in Steps /\ Len(p1 \o p2) = Len(p1) + Len(p2)
        /\ \A i \in 1 .. Len(p1) : (p1 \o p2)[i] = p1[i]
        /\ \A i \in 1 .. Len(p2) : (p1 \o p2)[Len(p1) + i] = p2[i]
    BY <1>2, <1>3, ConcatAt
  <2>. QED  BY <1>2, <1>3, <2>1
<1>. HIDE DEF p7
<1>5. /\ p6 \in Steps /\ Len(p6) = 8
      /\ \A i \in 1 .. 6 : p6[i] = p7[i]
      /\ \A i \in 1 .. 2 : p6[6 + i] = p3[i]
  <2>1. /\ p7 \o p3 \in Steps /\ Len(p7 \o p3) = Len(p7) + Len(p3)
        /\ \A i \in 1 .. Len(p7) : (p7 \o p3)[i] = p7[i]
        /\ \A i \in 1 .. Len(p3) : (p7 \o p3)[Len(p7) + i] = p3[i]
    BY <1>2, <1>4, ConcatAt
  <2>. QED  BY <1>2, <1>4, <2>1
<1>. HIDE DEF p6
<1>6. /\ p6[1] = Expr /\ p6[2] = later /\ p6[3] = jump /\ p6[4] = ScopeBegin /\ p6[5] = Expr
      /\ p6[6] = ScopeEnd /\ p6[7] = label /\ p6[8] = reserve
  <2>1. ASSUME NEW i \in 1 .. 3 PROVE p6[i] = p1[i] /\ p6[3 + i] = p2[i]
    <3>1. i \in 1 .. 6 /\ 3 + i \in 1 .. 6
      OBVIOUS
    <3>. QED  BY <1>4, <1>5, <3>1
  <2>4. \A i \in 1 .. 3 : p6[3 + i] = p2[i]
    BY <2>1
  <2>5. \A i \in 1 .. 3 : p6[i] = p1[i]
    BY <2>1
  <2>6. \A i \in 1 .. 2 : p6[6 + i] = p3[i]
    BY <1>5
  <2>2. /\ p6[1] = p1[1] /\ p6[2] = p1[2] /\ p6[3] = p1[3]
        /\ p6[3 + 1] = p2[1] /\ p6[3 + 2] = p2[2] /\ p6[3 + 3] = p2[3]
    BY <2>4, <2>5
  <2>3. p6[6 + 1] = p3[1] /\ p6[6 + 2] = p3[2]
    BY <2>6
  <2>. QED  BY <1>2, <1>3, <2>2, <2>3
<1>7. /\ body \in Steps /\ Len(body) = 10
      /\ body[1] = ScopeBegin /\ body[10] = ScopeEnd
      /\ \A i \in 1 .. 8 : body[1 + i] = p6[i]
  <2>1. body = Locked(p6)
    BY DEF p6, p7
  <2>2. /\ Locked(p6) \in Steps /\ Len(Locked(p6)) = Len(p6) + 2
        /\ Locked(p6)[1] = ScopeBegin /\ Locked(p6)[Len(p6) + 2] = ScopeEnd
        /\ \A i \in 1 .. Len(p6) : Locked(p6)[1 + i] = p6[i]
    BY <1>5, LockedAt
  <2>. HIDE DEF body
  <2>. QED  BY <1>5, <2>1, <2>2
<1>. HIDE DEF body
<1>8. /\ p8 \in Steps /\ Len(p8) = 15
      /\ \A i \in 1 .. 5 : p8[i] = p4[i]
      /\ \A i \in 1 .. 10 : p8[5 + i] = body[i]
  <2>1. /\ p4 \o body \in Steps /\ Len(p4 \o body) = Len(p4) + Len(body)
        /\ \A i \in 1 .. Len(p4) : (p4 \o body)[i] = p4[i]
        /\ \A i \in 1 .. Len(body) : (p4 \o body)[Len(p4) + i] = body[i]
    BY <1>2, <1>7, ConcatAt
  <2>2. Len(p4) = 5 /\ Len(body) = 10
    BY <1>2, <1>7
  <2>3. \A i \in 1 .. 10 : (p4 \o body)[5 + i] = body[i]
    BY <2>1, <2>2
  <2>4. \A i \in 1 .. 5 : (p4 \o body)[i] = p4[i]
    BY <2>1, <2>2
  <2>5. p4 \o body \in Steps /\ Len(p4 \o body) = 15
    BY <2>1, <2>2
  <2>. QED  BY <2>3, <2>4, <2>5
<1>. HIDE DEF p8
<1>9. /\ s \in Steps /\ Len(s) = 17
      /\ \A i \in 1 .. 15 : s[i] = p8[i]
      /\ \A i \in 1 .. 2 : s[15 + i] = p5[i]
  <2>1. /\ p8 \o p5 \in Steps /\ Len(p8 \o p5) = Len(p8) + Len(p5)
        /\ \A i \in 1 .. Len(p8) : (p8 \o p5)[i] = p8[i]
        /\ \A i \in 1 .. Len(p5) : (p8 \o p5)[Len(p8) + i] = p5[i]
    BY <1>2, <1>8, ConcatAt
  <2>2. Len(p8) = 15 /\ Len(p5) = 2
    BY <1>2, <1>8
  <2>3. \A i \in 1 .. 2 : (p8 \o p5)[15 + i] = p5[i]
    BY <2>1, <2>2
  <2>4. \A i \in 1 .. 15 : (p8 \o p5)[i] = p8[i]
    BY <2>1, <2>2
  <2>5. p8 \o p5 \in Steps /\ Len(p8 \o p5) = 17
    BY <2>1, <2>2
  <2>6. s = p8 \o p5
    BY DEF p8
  <2>. HIDE DEF s
  <2>. QED  BY <2>3, <2>4, <2>5, <2>6
<1>. HIDE DEF s
<1>10. /\ s[1] = Enter /\ s[2] = Alloc /\ s[6] = ScopeBegin /\ s[7] = Expr
       /\ s[8] = later /\ s[9] = jump /\ s[10] = ScopeBegin /\ s[11] = Expr /\ s[12] = ScopeEnd
       /\ s[13] = label /\ s[14] = reserve /\ s[15] = ScopeEnd /\ s[16] = Alloc /\ s[17] = Leave
       /\ \A i \in 2 .. 5 : s[i] = Alloc
  <2>1. \A i \in 1 .. 10 : s[5 + i] = body[i]
    BY <1>8, <1>9
  <2>2. \A i \in 1 .. 8 : s[6 + i] = p6[i]
    <3>1. ASSUME NEW i \in 1 .. 8 PROVE s[6 + i] = p6[i]
      <4>1. i + 1 \in 1 .. 10 /\ 5 + (i + 1) = 6 + i
        OBVIOUS
      <4>. QED  BY <1>7, <2>1, <4>1
    <3>. QED  BY <3>1
  <2>3. /\ s[6 + 1] = p6[1] /\ s[6 + 2] = p6[2] /\ s[6 + 3] = p6[3] /\ s[6 + 4] = p6[4]
        /\ s[6 + 5] = p6[5] /\ s[6 + 6] = p6[6] /\ s[6 + 7] = p6[7] /\ s[6 + 8] = p6[8]
    BY <2>2
  <2>4. s[5 + 1] = body[1] /\ s[5 + 10] = body[10] /\ s[15 + 1] = p5[1] /\ s[15 + 2] = p5[2]
    BY <1>9, <2>1
  <2>5. \A i \in 1 .. 5 : s[i] = p4[i]
    BY <1>8, <1>9
  <2>. QED  BY <1>2, <1>6, <1>7, <2>3, <2>4, <2>5
<1>11. \A k \in 1 .. 17 : k \in {8, 9, 13, 14} \/ Ordinary(s[k])
  <2>1. \A k \in 1 .. 17 : k \in 2 .. 5 \/ k \in {1, 6, 7, 8, 9, 10, 11, 12, 13, 14, 15, 16, 17}
    OBVIOUS
  <2>. QED  BY <1>10, <2>1, OrdinarySteps
<1>12. DOMAIN s = 1 .. 17
  BY <1>9 DEF Steps
<1>13. Fresh(s)
  <2>1. 2 \in 1 .. 3 /\ 2 <= Len(s) /\ s[2].do = "alloc" /\ \A j \in 1 .. 2 - 1 : s[j].do = "enter"
    <3>1. Alloc.do = "alloc" /\ Enter.do = "enter" /\ 2 \in 2 .. 5 /\ 2 \in 1 .. 3
      BY DEF Alloc, Enter, Do
    <3>2. \A j \in 1 .. 2 - 1 : j = 1
      OBVIOUS
    <3>. QED  BY <1>9, <1>10, <3>1, <3>2
  <2>. QED  BY <2>1 DEF Fresh
<1>14. Visitor(s, at)
  <2>1. /\ s[8].do = "alloc later" /\ s[8].tag = << at, "sc" >>
        /\ s[9].do = "jump" /\ s[9].tag = << at, "sc" >>
        /\ s[13].do = "label" /\ s[13].tag = << at, "sc" >>
        /\ s[14].do = "reserve" /\ s[14].tag = NoTag
    BY <1>1, <1>10
  <2>2. ASSUME NEW k \in DOMAIN s
        PROVE  /\ Kind(s[k]) /\ s[k].do # "finish" /\ s[k].do # "exit" /\ s[k].do # "register"
               /\ s[k].tag = NoTag \/ s[k].tag = << at, "sc" >>
               /\ s[k].do = "alloc" => s[k].tag = NoTag
               /\ s[k].do = "label" => k = 13
               /\ s[k].do = "jump" => k = 9
               /\ s[k].do = "alloc later" => k = 8
    <3>3. NoTag[2] = "" /\ << at, "sc" >>[2] = "sc"
      BY DEF NoTag
    <3>1. CASE Ordinary(s[k])
      BY <3>1, <3>3 DEF Ordinary, Kind
    <3>2. CASE k \in {8, 9, 13, 14}
      <4>1. CASE k = 8
        BY <2>1, <3>3, <4>1 DEF Kind
      <4>2. CASE k = 9
        BY <2>1, <3>3, <4>2 DEF Kind
      <4>3. CASE k = 13
        BY <2>1, <3>3, <4>3 DEF Kind
      <4>4. CASE k = 14
        BY <2>1, <3>3, <4>4 DEF Kind
      <4>. QED  BY <3>2, <4>1, <4>2, <4>3, <4>4
    <3>. QED  BY <1>11, <1>12, <3>1, <3>2
  <2>3. NoTag[2] # "var"
    BY DEF NoTag
  <2>10. 8 \in DOMAIN s /\ 13 \in DOMAIN s
    BY <1>12
  <2>4. Named(s, << at, "sc" >>)
    BY <2>1, <2>10 DEF Named
  <2>5. Once(s)
    BY <2>2 DEF Once
  <2>6. ASSUME NEW k \in DOMAIN s
        PROVE  /\ After(s, k) /\ Reserves(s, k) /\ Awaited(s, k)
               /\ LeftNext(s, k) /\ Begun(s, k)
    <3>1. After(s, k)
      BY <2>2, <2>3 DEF After
    <3>2. Reserves(s, k)
      <4>1. 13 + 3 <= Len(s) /\ s[13 + 1] = Do("reserve") /\ s[13 + 2] = ScopeEnd /\ s[13 + 3] = Alloc
        BY <1>9, <1>10 DEF reserve
      <4>. QED  BY <2>2, <4>1 DEF Reserves
    <3>3. Awaited(s, k)
      <4>1. 13 > 8
        OBVIOUS
      <4>. QED  BY <2>1, <2>2, <2>10, <4>1 DEF Awaited
    <3>4. LeftNext(s, k) /\ Begun(s, k)
      BY <2>2 DEF LeftNext, Begun
    <3>. QED  BY <3>1, <3>2, <3>3, <3>4
  <2>7. ASSUME NEW k \in DOMAIN s, s[k].do = "label"
        PROVE  \E j \in DOMAIN s : j < k /\ s[j].do = "alloc later" /\ s[j].tag = s[k].tag
    <3>1. k = 13
      BY <2>2, <2>7
    <3>2. 8 < 13
      OBVIOUS
    <3>. QED  BY <2>1, <2>10, <3>1, <3>2
  <2>8. ASSUME NEW k \in DOMAIN s
        PROVE  s[k].tag = NoTag \/ (s[k].tag[1] = at /\ Fresh(s))
    <3>1. << at, "sc" >>[1] = at
      OBVIOUS
    <3>. QED  BY <1>13, <2>2, <3>1
  <2>9. ASSUME NEW k \in DOMAIN s, s[k].do = "jump" PROVE Named(s, s[k].tag)
    BY <2>1, <2>2, <2>4, <2>9
  <2>. QED  BY <1>9, <2>2, <2>5, <2>6, <2>7, <2>8, <2>9 DEF Visitor
<1>. QED  BY <1>14 DEF ShortCircuit, s, body, p6, p7, p8, p1, p2, p3, p4, p5, later, jump, label, reserve

(* A handler: its register comes right after its first label, its jump to  *)
(* the end of the scope right after its registration.                      *)
LEMMA HandlerVisitor ==
  ASSUME NEW at \in Nat, NEW kind \in Handlers
  PROVE  Visitor(OnScopeFail(at, kind), at)
<1>. DEFINE jump == Jump("jmp", at, "ignore")
            start == Label(at, "start")
            var == AllocAt("alloc", at, "var")
            register == On("register", kind, at)
            exit == On("exit", kind, at)
            ignore == Label(at, "ignore")
            q1 == IF kind = "typed" THEN << Enter, Enter, Alloc, Leave, Leave >> ELSE << >>
            q2 == << ScopeBegin, jump, start >>
            q3 == IF kind = "typed" THEN << var >> ELSE << >>
            q4 == << register, exit, ignore >>
            a == Len(q1)
            v == Len(q3)
<1>1. /\ jump \in Step /\ start \in Step /\ var \in Step /\ register \in Step /\ exit \in Step
      /\ ignore \in Step
      /\ jump.do = "jump" /\ start.do = "label" /\ var.do = "alloc" /\ register.do = "register"
      /\ exit.do = "exit" /\ ignore.do = "label"
      /\ jump.tag = << at, "ignore" >> /\ start.tag = << at, "start" >> /\ var.tag = << at, "var" >>
      /\ register.tag = << at, "start" >> /\ exit.tag = << at, "start" >>
      /\ ignore.tag = << at, "ignore" >>
  BY TaggedStep, HandlerStep DEF Names, AllocAt, Jump, Label, On
<1>17. register.op = exit.op
  BY DEF On
<1>. HIDE DEF jump, start, var, register, exit, ignore
<1>2. /\ q2 \in Steps /\ Len(q2) = 3 /\ q2[1] = ScopeBegin /\ q2[2] = jump /\ q2[3] = start
      /\ q4 \in Steps /\ Len(q4) = 3 /\ q4[1] = register /\ q4[2] = exit /\ q4[3] = ignore
  BY <1>1, OneStep, FewSteps
<1>3. /\ q1 \in Steps /\ \A i \in 1 .. a : Ordinary(q1[i])
      /\ (a = 0 \/ (a = 5 /\ q1[1] = Enter /\ q1[2] = Enter /\ q1[3] = Alloc))
  <2>1. CASE kind = "typed"
    <3>. DEFINE e == << Enter, Enter, Alloc, Leave, Leave >>
    <3>1. e \in Steps
      BY OneStep DEF Steps
    <3>2. Len(e) = 5 /\ e[1] = Enter /\ e[2] = Enter /\ e[3] = Alloc /\ e[4] = Leave /\ e[5] = Leave
      OBVIOUS
    <3>. HIDE DEF e
    <3>3. \A i \in 1 .. 5 : i = 1 \/ i = 2 \/ i = 3 \/ i = 4 \/ i = 5
      OBVIOUS
    <3>4. \A i \in 1 .. 5 : Ordinary(e[i])
      BY <3>2, <3>3, OrdinarySteps
    <3>5. q1 = e
      BY <2>1 DEF e
    <3>. HIDE DEF q1
    <3>. QED  BY <3>1, <3>2, <3>4, <3>5
  <2>2. CASE kind # "typed"
    <3>1. q1 = << >>
      BY <2>2
    <3>2. << >> \in Steps /\ Len(<< >>) = 0
      BY DEF Steps
    <3>. HIDE DEF q1
    <3>. QED  BY <3>1, <3>2
  <2>. QED  BY <2>1, <2>2
<1>4. /\ q3 \in Steps /\ (v = 0 \/ (v = 1 /\ q3[1] = var))
  <2>1. CASE kind = "typed"
    <3>1. q3 = << var >>
      BY <2>1
    <3>2. << var >> \in Steps /\ Len(<< var >>) = 1 /\ << var >>[1] = var
      BY <1>1, FewSteps
    <3>. HIDE DEF q3
    <3>. QED  BY <3>1, <3>2
  <2>2. CASE kind # "typed"
    <3>1. q3 = << >>
      BY <2>2
    <3>2. << >> \in Steps /\ Len(<< >>) = 0
      BY DEF Steps
    <3>. HIDE DEF q3
    <3>. QED  BY <3>1, <3>2
  <2>. QED  BY <2>1, <2>2
<1>5. /\ Block \in Steps /\ Len(Block) = 5 /\ \A i \in 1 .. 5 : Ordinary(Block[i])
  <2>. DEFINE b == << Enter, Do("stmts"), Leave >>
  <2>1. b \in Steps
    BY OneStep, FewSteps
  <2>2. Len(b) = 3 /\ b[1] = Enter /\ b[2] = Do("stmts") /\ b[3] = Leave
    OBVIOUS
  <2>. HIDE DEF b
  <2>3. /\ Locked(b) \in Steps /\ Len(Locked(b)) = Len(b) + 2
        /\ Locked(b)[1] = ScopeBegin /\ Locked(b)[Len(b) + 2] = ScopeEnd
        /\ \A i \in 1 .. Len(b) : Locked(b)[1 + i] = b[i]
    BY <2>1, LockedAt
  <2>4. Block = Locked(b)
    BY DEF Block, b
  <2>5. \A i \in 1 .. 3 : Block[1 + i] = b[i]
    BY <2>2, <2>3, <2>4
  <2>6. Block[1 + 1] = b[1] /\ Block[1 + 2] = b[2] /\ Block[1 + 3] = b[3]
    BY <2>5
  <2>7. \A i \in 1 .. 5 : i = 1 \/ i = 2 \/ i = 3 \/ i = 4 \/ i = 5
    OBVIOUS
  <2>8. Block[1] = ScopeBegin /\ Block[5] = ScopeEnd
    BY <2>2, <2>3, <2>4
  <2>9. \A i \in 1 .. 5 : Ordinary(Block[i])
    BY <2>2, <2>6, <2>7, <2>8, OrdinarySteps
  <2>. QED  BY <2>2, <2>3, <2>4, <2>9
<1>. DEFINE s1 == q1 \o q2
            s2 == s1 \o q3
            s3 == s2 \o Block
            s == s3 \o q4
<1>6. OnScopeFail(at, kind) = s
  BY DEF OnScopeFail, jump, start, var, register, exit, ignore
<1>. HIDE DEF q1, q2, q3, q4
<1>7. a \in Nat /\ v \in Nat
  BY <1>3, <1>4
<1>. HIDE DEF a, v
<1>8. /\ s1 \in Steps /\ Len(s1) = a + 3
      /\ \A i \in 1 .. a : s1[i] = q1[i]
      /\ \A i \in 1 .. 3 : s1[a + i] = q2[i]
  <2>1. /\ q1 \o q2 \in Steps /\ Len(q1 \o q2) = Len(q1) + Len(q2)
        /\ \A i \in 1 .. Len(q1) : (q1 \o q2)[i] = q1[i]
        /\ \A i \in 1 .. Len(q2) : (q1 \o q2)[Len(q1) + i] = q2[i]
    BY <1>2, <1>3, ConcatAt
  <2>2. Len(q1) = a /\ Len(q2) = 3
    BY <1>2 DEF a
  <2>. QED  BY <2>1, <2>2
<1>. HIDE DEF s1
<1>9. /\ s2 \in Steps /\ Len(s2) = a + 3 + v
      /\ \A i \in 1 .. a + 3 : s2[i] = s1[i]
      /\ \A i \in 1 .. v : s2[(a + 3) + i] = q3[i]
  <2>1. /\ s1 \o q3 \in Steps /\ Len(s1 \o q3) = Len(s1) + Len(q3)
        /\ \A i \in 1 .. Len(s1) : (s1 \o q3)[i] = s1[i]
        /\ \A i \in 1 .. Len(q3) : (s1 \o q3)[Len(s1) + i] = q3[i]
    BY <1>4, <1>8, ConcatAt
  <2>. HIDE DEF s2
  <2>. QED  BY <1>7, <1>8, <2>1 DEF v, s2
<1>. HIDE DEF s2
<1>10. /\ s3 \in Steps /\ Len(s3) = a + v + 8
       /\ \A i \in 1 .. a + 3 + v : s3[i] = s2[i]
       /\ \A i \in 1 .. 5 : s3[(a + 3 + v) + i] = Block[i]
  <2>1. /\ s2 \o Block \in Steps /\ Len(s2 \o Block) = Len(s2) + Len(Block)
        /\ \A i \in 1 .. Len(s2) : (s2 \o Block)[i] = s2[i]
        /\ \A i \in 1 .. Len(Block) : (s2 \o Block)[Len(s2) + i] = Block[i]
    BY <1>5, <1>9, ConcatAt
  <2>2. Len(s2) = a + 3 + v /\ Len(Block) = 5
    BY <1>5, <1>9
  <2>3. \A i \in 1 .. 5 : (s2 \o Block)[(a + 3 + v) + i] = Block[i]
    BY <2>1, <2>2
  <2>4. \A i \in 1 .. a + 3 + v : (s2 \o Block)[i] = s2[i]
    BY <2>1, <2>2
  <2>5. s2 \o Block \in Steps /\ Len(s2 \o Block) = a + v + 8
    BY <1>7, <2>1, <2>2
  <2>. QED  BY <2>3, <2>4, <2>5
<1>. HIDE DEF s3
<1>11. /\ s \in Steps /\ Len(s) = a + v + 11
       /\ \A i \in 1 .. a + v + 8 : s[i] = s3[i]
       /\ \A i \in 1 .. 3 : s[(a + v + 8) + i] = q4[i]
  <2>1. /\ s3 \o q4 \in Steps /\ Len(s3 \o q4) = Len(s3) + Len(q4)
        /\ \A i \in 1 .. Len(s3) : (s3 \o q4)[i] = s3[i]
        /\ \A i \in 1 .. Len(q4) : (s3 \o q4)[Len(s3) + i] = q4[i]
    BY <1>2, <1>10, ConcatAt
  <2>2. Len(s3) = a + v + 8 /\ Len(q4) = 3
    BY <1>2, <1>10
  <2>3. \A i \in 1 .. 3 : (s3 \o q4)[(a + v + 8) + i] = q4[i]
    BY <2>1, <2>2
  <2>4. \A i \in 1 .. a + v + 8 : (s3 \o q4)[i] = s3[i]
    BY <2>1, <2>2
  <2>5. s3 \o q4 \in Steps /\ Len(s3 \o q4) = a + v + 11
    BY <1>7, <2>1, <2>2
  <2>. QED  BY <2>3, <2>4, <2>5
<1>. HIDE DEF s
<1>12. /\ s[a + 1] = ScopeBegin /\ s[a + 2] = jump /\ s[a + 3] = start
       /\ v = 1 => s[a + 4] = var
       /\ s[a + v + 9] = register /\ s[a + v + 10] = exit /\ s[a + v + 11] = ignore
       /\ \A i \in 1 .. a : s[i] = q1[i]
       /\ \A i \in 1 .. 5 : s[(a + 3 + v) + i] = Block[i]
  <2>1. ASSUME NEW i \in 1 .. a + 3 PROVE s[i] = s1[i]
    <3>1. i \in 1 .. a + 3 + v /\ i \in 1 .. a + v + 8
      BY <1>7
    <3>. QED  BY <1>9, <1>10, <1>11, <3>1
  <2>2. ASSUME NEW i \in 1 .. 3 PROVE s[a + i] = q2[i]
    <3>1. a + i \in 1 .. a + 3
      BY <1>7
    <3>. QED  BY <1>8, <2>1, <3>1
  <2>3. \A i \in 1 .. 3 : s[a + i] = q2[i]
    BY <2>2
  <2>4. s[a + 1] = q2[1] /\ s[a + 2] = q2[2] /\ s[a + 3] = q2[3]
    BY <2>3
  <2>5. ASSUME v = 1 PROVE s[a + 4] = var
    <3>1. /\ 1 \in 1 .. v /\ (a + 3) + 1 = a + 4 /\ a + 4 \in 1 .. a + 3 + v
          /\ a + 4 \in 1 .. a + v + 8
      BY <1>7, <2>5
    <3>2. s2[(a + 3) + 1] = q3[1]
      BY <1>9, <3>1
    <3>. QED  BY <1>4, <1>10, <1>11, <2>5, <3>1, <3>2, SMTT(30) DEF v
  <2>6. /\ s[(a + v + 8) + 1] = q4[1] /\ s[(a + v + 8) + 2] = q4[2] /\ s[(a + v + 8) + 3] = q4[3]
        /\ (a + v + 8) + 1 = a + v + 9 /\ (a + v + 8) + 2 = a + v + 10
        /\ (a + v + 8) + 3 = a + v + 11
    BY <1>7, <1>11
  <2>7. ASSUME NEW i \in 1 .. a PROVE s[i] = q1[i]
    <3>1. i \in 1 .. a + 3
      BY <1>7
    <3>. QED  BY <1>8, <2>1, <3>1
  <2>8. ASSUME NEW i \in 1 .. 5 PROVE s[(a + 3 + v) + i] = Block[i]
    <3>1. (a + 3 + v) + i \in 1 .. a + v + 8
      BY <1>7
    <3>. QED  BY <1>10, <1>11, <3>1
  <2>. QED  BY <1>2, <2>4, <2>5, <2>6, <2>7, <2>8
<1>13. DOMAIN s = 1 .. a + v + 11 /\ Len(s) = a + v + 11
  BY <1>11 DEF Steps
<1>14. \A k \in DOMAIN s :
         \/ Ordinary(s[k])
         \/ k \in {a + 2, a + 3, a + v + 9, a + v + 10, a + v + 11}
         \/ v = 1 /\ k = a + 4
  <2>. SUFFICES ASSUME NEW k \in DOMAIN s
                PROVE  \/ Ordinary(s[k])
                       \/ k \in {a + 2, a + 3, a + v + 9, a + v + 10, a + v + 11}
                       \/ v = 1 /\ k = a + 4
    OBVIOUS
  <2>1. CASE k \in 1 .. a
    BY <1>3, <1>12, <2>1 DEF a
  <2>2. CASE k = a + 1
    BY <1>12, <2>2, OrdinarySteps
  <2>3. CASE k - (a + 3 + v) \in 1 .. 5
    <3>1. k = (a + 3 + v) + (k - (a + 3 + v))
      BY <1>7, <1>13
    <3>. QED  BY <1>5, <1>12, <2>3, <3>1
  <2>4. \/ k \in 1 .. a \/ k = a + 1 \/ k - (a + 3 + v) \in 1 .. 5
        \/ k \in {a + 2, a + 3, a + v + 9, a + v + 10, a + v + 11}
        \/ v = 1 /\ k = a + 4
    <3>1. k \in Nat /\ 1 <= k /\ k <= a + v + 11 /\ (v = 0 \/ v = 1)
      BY <1>4, <1>7, <1>13 DEF v
    <3>. QED  BY <1>7, <3>1
  <2>. QED  BY <2>1, <2>2, <2>3, <2>4
<1>15. Fresh(s)
  <2>1. Alloc.do = "alloc" /\ Enter.do = "enter" /\ ScopeBegin.do = "emit"
    BY DEF Alloc, Enter, Do, ScopeBegin, Emit
  <2>2. CASE a = 0
    <3>1. 1 \in 1 .. 3 /\ 1 <= Len(s) /\ s[1] = ScopeBegin /\ \A j \in 1 .. 1 - 1 : FALSE
      BY <1>7, <1>12, <1>13, <2>2
    <3>. QED  BY <2>1, <3>1 DEF Fresh
  <2>3. CASE a = 5 /\ q1[1] = Enter /\ q1[2] = Enter /\ q1[3] = Alloc
    <3>1. 3 \in 1 .. 3 /\ 3 <= Len(s) /\ s[3] = Alloc /\ s[1] = Enter /\ s[2] = Enter
      BY <1>7, <1>12, <1>13, <2>3
    <3>2. \A j \in 1 .. 3 - 1 : j = 1 \/ j = 2
      OBVIOUS
    <3>. QED  BY <2>1, <3>1, <3>2 DEF Fresh
  <2>. QED  BY <1>3, <2>2, <2>3 DEF a
<1>16. Visitor(s, at)
  <2>1. /\ s[a + 2].do = "jump" /\ s[a + 2].tag = << at, "ignore" >>
        /\ s[a + 3].do = "label" /\ s[a + 3].tag = << at, "start" >>
        /\ v = 1 => s[a + 4].do = "alloc" /\ s[a + 4].tag = << at, "var" >>
        /\ s[a + v + 9].do = "register" /\ s[a + v + 9].tag = << at, "start" >>
        /\ s[a + v + 10].do = "exit" /\ s[a + v + 10].tag = << at, "start" >>
        /\ s[a + v + 11].do = "label" /\ s[a + v + 11].tag = << at, "ignore" >>
    BY <1>1, <1>12
  <2>2. /\ NoTag[2] = "" /\ << at, "start" >>[2] = "start" /\ << at, "ignore" >>[2] = "ignore"
        /\ << at, "var" >>[2] = "var" /\ << at, "start" >>[1] = at /\ << at, "ignore" >>[1] = at
        /\ << at, "var" >>[1] = at
    BY DEF NoTag
  <2>3. ASSUME NEW k \in DOMAIN s
        PROVE  /\ Kind(s[k]) /\ s[k].do \notin {"finish", "alloc later"}
               /\ s[k].tag = NoTag \/ s[k].tag[1] = at
               /\ s[k].do = "label" =>
                    \/ k = a + 3 /\ s[k].tag[2] = "start"
                    \/ k = a + v + 11 /\ s[k].tag[2] = "ignore"
               /\ s[k].do = "exit" => k = a + v + 10
               /\ s[k].do = "register" => k = a + v + 9
               /\ s[k].do = "jump" => s[k].tag = << at, "ignore" >>
               /\ s[k].do = "alloc" =>
                    s[k].tag[2] = "" \/ (k = a + 4 /\ s[k].tag = << at, "var" >>)
    <3>1. CASE Ordinary(s[k])
      BY <2>2, <3>1 DEF Ordinary, Kind
    <3>2. CASE k = a + 2
      BY <2>1, <2>2, <3>2 DEF Kind
    <3>3. CASE k = a + 3
      BY <2>1, <2>2, <3>3 DEF Kind
    <3>4. CASE k = a + v + 9
      BY <2>1, <2>2, <3>4 DEF Kind
    <3>5. CASE k = a + v + 10
      BY <2>1, <2>2, <3>5 DEF Kind
    <3>6. CASE k = a + v + 11
      BY <2>1, <2>2, <3>6 DEF Kind
    <3>7. CASE v = 1 /\ k = a + 4
      BY <2>1, <2>2, <3>7 DEF Kind
    <3>. QED  BY <1>14, <3>1, <3>2, <3>3, <3>4, <3>5, <3>6, <3>7
  <2>4. a + v + 11 \in DOMAIN s
    BY <1>7, <1>13
  <2>5. Named(s, << at, "ignore" >>)
    BY <2>1, <2>4 DEF Named
  <2>6. Once(s)
    <3>. SUFFICES ASSUME NEW k \in DOMAIN s, NEW m \in DOMAIN s,
                         s[k].do \in {"label", "alloc later"}, s[m].do = s[k].do, s[m].tag = s[k].tag
                  PROVE  k = m
      BY DEF Once
    <3>1. s[k].do = "label" /\ s[m].do = "label"
      BY <2>3
    <3>. QED  BY <2>3, <3>1
  <2>7. ASSUME NEW k \in DOMAIN s
        PROVE  /\ After(s, k) /\ Reserves(s, k) /\ Awaited(s, k)
               /\ LeftNext(s, k) /\ Begun(s, k)
    <3>1. s[k].do = "exit" => k > 1 /\ s[k - 1].do = "register"
      <4>1. a + v + 10 > 1 /\ (a + v + 10) - 1 = a + v + 9
        BY <1>7
      <4>. QED  BY <2>1, <2>3, <4>1
    <3>2. (s[k].do = "alloc" /\ s[k].tag[2] = "var") =>
            k > 1 /\ s[k - 1].do = "label" /\ s[k - 1].tag = << s[k].tag[1], "start" >>
      <4>1. a + 4 > 1 /\ (a + 4) - 1 = a + 3
        BY <1>7
      <4>. QED  BY <2>1, <2>2, <2>3, <4>1
    <3>3. LeftNext(s, k)
      <4>1. (a + v + 9) + 1 <= Len(s) /\ (a + v + 9) + 1 = a + v + 10
        BY <1>7, <1>13
      <4>2. s[a + v + 10].op = s[a + v + 9].op
        BY <1>12, <1>17
      <4>. QED  BY <2>1, <2>3, <4>1, <4>2 DEF LeftNext
    <3>4. Begun(s, k)
      <4>1. a + 3 \in DOMAIN s /\ a + 3 < a + v + 9
        BY <1>7, <1>13
      <4>. QED  BY <2>1, <2>3, <4>1 DEF Begun
    <3>. QED  BY <2>3, <3>1, <3>2, <3>3, <3>4 DEF After, Reserves, Awaited
  <2>8. ASSUME NEW k \in DOMAIN s
        PROVE  /\ s[k].tag = NoTag \/ (s[k].tag[1] = at /\ Fresh(s))
               /\ s[k].do = "jump" => Named(s, s[k].tag)
               /\ ~ (s[k].do = "label" /\ s[k].tag[2] = "sc")
    BY <1>15, <2>3, <2>5
  <2>. QED  BY <1>11, <2>3, <2>6, <2>7, <2>8 DEF Visitor
<1>. QED  BY <1>6, <1>16

LEMMA Visitors ==
  ASSUME NEW at \in Nat
  PROVE  /\ \A s \in Expressions(at) \cup {Identifier, << >>} : Visitor(s, at)
         /\ \A s \in Statements(at) \cup {ExprStmt} : Visitor(s, at)
BY OrdinaryVisitors, PlainVisitors, ShortCircuitVisitor, HandlerVisitor DEF Expressions, Statements

LEMMA VisitorAppend ==
  ASSUME NEW at \in Nat, NEW s, Visitor(s, at), NEW x \in Step, Ordinary(x)
  PROVE  Visitor(s \o << x >>, at)
<1>. DEFINE y == << x >>
            c == s \o y
<1>1. s \in Steps /\ y \in Steps /\ DOMAIN y = {1} /\ y[1] = x /\ Len(y) = 1
  BY Single DEF Visitor
<1>2. Once(y)
  BY <1>1 DEF Once
<1>. HIDE DEF y
<1>3. /\ c \in Steps /\ Len(c) = Len(s) + 1 /\ Len(s) \in Nat
      /\ \A k \in DOMAIN s : k \in DOMAIN c /\ c[k] = s[k]
      /\ \A k \in DOMAIN c : k \in DOMAIN s \/ c[k] = x
  <2>1. /\ c \in Steps /\ Len(c) = Len(s) + Len(y) /\ Len(s) \in Nat
        /\ \A k \in DOMAIN s : k \in DOMAIN c /\ c[k] = s[k]
        /\ \A k \in DOMAIN c :
             k \in DOMAIN s \/ (k - Len(s) \in DOMAIN y /\ c[k] = y[k - Len(s)])
    <3>1. s \in Steps /\ y \in Steps
      BY <1>1
    <3>. QED  BY <3>1, Concat
  <2>. HIDE DEF c
  <2>2. \A k \in DOMAIN c : k \in DOMAIN s \/ c[k] = x
    BY <1>1, <2>1
  <2>. QED  BY <1>1, <2>1, <2>2
<1>4. \A tag : Named(s, tag) => Named(c, tag)
  BY <1>1, NamedConcat
<1>5. Fresh(s) => Fresh(c)
  BY <1>1, FreshConcat
<1>6. x.do \notin {"label", "alloc later", "exit", "register", "jump", "finish"} /\ x.tag = NoTag /\ NoTag[2] = ""
      /\ Kind(x)
  <2>1. NoTag[2] = ""
    BY DEF NoTag
  <2>. QED  BY <2>1 DEF Ordinary, Kind
<1>7. Once(c)
  <2>1. \A k \in DOMAIN s, m \in DOMAIN y :
           ~ (s[k].do \in {"label", "alloc later"} /\ y[m].do = s[k].do /\ y[m].tag = s[k].tag)
    BY <1>1, <1>6
  <2>. QED  BY <1>1, <1>2, <2>1, OnceConcat DEF Visitor
<1>. HIDE DEF c
<1>8. ASSUME NEW k \in DOMAIN c
      PROVE  /\ Kind(c[k]) /\ After(c, k) /\ Reserves(c, k) /\ Awaited(c, k)
             /\ LeftNext(c, k) /\ Begun(c, k)
             /\ c[k].do # "finish"
             /\ c[k].tag = NoTag \/ (c[k].tag[1] = at /\ Fresh(c))
             /\ c[k].do = "jump" => Named(c, c[k].tag)
             /\ c[k].do = "label" /\ c[k].tag[2] = "sc" =>
                  \E j \in DOMAIN c : j < k /\ c[j].do = "alloc later" /\ c[j].tag = c[k].tag
  <2>1. CASE c[k] = x
    BY <1>6, <2>1 DEF After, Reserves, Awaited, LeftNext, Begun
  <2>2. CASE k \in DOMAIN s
    <3>1. /\ Kind(s[k]) /\ After(s, k) /\ Reserves(s, k) /\ Awaited(s, k)
          /\ LeftNext(s, k) /\ Begun(s, k)
          /\ s[k].do # "finish"
          /\ s[k].tag = NoTag \/ (s[k].tag[1] = at /\ Fresh(s))
          /\ s[k].do = "jump" => Named(s, s[k].tag)
          /\ s[k].do = "label" /\ s[k].tag[2] = "sc" =>
               \E j \in DOMAIN s : j < k /\ s[j].do = "alloc later" /\ s[j].tag = s[k].tag
      BY <2>2 DEF Visitor
    <3>2. DOMAIN s = 1 .. Len(s) /\ c[k] = s[k]
      BY <1>1, <1>3, <2>2, Lengths
    <3>3. After(c, k)
      <4>1. k > 1 => k - 1 \in DOMAIN s /\ c[k - 1] = s[k - 1]
        BY <1>3, <2>2, <3>2
      <4>. QED  BY <3>1, <3>2, <4>1 DEF After
    <3>4. Reserves(c, k)
      <4>1. k + 3 <= Len(s) =>
              /\ k + 3 <= Len(c) /\ c[k + 1] = s[k + 1] /\ c[k + 2] = s[k + 2] /\ c[k + 3] = s[k + 3]
        BY <1>3, <2>2, <3>2
      <4>. QED  BY <3>1, <3>2, <4>1 DEF Reserves
    <3>5. Awaited(c, k)
      BY <1>3, <3>1, <3>2 DEF Awaited
    <3>6. c[k].do = "label" /\ c[k].tag[2] = "sc" =>
            \E j \in DOMAIN c : j < k /\ c[j].do = "alloc later" /\ c[j].tag = c[k].tag
      BY <1>3, <3>1, <3>2
    <3>7. c[k].tag = NoTag \/ (c[k].tag[1] = at /\ Fresh(c))
      BY <1>5, <3>1, <3>2
    <3>8. Kind(c[k]) /\ c[k].do # "finish" /\ (c[k].do = "jump" => Named(c, c[k].tag))
      <4>1. Kind(c[k]) /\ c[k].do # "finish"
        BY <3>1, <3>2
      <4>2. s[k].do = "jump" => Named(c, s[k].tag)
        BY <1>4, <3>1
      <4>. QED  BY <3>2, <4>1, <4>2
    <3>9. LeftNext(c, k)
      <4>1. k + 1 <= Len(s) => k + 1 <= Len(c) /\ c[k + 1] = s[k + 1]
        BY <1>3, <2>2, <3>2
      <4>. QED  BY <3>1, <3>2, <4>1 DEF LeftNext
    <3>10. Begun(c, k)
      BY <1>3, <3>1, <3>2 DEF Begun
    <3>. QED  BY <3>3, <3>4, <3>5, <3>6, <3>7, <3>8, <3>9, <3>10
  <2>. QED  BY <1>3, <2>1, <2>2
<1>9. Visitor(c, at)
  BY <1>3, <1>7, <1>8 DEF Visitor
<1>. QED  BY <1>9 DEF c, y

-----------------------------------------------------------------------------
(* The steps left, when n instructions have been emitted.                  *)

TodoOK(s, n) ==
  /\ s \in Steps
  /\ \A k \in DOMAIN s :
       /\ Kind(s[k]) /\ Reserves(s, k) /\ LeftNext(s, k) /\ Awaited(s, k)
       /\ k > 1 => After(s, k)
       /\ s[k].do = "finish" => k = Len(s)
       /\ s[k].tag = NoTag \/ s[k].tag[1] < n \/ (s[k].tag[1] = n /\ Fresh(s))
  /\ Once(s)

LEMMA Positions ==
  ASSUME NEW s \in Steps
  PROVE  /\ Len(s) \in Nat
         /\ \A k \in DOMAIN s : k \in Nat /\ 1 <= k /\ k <= Len(s)
         /\ \A k \in Nat : 1 <= k /\ k <= Len(s) => k \in DOMAIN s
BY DEF Steps

LEMMA TailAt ==
  ASSUME NEW s \in Steps, s # << >>
  PROVE  /\ Tail(s) \in Steps /\ Len(Tail(s)) = Len(s) - 1 /\ Len(s) \in Nat \ {0}
         /\ DOMAIN s = 1 .. Len(s) /\ DOMAIN Tail(s) = 1 .. Len(s) - 1
         /\ s[1] = Head(s) /\ 1 \in DOMAIN s /\ s[1] \in Step
         /\ \A k \in DOMAIN Tail(s) : k + 1 \in DOMAIN s /\ Tail(s)[k] = s[k + 1]
         /\ \A k \in DOMAIN s : k = 1 \/ (k - 1 \in DOMAIN Tail(s) /\ s[k] = Tail(s)[k - 1])
<1>1. Len(s) \in Nat \ {0} /\ DOMAIN s = 1 .. Len(s) /\ s[1] = Head(s) /\ s[1] \in Step
  BY DEF Steps
<1>2. Tail(s) \in Steps /\ Len(Tail(s)) = Len(s) - 1
  BY DEF Steps
<1>3. \A k \in 1 .. Len(s) - 1 : Tail(s)[k] = s[k + 1]
  BY DEF Steps
<1>4. DOMAIN Tail(s) = 1 .. Len(s) - 1
  BY <1>2 DEF Steps
<1>. HIDE DEF Steps
<1>5. \A k \in DOMAIN Tail(s) : k + 1 \in DOMAIN s /\ Tail(s)[k] = s[k + 1]
  BY <1>1, <1>3, <1>4
<1>6. \A k \in DOMAIN s : k = 1 \/ (k - 1 \in DOMAIN Tail(s) /\ s[k] = Tail(s)[k - 1])
  <2>. SUFFICES ASSUME NEW k \in DOMAIN s, k # 1
                PROVE  k - 1 \in DOMAIN Tail(s) /\ s[k] = Tail(s)[k - 1]
    OBVIOUS
  <2>1. k - 1 \in DOMAIN Tail(s) /\ (k - 1) + 1 = k
    BY <1>1, <1>4
  <2>. QED  BY <1>5, <2>1
<1>. QED  BY <1>1, <1>2, <1>4, <1>5, <1>6

LEMMA NamedTail ==
  ASSUME NEW s \in Steps, s # << >>, NEW tag
  PROVE  /\ Named(Tail(s), tag) => Named(s, tag)
         /\ Named(s, tag) => Named(Tail(s), tag) \/ (s[1].do = "label" /\ s[1].tag = tag)
<1>1. Named(Tail(s), tag) => Named(s, tag)
  BY TailAt DEF Named
<1>2. ASSUME Named(s, tag), ~ (s[1].do = "label" /\ s[1].tag = tag)
      PROVE  Named(Tail(s), tag)
  <2>1. PICK m \in DOMAIN s : s[m].do = "label" /\ s[m].tag = tag
    BY <1>2 DEF Named
  <2>2. m - 1 \in DOMAIN Tail(s) /\ s[m] = Tail(s)[m - 1]
    BY <1>2, <2>1, TailAt
  <2>. QED  BY <2>1, <2>2 DEF Named
<1>. QED  BY <1>1, <1>2

LEMMA SameNext ==
  ASSUME NEW k \in Nat, NEW m \in Nat, k + 1 = m + 1
  PROVE  k = m
OBVIOUS

LEMMA Later ==
  ASSUME NEW i \in Nat, NEW j \in Nat
  PROVE  /\ 1 <= j /\ i > j + 1 => i # 1 /\ i - 1 > j
         /\ \A n \in Nat : i > j => i + n > j + n
OBVIOUS

LEMMA OnceTail ==
  ASSUME NEW s \in Steps, s # << >>, Once(s)
  PROVE  /\ Once(Tail(s))
         /\ s[1].do = "label" => ~ Named(Tail(s), s[1].tag)
         /\ s[1].do = "alloc later" =>
              \A k \in DOMAIN Tail(s) : ~ (Tail(s)[k].do = "alloc later" /\ Tail(s)[k].tag = s[1].tag)
<1>. DEFINE t == Tail(s)
<1>1. /\ \A k \in DOMAIN t : k + 1 \in DOMAIN s /\ t[k] = s[k + 1] /\ k \in Nat \ {0}
      /\ 1 \in DOMAIN s
  BY TailAt
<1>. HIDE DEF t
<1>2. Once(t)
  <2>. SUFFICES ASSUME NEW k \in DOMAIN t, NEW m \in DOMAIN t,
                       t[k].do \in {"label", "alloc later"}, t[m].do = t[k].do, t[m].tag = t[k].tag
                PROVE  k = m
    BY DEF Once
  <2>1. k + 1 = m + 1
    BY <1>1 DEF Once
  <2>2. k \in Nat /\ m \in Nat
    BY <1>1
  <2>. QED  BY <2>1, <2>2, SameNext
<1>3. ASSUME NEW k \in DOMAIN t, s[1].do \in {"label", "alloc later"}, t[k].do = s[1].do,
             t[k].tag = s[1].tag
      PROVE  FALSE
  <2>1. 1 = k + 1
    BY <1>1, <1>3 DEF Once
  <2>. QED  BY <1>1, <2>1
<1>4. Once(t) /\ (s[1].do = "label" => ~ Named(t, s[1].tag))
      /\ (s[1].do = "alloc later" =>
            \A k \in DOMAIN t : ~ (t[k].do = "alloc later" /\ t[k].tag = s[1].tag))
  BY <1>2, <1>3 DEF Named
<1>. QED  BY <1>4 DEF t

(* The first step is done: an instruction is emitted, or none and the step *)
(* is not one of those that do.                                            *)
LEMMA TodoTail ==
  ASSUME NEW s, NEW n \in Nat, NEW m \in Nat, TodoOK(s, n), s # << >>,
         n < m \/ (n = m /\ s[1].do \notin {"emit", "alloc"})
  PROVE  TodoOK(Tail(s), m)
<1>. DEFINE t == Tail(s)
<1>1. /\ t \in Steps /\ s \in Steps /\ Len(t) = Len(s) - 1 /\ Len(s) \in Nat \ {0}
      /\ DOMAIN s = 1 .. Len(s) /\ DOMAIN t = 1 .. Len(s) - 1
      /\ \A k \in DOMAIN t : k + 1 \in DOMAIN s /\ t[k] = s[k + 1]
      /\ \A k \in DOMAIN s : k = 1 \/ (k - 1 \in DOMAIN t /\ s[k] = t[k - 1])
  BY TailAt DEF TodoOK
<1>2. Once(t)
  BY <1>1, OnceTail DEF TodoOK
<1>. HIDE DEF t
<1>3. ASSUME n = m, Fresh(s) PROVE Fresh(t)
  <2>1. PICK k \in 1 .. 3 : /\ k <= Len(s) /\ s[k].do \in {"emit", "alloc"}
                            /\ \A j \in 1 .. k - 1 : s[j].do = "enter"
    BY <1>3 DEF Fresh
  <2>2. k # 1
    BY <1>3, <2>1
  <2>5. k \in DOMAIN s /\ k - 1 \in 1 .. 3 /\ k - 1 <= Len(t)
    BY <1>1, <2>1, <2>2
  <2>3. /\ k - 1 \in 1 .. 3 /\ k - 1 <= Len(t) /\ t[k - 1] = s[k]
    BY <1>1, <2>2, <2>5
  <2>4. \A j \in 1 .. (k - 1) - 1 : t[j] = s[j + 1] /\ j + 1 \in 1 .. k - 1
    BY <1>1, <2>1, <2>2
  <2>. QED  BY <2>1, <2>3, <2>4 DEF Fresh
<1>4. ASSUME NEW k \in DOMAIN t
      PROVE  /\ Kind(t[k]) /\ Reserves(t, k) /\ LeftNext(t, k) /\ Awaited(t, k)
             /\ k > 1 => After(t, k)
             /\ t[k].do = "finish" => k = Len(t)
             /\ t[k].tag = NoTag \/ t[k].tag[1] < m \/ (t[k].tag[1] = m /\ Fresh(t))
  <2>. DEFINE j == k + 1
  <2>1. j \in DOMAIN s /\ t[k] = s[j] /\ k \in Nat \ {0} /\ j = k + 1
    BY <1>1
  <2>. HIDE DEF j
  <2>2. /\ Kind(s[j]) /\ Reserves(s, j) /\ LeftNext(s, j) /\ Awaited(s, j)
        /\ After(s, j)
        /\ s[j].do = "finish" => j = Len(s)
        /\ s[j].tag = NoTag \/ s[j].tag[1] < n \/ (s[j].tag[1] = n /\ Fresh(s))
    BY <2>1 DEF TodoOK
  <2>3. Reserves(t, k)
    <3>1. j + 3 <= Len(s) =>
            /\ k + 3 <= Len(t) /\ t[k + 1] = s[j + 1] /\ t[k + 2] = s[j + 2] /\ t[k + 3] = s[j + 3]
      BY <1>1, <2>1, SMTT(30)
    <3>. QED  BY <2>1, <2>2, <3>1 DEF Reserves
  <2>4. Awaited(t, k)
    <3>. SUFFICES ASSUME t[k].do = "alloc later"
                  PROVE  \E i \in DOMAIN t : i > k /\ t[i].do = "label" /\ t[i].tag = t[k].tag
      BY DEF Awaited
    <3>1. PICK i \in DOMAIN s : i > j /\ s[i].do = "label" /\ s[i].tag = s[j].tag
      BY <2>1, <2>2 DEF Awaited
    <3>4. i \in Nat /\ k \in Nat /\ 1 <= k
      BY <1>1, Positions
    <3>5. i > k + 1
      BY <2>1, <3>1
    <3>3. i # 1 /\ i - 1 > k
      BY <3>4, <3>5, Later
    <3>2. i - 1 \in DOMAIN t /\ i - 1 > k /\ s[i] = t[i - 1]
      BY <1>1, <3>3
    <3>. QED  BY <2>1, <3>1, <3>2
  <2>5. k > 1 => After(t, k)
    <3>1. k > 1 => t[k - 1] = s[j - 1]
      BY <1>1, <2>1
    <3>. QED  BY <2>1, <2>2, <3>1 DEF After
  <2>6. t[k].tag = NoTag \/ t[k].tag[1] < m \/ (t[k].tag[1] = m /\ Fresh(t))
    <3>1. s[j] \in Step
      BY <1>1, <2>1 DEF Steps
    <3>2. s[j].tag \in Tag
      BY <3>1, StepKinds
    <3>3. s[j].tag[1] \in Nat
      BY <3>2 DEF Tag
    <3>4. s[j].tag = NoTag \/ s[j].tag[1] < m \/ (s[j].tag[1] = m /\ Fresh(t))
      BY <1>3, <2>2, <3>3
    <3>. QED  BY <2>1, <3>4
  <2>7. t[k].do = "finish" => k = Len(t)
    BY <1>1, <2>1, <2>2
  <2>8. Kind(t[k])
    BY <2>1, <2>2
  <2>9. LeftNext(t, k)
    <3>1. j + 1 <= Len(s) => k + 1 <= Len(t) /\ t[k + 1] = s[j + 1]
      BY <1>1, <2>1
    <3>. QED  BY <2>1, <2>2, <3>1 DEF LeftNext
  <2>. QED  BY <2>3, <2>4, <2>5, <2>6, <2>7, <2>8, <2>9
<1>5. TodoOK(t, m)
  BY <1>1, <1>2, <1>4 DEF TodoOK
<1>. QED  BY <1>5 DEF t

(* A child is visited.                                                     *)
LEMMA TodoVisit ==
  ASSUME NEW s, NEW n \in Nat, TodoOK(s, n), s # << >>, s[1].do \in {"stmt", "stmts", "expr"},
         NEW v, Visitor(v, n)
  PROVE  /\ TodoOK(v \o Tail(s), n)
         /\ \A k \in DOMAIN (v \o Tail(s)) : After(v \o Tail(s), k)
         /\ \A k \in DOMAIN (v \o Tail(s)) :
              \/ k \in DOMAIN v /\ (v \o Tail(s))[k] = v[k]
              \/ /\ k - Len(v) + 1 \in DOMAIN s
                 /\ (v \o Tail(s))[k] = s[k - Len(v) + 1] /\ k - Len(v) + 1 > 1 /\ k > Len(v)
         /\ \A k \in DOMAIN v : k \in DOMAIN (v \o Tail(s)) /\ (v \o Tail(s))[k] = v[k]
         /\ \A k \in DOMAIN s :
              k > 1 => /\ k - 1 + Len(v) \in DOMAIN (v \o Tail(s))
                       /\ (v \o Tail(s))[k - 1 + Len(v)] = s[k] /\ k - 1 + Len(v) > Len(v)
<1>. DEFINE t == Tail(s)
            c == v \o t
<1>1. /\ t \in Steps /\ s \in Steps /\ v \in Steps /\ Len(t) = Len(s) - 1 /\ Len(s) \in Nat \ {0}
      /\ DOMAIN s = 1 .. Len(s) /\ DOMAIN t = 1 .. Len(s) - 1
      /\ \A k \in DOMAIN t : k + 1 \in DOMAIN s /\ t[k] = s[k + 1]
  BY TailAt DEF TodoOK, Visitor
<1>2. TodoOK(t, n)
  BY TodoTail
<1>3. ~ Fresh(s)
  <2>1. ASSUME NEW k \in 1 .. 3, s[k].do \in {"emit", "alloc"}, \A j \in 1 .. k - 1 : s[j].do = "enter"
        PROVE  FALSE
    <3>1. k = 1 \/ 1 \in 1 .. k - 1
      OBVIOUS
    <3>. QED  BY <2>1, <3>1
  <2>. QED  BY <2>1 DEF Fresh
<1>4. ASSUME NEW k \in DOMAIN t PROVE t[k].tag = NoTag \/ t[k].tag[1] < n
  BY <1>1, <1>3, <1>4 DEF TodoOK
<1>5. ASSUME NEW k \in DOMAIN t PROVE After(t, k)
  <2>1. CASE k > 1
    BY <1>2, <1>5, <2>1 DEF TodoOK
  <2>2. CASE k = 1
    <3>1. 2 \in DOMAIN s /\ t[1] = s[2] /\ 2 > 1 /\ 2 - 1 = 1
      BY <1>1, <1>5, <2>2
    <3>2. After(s, 2)
      BY <3>1 DEF TodoOK
    <3>. QED  BY <2>2, <3>1, <3>2 DEF After
  <2>. QED  BY <1>1, <1>5, <2>1, <2>2
<1>. HIDE DEF t
<1>6. /\ c \in Steps /\ Len(c) = Len(v) + Len(t) /\ Len(v) \in Nat /\ Len(t) \in Nat
      /\ \A k \in DOMAIN v : k \in DOMAIN c /\ c[k] = v[k]
      /\ \A k \in DOMAIN t : k + Len(v) \in DOMAIN c /\ c[k + Len(v)] = t[k]
      /\ \A k \in DOMAIN c :
           \/ k \in DOMAIN v
           \/ k - Len(v) \in DOMAIN t /\ c[k] = t[k - Len(v)] /\ k > Len(v)
  <2>1. v \in Steps /\ t \in Steps
    BY <1>1
  <2>. QED  BY <2>1, Concat
<1>7. DOMAIN v = 1 .. Len(v) /\ DOMAIN t = 1 .. Len(t) /\ DOMAIN c = 1 .. Len(c)
  BY <1>1, <1>6, Lengths
<1>8. \A k \in DOMAIN v : v[k].do \in {"label", "alloc later"} => v[k].tag[1] = n
  <2>1. NoTag[2] = ""
    BY DEF NoTag
  <2>. QED  BY <2>1 DEF Visitor, Kind
<1>9. Once(c)
  <2>1. ASSUME NEW k \in DOMAIN v, NEW m \in DOMAIN t,
               v[k].do \in {"label", "alloc later"}, t[m].do = v[k].do, t[m].tag = v[k].tag
        PROVE  FALSE
    <3>1. v[k].tag[1] = n
      BY <1>8, <2>1
    <3>2. v[k].tag # NoTag
      <4>1. NoTag[2] = ""
        BY DEF NoTag
      <4>2. Kind(v[k]) /\ Kind(t[m])
        BY <1>2 DEF Visitor, TodoOK
      <4>. QED  BY <2>1, <4>1, <4>2 DEF Kind
    <3>3. t[m].tag = NoTag \/ t[m].tag[1] < n
      BY <1>4
    <3>4. t[m].tag = NoTag \/ n < n
      BY <2>1, <3>1, <3>3
    <3>5. ~ (n < n)
      OBVIOUS
    <3>. QED  BY <2>1, <3>2, <3>4, <3>5
  <2>. QED  BY <1>1, <1>2, <2>1, OnceConcat DEF Visitor, TodoOK
<1>10. Fresh(v) => Fresh(c)
  BY <1>1, FreshConcat
<1>. HIDE DEF c
<1>11. ASSUME NEW k \in DOMAIN v
       PROVE  /\ Kind(c[k]) /\ Reserves(c, k) /\ LeftNext(c, k) /\ Awaited(c, k) /\ After(c, k)
              /\ c[k].do # "finish"
              /\ c[k].tag = NoTag \/ (c[k].tag[1] = n /\ Fresh(c))
  <2>1. /\ Kind(v[k]) /\ Reserves(v, k) /\ LeftNext(v, k) /\ Awaited(v, k) /\ After(v, k)
        /\ v[k].do # "finish"
        /\ v[k].tag = NoTag \/ (v[k].tag[1] = n /\ Fresh(v))
    BY <1>11 DEF Visitor
  <2>2. c[k] = v[k] /\ k \in 1 .. Len(v)
    BY <1>6, <1>7, <1>11
  <2>3. Reserves(c, k)
    <3>1. k + 3 <= Len(v) =>
            /\ k + 3 <= Len(c) /\ c[k + 1] = v[k + 1] /\ c[k + 2] = v[k + 2] /\ c[k + 3] = v[k + 3]
      BY <1>6, <1>7, <2>2
    <3>. QED  BY <2>1, <2>2, <3>1 DEF Reserves
  <2>4. Awaited(c, k)
    <3>1. v[k].do = "alloc later" =>
            \E m \in DOMAIN v : m > k /\ v[m].do = "label" /\ v[m].tag = v[k].tag
      BY <2>1 DEF Awaited
    <3>2. v[k].do = "alloc later" =>
            \E m \in DOMAIN c : m > k /\ c[m].do = "label" /\ c[m].tag = c[k].tag
      BY <1>6, <2>2, <3>1
    <3>. QED  BY <2>2, <3>2 DEF Awaited
  <2>5. After(c, k)
    <3>1. k > 1 => c[k - 1] = v[k - 1]
      BY <1>6, <1>7, <2>2
    <3>. QED  BY <2>1, <2>2, <3>1 DEF After
  <2>6. c[k].tag = NoTag \/ (c[k].tag[1] = n /\ Fresh(c))
    BY <1>10, <2>1, <2>2
  <2>7. Kind(c[k]) /\ c[k].do # "finish"
    BY <2>1, <2>2
  <2>8. LeftNext(c, k)
    <3>1. k + 1 <= Len(v) => k + 1 <= Len(c) /\ c[k + 1] = v[k + 1]
      BY <1>6, <1>7, <2>2
    <3>. QED  BY <2>1, <2>2, <3>1 DEF LeftNext
  <2>. QED  BY <2>3, <2>4, <2>5, <2>6, <2>7, <2>8
<1>12. ASSUME NEW k \in DOMAIN c, k - Len(v) \in DOMAIN t, c[k] = t[k - Len(v)]
       PROVE  /\ Kind(c[k]) /\ Reserves(c, k) /\ LeftNext(c, k) /\ Awaited(c, k) /\ After(c, k)
              /\ c[k].do = "finish" => k = Len(c)
              /\ c[k].tag = NoTag \/ c[k].tag[1] < n
  <2>. DEFINE j == k - Len(v)
  <2>1. j \in DOMAIN t /\ c[k] = t[j] /\ k = j + Len(v) /\ j \in 1 .. Len(t) /\ k \in Nat
    BY <1>6, <1>7, <1>12
  <2>. HIDE DEF j
  <2>2. /\ Kind(t[j]) /\ Reserves(t, j) /\ LeftNext(t, j) /\ Awaited(t, j) /\ After(t, j)
        /\ t[j].do = "finish" => j = Len(t)
        /\ t[j].tag = NoTag \/ t[j].tag[1] < n
    BY <1>2, <1>4, <1>5, <2>1 DEF TodoOK
  <2>3. Reserves(c, k)
    <3>1. ASSUME j + 3 <= Len(t)
          PROVE  k + 3 <= Len(c) /\ c[k + 1] = t[j + 1] /\ c[k + 2] = t[j + 2] /\ c[k + 3] = t[j + 3]
      <4>1. j \in Nat /\ 1 <= j /\ k = j + Len(v) /\ Len(c) = Len(v) + Len(t)
            /\ Len(v) \in Nat /\ Len(t) \in Nat
        BY <1>1, <1>6, <2>1, Positions
      <4>2. \A i \in Nat : 1 <= i /\ i <= Len(t) => i \in DOMAIN t
        BY <1>1, Positions
      <4>3. j + 1 \in Nat /\ j + 2 \in Nat /\ j + 3 \in Nat /\ 1 <= j + 1 /\ 1 <= j + 2 /\ 1 <= j + 3
            /\ j + 1 <= Len(t) /\ j + 2 <= Len(t)
        BY <3>1, <4>1
      <4>4. j + 1 \in DOMAIN t /\ j + 2 \in DOMAIN t /\ j + 3 \in DOMAIN t
        BY <3>1, <4>2, <4>3
      <4>5. (j + 1) + Len(v) = k + 1 /\ (j + 2) + Len(v) = k + 2 /\ (j + 3) + Len(v) = k + 3
        BY <4>1
      <4>6. k + 3 <= Len(c)
        BY <3>1, <4>1
      <4>7. \A i \in DOMAIN t : c[i + Len(v)] = t[i]
        BY <1>6
      <4>8. c[k + 1] = t[j + 1] /\ c[k + 2] = t[j + 2] /\ c[k + 3] = t[j + 3]
        BY <4>4, <4>5, <4>7
      <4>. QED  BY <4>6, <4>8
    <3>. QED  BY <2>1, <2>2, <3>1 DEF Reserves
  <2>4. Awaited(c, k)
    <3>. SUFFICES ASSUME c[k].do = "alloc later"
                  PROVE  \E i \in DOMAIN c : i > k /\ c[i].do = "label" /\ c[i].tag = c[k].tag
      BY DEF Awaited
    <3>1. PICK i \in DOMAIN t : i > j /\ t[i].do = "label" /\ t[i].tag = t[j].tag
      BY <2>1, <2>2 DEF Awaited
    <3>6. i > j
      BY <3>1
    <3>3. i \in Nat /\ j \in Nat /\ Len(v) \in Nat /\ k = j + Len(v)
      BY <1>1, <2>1, Positions
    <3>4. i + Len(v) > k
      BY <3>6, <3>3, Later
    <3>2. i + Len(v) \in DOMAIN c /\ i + Len(v) > k /\ c[i + Len(v)] = t[i]
      BY <1>6, <3>1, <3>4
    <3>. QED  BY <2>1, <3>1, <3>2
  <2>5. After(c, k)
    <3>1. ASSUME j > 1 PROVE k > 1 /\ c[k - 1] = t[j - 1]
      <4>2. DOMAIN t = 1 .. Len(t) /\ Len(v) \in Nat /\ Len(t) \in Nat
        BY <1>6, <1>7
      <4>1. j - 1 \in DOMAIN t /\ (j - 1) + Len(v) = k - 1 /\ k > 1
        BY <2>1, <3>1, <4>2
      <4>. QED  BY <1>6, <4>1
    <3>. QED  BY <2>1, <2>2, <3>1 DEF After
  <2>6. c[k].do = "finish" => k = Len(c)
    BY <1>6, <2>1, <2>2
  <2>7. Kind(c[k]) /\ (c[k].tag = NoTag \/ c[k].tag[1] < n)
    BY <2>1, <2>2
  <2>8. LeftNext(c, k)
    <3>1. ASSUME j + 1 <= Len(t) PROVE k + 1 <= Len(c) /\ c[k + 1] = t[j + 1]
      <4>1. /\ j \in Nat /\ 1 <= j /\ k = j + Len(v) /\ Len(c) = Len(v) + Len(t)
            /\ Len(v) \in Nat /\ Len(t) \in Nat
        BY <1>1, <1>6, <2>1, Positions
      <4>2. \A i \in Nat : 1 <= i /\ i <= Len(t) => i \in DOMAIN t
        BY <1>1, Positions
      <4>3. j + 1 \in Nat /\ 1 <= j + 1 /\ (j + 1) + Len(v) = k + 1 /\ k + 1 <= Len(c)
        BY <3>1, <4>1
      <4>4. j + 1 \in DOMAIN t
        BY <3>1, <4>2, <4>3
      <4>. QED  BY <1>6, <4>3, <4>4
    <3>. QED  BY <2>1, <2>2, <3>1 DEF LeftNext
  <2>. QED  BY <2>3, <2>4, <2>5, <2>6, <2>7, <2>8
<1>13. TodoOK(c, n)
  <2>. SUFFICES ASSUME NEW k \in DOMAIN c
                PROVE  /\ Kind(c[k]) /\ Reserves(c, k) /\ LeftNext(c, k) /\ Awaited(c, k)
                       /\ k > 1 => After(c, k)
                       /\ c[k].do = "finish" => k = Len(c)
                       /\ c[k].tag = NoTag \/ c[k].tag[1] < n \/ (c[k].tag[1] = n /\ Fresh(c))
    BY <1>6, <1>9 DEF TodoOK
  <2>. QED  BY <1>6, <1>11, <1>12
<1>14. \A k \in DOMAIN c : After(c, k)
  BY <1>6, <1>11, <1>12
<1>15. ASSUME NEW k \in DOMAIN c, k \notin DOMAIN v
       PROVE  /\ k - Len(v) + 1 \in DOMAIN s
              /\ c[k] = s[k - Len(v) + 1] /\ k - Len(v) + 1 > 1 /\ k > Len(v)
  <2>. DEFINE j == k - Len(v)
  <2>1. j \in DOMAIN t /\ c[k] = t[j] /\ k > Len(v)
    BY <1>6, <1>15
  <2>2. j \in Nat /\ 1 <= j
    BY <1>1, <2>1, Positions
  <2>. HIDE DEF j
  <2>3. j + 1 \in DOMAIN s /\ c[k] = s[j + 1] /\ j + 1 > 1
    BY <1>1, <2>1, <2>2
  <2>. QED  BY <2>1, <2>3 DEF j
<1>16. ASSUME NEW k \in DOMAIN s, k > 1
       PROVE  /\ k - 1 + Len(v) \in DOMAIN c
              /\ c[k - 1 + Len(v)] = s[k] /\ k - 1 + Len(v) > Len(v)
  <2>. DEFINE j == k - 1
  <2>1. j \in DOMAIN t /\ s[k] = t[j] /\ j \in Nat /\ j >= 1
    <3>1. k - 1 \in DOMAIN t /\ s[k] = t[k - 1]
      BY <1>1, <1>16, TailAt DEF t
    <3>2. k \in Nat /\ k - 1 >= 1 /\ k - 1 \in Nat
      BY <1>1, <1>16, Positions
    <3>. QED  BY <3>1, <3>2
  <2>. HIDE DEF j
  <2>2. j + Len(v) \in DOMAIN c /\ c[j + Len(v)] = t[j] /\ j + Len(v) > Len(v)
    BY <1>6, <2>1
  <2>. QED  BY <2>1, <2>2 DEF j
<1>17. \A k \in DOMAIN v : k \in DOMAIN c /\ c[k] = v[k]
  BY <1>6
<1>. QED  BY <1>13, <1>14, <1>15, <1>16, <1>17 DEF c, t

LEMMA NonEmpty ==
  ASSUME NEW s, Len(s) # 0
  PROVE  s # << >>
<1>1. Len(<< >>) = 0
  BY EmptySeq
<1>. QED  BY <1>1, Zenon

LEMMA PairTail ==
  ASSUME NEW a \in Step, NEW b \in Step
  PROVE  /\ << a, b >> \in Steps /\ Len(<< a, b >>) = 2 /\ << a, b >>[1] = a /\ << a, b >>[2] = b
         /\ << b >> \in Steps /\ Len(<< b >>) = 1 /\ << b >>[1] = b
         /\ Tail(<< a, b >>) = << b >>
<1>. DEFINE s == << a, b >>
            z == << b >>
<1>1. /\ s \in Steps /\ Len(s) = 2 /\ s[1] = a /\ s[2] = b
      /\ z \in Steps /\ Len(z) = 1 /\ z[1] = b
  BY FewSteps
<1>. HIDE DEF s, z
<1>2. s # << >>
  <2>1. Len(s) # 0
    BY <1>1
  <2>. QED  BY <2>1, NonEmpty
<1>3. /\ Tail(s) \in Steps /\ Len(Tail(s)) = 1
      /\ \A k \in DOMAIN Tail(s) : Tail(s)[k] = s[k + 1]
  BY <1>1, <1>2, TailAt
<1>4. 1 \in DOMAIN Tail(s)
  <2>. DEFINE q == Tail(s)
  <2>1. q \in Steps /\ Len(q) = 1
    BY <1>3
  <2>. HIDE DEF q
  <2>2. \A k \in Nat : 1 <= k /\ k <= Len(q) => k \in DOMAIN q
    BY <2>1, Positions
  <2>3. 1 \in DOMAIN q
    BY <2>1, <2>2
  <2>. QED  BY <2>3 DEF q
<1>5. Tail(s)[1] = s[1 + 1]
  BY <1>3, <1>4
<1>6. \A i \in 1 .. Len(Tail(s)) : Tail(s)[i] = z[i]
  <2>1. \A i \in 1 .. 1 : i = 1
    OBVIOUS
  <2>2. Tail(s)[1] = z[1]
    BY <1>1, <1>5
  <2>. QED  BY <1>3, <2>1, <2>2
<1>7. Tail(s) = z
  BY <1>1, <1>3, <1>6, SeqEqual DEF Steps
<1>. QED  BY <1>1, <1>7 DEF s, z

LEMMA FuncSteps ==
  /\ TodoOK(Func, 0)
  /\ \A k \in DOMAIN Func : Ordinary(Func[k]) \/ Func[k] = Do("finish")
<1>. USE OneStep
<1>. DEFINE p == << Alloc >> \o Block
            f == Do("finish")
            s == << Stmt, f >>
            z == << f >>
<1>1. Part(p, 0, {}, {})
  BY OrdinaryParts, OrdinaryConcat
<1>2. Visitor(p, 0) /\ p \in Steps /\ \A k \in DOMAIN p : Ordinary(p[k])
  <2>1. Visitor(p, 0)
    <3>. HIDE DEF p
    <3>. QED  BY <1>1, PartVisitor
  <2>2. p \in Steps /\ \A k \in DOMAIN p : Ordinary(p[k])
    BY <1>1 DEF Part
  <2>. QED  BY <2>1, <2>2
<1>3. s \in Steps /\ z \in Steps /\ Len(s) = 2 /\ s[1] = Stmt /\ s[2] = f /\ Tail(s) = z
      /\ Len(z) = 1 /\ z[1] = f
  <2>1. Stmt \in Step /\ f \in Step
    OBVIOUS
  <2>. HIDE DEF f
  <2>. QED  BY <2>1, PairTail
<1>4. f.do = "finish" /\ f.tag = NoTag /\ Stmt.do = "stmt" /\ Stmt.tag = NoTag
  BY DEF Do, Stmt
<1>. HIDE DEF p, f, s, z
<1>5. \A k \in DOMAIN s : k = 1 \/ k = 2
  BY <1>3, Positions
<1>6. TodoOK(s, 0)
  BY <1>3, <1>4, <1>5 DEF TodoOK, Kind, Reserves, LeftNext, Awaited, After, Once
<1>7. s # << >>
  <2>1. Len(s) # 0
    BY <1>3
  <2>. QED  BY <2>1, NonEmpty
<1>8. TodoOK(p \o z, 0)
  <2>1. TodoOK(p \o Tail(s), 0)
    BY <1>2, <1>3, <1>4, <1>6, <1>7, TodoVisit
  <2>. QED  BY <1>3, <2>1
<1>9. \A k \in DOMAIN (p \o z) : Ordinary((p \o z)[k]) \/ (p \o z)[k] = f
  <2>1. /\ \A k \in DOMAIN p : (p \o z)[k] = p[k]
        /\ \A k \in DOMAIN (p \o z) :
             k \in DOMAIN p \/ (k - Len(p) \in DOMAIN z /\ (p \o z)[k] = z[k - Len(p)])
    BY <1>2, <1>3, Concat
  <2>2. \A k \in DOMAIN z : z[k] = f
    BY <1>3, Positions
  <2>. QED  BY <1>2, <2>1, <2>2
<1>. QED  BY <1>8, <1>9 DEF Func, p, z, f

(* What a step does to the steps left.                                     *)
LEMMA Moves ==
  ASSUME IInv, [Next]_vars
  PROVE  \/ UNCHANGED vars
         \/ /\ todo # << >> /\ todo[1].do \in {"stmt", "stmts", "expr"}
            /\ \E v : Visitor(v, opcodeCount) /\ todo' = v \o Tail(todo)
            /\ UNCHANGED << ircode, scopes, stacksize >>
         \/ /\ todo # << >> /\ todo' = Tail(todo) /\ todo[1].do \notin {"stmt", "stmts", "expr"}
            /\ opcodeCount <= opcodeCount'
            /\ todo[1].do \in {"emit", "alloc"} => opcodeCount < opcodeCount'
            /\ stacksize' # stacksize => todo[1].do = "finish"
<1>1. ircode \in Seq(Instr) /\ todo \in Seq(Step) /\ opcodeCount \in Nat /\ opcodeCount = Len(ircode)
  BY DEF IInv, TypeOK, opcodeCount
<1>2. todo # << >> => Head(todo) = todo[1]
  BY <1>1
<1>3. ASSUME NEW x, ircode' = Append(ircode, x) PROVE opcodeCount' = opcodeCount + 1
  BY <1>1, <1>3 DEF opcodeCount
<1>4. CASE EmitPlain \/ EmitAlloc \/ EmitAllocLater \/ EmitJump \/ EmitJzraise \/ RegisterHandler
           \/ ExitHandler \/ FinishFunc
  <2>1. /\ todo # << >> /\ todo' = Tail(todo) /\ todo[1].do \notin {"stmt", "stmts", "expr"}
        /\ \E x : ircode' = Append(ircode, x)
        /\ stacksize' # stacksize => todo[1].do = "finish"
    BY <1>2, <1>4 DEF EmitPlain, EmitAlloc, EmitAllocLater, EmitJump, EmitJzraise, RegisterHandler,
                      ExitHandler, FinishFunc, AtStep
  <2>. QED  BY <1>1, <1>3, <2>1
<1>5. CASE EmitLabel
  <2>1. /\ todo # << >> /\ todo' = Tail(todo) /\ todo[1].do = "label" /\ stacksize' = stacksize
        /\ \E t, n, x : ircode' = Append(Patched(t, n), x)
    BY <1>2, <1>5 DEF EmitLabel, AtStep
  <2>2. ASSUME NEW t, NEW n, NEW x, ircode' = Append(Patched(t, n), x)
        PROVE  opcodeCount' = opcodeCount + 1
    <3>1. DOMAIN Patched(t, n) = 1 .. Len(ircode)
      BY <1>1 DEF Patched
    <3>2. Patched(t, n) \in Seq(Range(Patched(t, n))) /\ Len(Patched(t, n)) = Len(ircode)
      BY <1>1, <3>1 DEF Patched, Range
    <3>. HIDE DEF Patched
    <3>. QED  BY <1>1, <2>2, <3>2 DEF opcodeCount
  <2>. QED  BY <1>1, <2>1, <2>2
<1>6. CASE Reserve \/ EnterScope
  BY <1>1, <1>2, <1>6 DEF Reserve, EnterScope, AtStep, opcodeCount
<1>7. CASE LeaveScope
  <2>1. /\ todo # << >> /\ todo' = Tail(todo) /\ todo[1].do = "leave" /\ stacksize' = stacksize
    BY <1>2, <1>7 DEF LeaveScope, AtStep
  <2>2. CASE Top.onScopeFailExitLabels = << >>
    BY <1>1, <1>7, <2>1, <2>2 DEF LeaveScope, opcodeCount
  <2>3. CASE Top.onScopeFailExitLabels # << >>
    <3>. DEFINE exit == << Top.at, "exit" >>
                vs == Reverse(Top.onScopeFailExitLabels)
                q == Patched(exit, nextvar)
                x == Instruction("label", 0, nextvar, exit)
    <3>1. ircode' = Append(q, x) \o Unregistered(vs)
      BY <1>7, <2>3 DEF LeaveScope, updateOnScopeFailExitLabels
    <3>2. vs \in Seq(Nat)
      BY TopScope, SMTT(30) DEF IInv, Reverse
    <3>3. q \in Seq(Range(q)) /\ Len(q) = Len(ircode)
      <4>1. DOMAIN q = 1 .. Len(ircode)
        BY <1>1 DEF Patched
      <4>. QED  BY <1>1, <4>1 DEF Patched, Range
    <3>. HIDE DEF q, x, vs
    <3>4. Unregistered(vs) \in Seq(Range(Unregistered(vs))) /\ Len(Unregistered(vs)) = 2 * Len(vs)
          /\ Len(vs) \in Nat
      <4>1. DOMAIN Unregistered(vs) = 1 .. 2 * Len(vs) /\ 2 * Len(vs) \in Nat
        BY <3>2 DEF Unregistered
      <4>. QED  BY <3>2, <4>1 DEF Unregistered, Range
    <3>. DEFINE u == Unregistered(vs)
                R == Range(q) \cup {x} \cup Range(u)
    <3>5. Append(q, x) \in Seq(R) /\ u \in Seq(R) /\ Len(Append(q, x)) = Len(ircode) + 1
      BY <1>1, <3>3, <3>4
    <3>. HIDE DEF u, R
    <3>6. Len(Append(q, x) \o u) = Len(ircode) + 1 + 2 * Len(vs)
      <4>. DEFINE y == Append(q, x)
      <4>1. y \in Seq(R) /\ u \in Seq(R) /\ Len(y) = Len(ircode) + 1 /\ Len(u) = 2 * Len(vs)
        BY <3>4, <3>5 DEF u
      <4>. HIDE DEF y
      <4>2. Len(y \o u) = Len(y) + Len(u)
        BY <4>1
      <4>. QED  BY <4>1, <4>2 DEF y
    <3>7. opcodeCount < opcodeCount'
      BY <1>1, <3>1, <3>4, <3>6 DEF opcodeCount, u
    <3>. QED  BY <1>1, <2>1, <3>7 DEF opcodeCount
  <2>. QED  BY <2>2, <2>3
<1>8. CASE VisitStmt \/ VisitExpr \/ VisitStmts
  <2>1. /\ todo # << >> /\ todo[1].do \in {"stmt", "stmts", "expr"}
        /\ UNCHANGED << ircode, scopes, stacksize >>
        /\ \E v : /\ todo' = v \o Tail(todo)
                  /\ v \in Statements(opcodeCount) \cup Expressions(opcodeCount)
                          \cup {ExprStmt, Identifier, << >>}
                          \cup { s \o << Do("stmts") >> : s \in Statements(opcodeCount) \cup {ExprStmt} }
    BY <1>2, <1>8 DEF VisitStmt, VisitExpr, VisitStmts, Visit, AtStep
  <2>2. ASSUME NEW v \in Statements(opcodeCount) \cup Expressions(opcodeCount)
                          \cup {ExprStmt, Identifier, << >>}
                          \cup { s \o << Do("stmts") >> : s \in Statements(opcodeCount) \cup {ExprStmt} }
        PROVE  Visitor(v, opcodeCount)
    <3>1. CASE v \in Statements(opcodeCount) \cup Expressions(opcodeCount)
                       \cup {ExprStmt, Identifier, << >>}
      BY <1>1, <3>1, Visitors
    <3>2. ASSUME NEW s \in Statements(opcodeCount) \cup {ExprStmt}, v = s \o << Do("stmts") >>
          PROVE  Visitor(v, opcodeCount)
      <4>1. Visitor(s, opcodeCount)
        BY <1>1, Visitors
      <4>. QED  BY <1>1, <3>2, <4>1, VisitorAppend, OneStep, OrdinarySteps
    <3>. QED  BY <3>1, <3>2
  <2>. QED  BY <2>1, <2>2
<1>9. CASE Finished \/ UNCHANGED vars
  BY <1>9 DEF Finished
<1>. QED  BY <1>4, <1>5, <1>6, <1>7, <1>8, <1>9 DEF Next

LEMMA TodoKept ==
  ASSUME IInv, TodoOK(todo, opcodeCount), [Next]_vars
  PROVE  TodoOK(todo, opcodeCount)'
<1>1. opcodeCount \in Nat /\ opcodeCount' \in Nat
  <2>1. IInv'
    BY StepInv
  <2>. QED  BY <2>1 DEF IInv, TypeOK, opcodeCount
<1>2. CASE UNCHANGED vars
  BY <1>2 DEF vars, opcodeCount
<1>3. CASE /\ todo # << >> /\ todo[1].do \in {"stmt", "stmts", "expr"}
           /\ \E v : Visitor(v, opcodeCount) /\ todo' = v \o Tail(todo)
           /\ UNCHANGED << ircode, scopes, stacksize >>
  <2>1. PICK v : Visitor(v, opcodeCount) /\ todo' = v \o Tail(todo)
    BY <1>3
  <2>2. TodoOK(todo', opcodeCount)
    BY <1>1, <1>3, <2>1, TodoVisit
  <2>. QED  BY <1>3, <2>2 DEF opcodeCount
<1>4. CASE /\ todo # << >> /\ todo' = Tail(todo)
           /\ opcodeCount <= opcodeCount'
           /\ todo[1].do \in {"emit", "alloc"} => opcodeCount < opcodeCount'
  BY <1>1, <1>4, TodoTail
<1>. QED  BY <1>2, <1>3, <1>4, Moves

-----------------------------------------------------------------------------
(* Where the jumps of a function without handlers land.                    *)

(* The labels are strictly ordered, and where there is a label there is a  *)
(* last one.                                                               *)
Sorted(code, n) ==
  /\ \A i \in DOMAIN code : IsLabel(code[i]) => 1 <= code[i].label /\ code[i].label <= n
  /\ \A i, j \in DOMAIN code :
       IsLabel(code[i]) /\ IsLabel(code[j]) /\ i < j => code[i].label < code[j].label
  /\ \A k \in DOMAIN code, i \in DOMAIN code :
       i <= k /\ IsLabel(code[i]) =>
         \E j \in DOMAIN code : /\ j <= k /\ IsLabel(code[j])
                                /\ \A m \in DOMAIN code : IsLabel(code[m]) /\ m <= k => m <= j

(* A jump knows its label if that is there, and waits for it if not.       *)
Meant(code, s) ==
  \A i \in DOMAIN code :
    code[i].op \in Jumps =>
      \/ Named(s, code[i].tag)
      \/ \E t \in DOMAIN code : /\ code[t].op = "label" /\ code[t].tag = code[i].tag
                                /\ code[t].label = code[i].label

(* A jump to come has its label, in the code or to come.                   *)
Known(code, s) ==
  \A k \in DOMAIN s :
    s[k].do = "jump" =>
      \/ Named(s, s[k].tag)
      \/ \E t \in DOMAIN code : code[t].op = "label" /\ code[t].tag = s[k].tag

JInv ==
  /\ stacksize # 0 => todo = << >>
  /\ AtStep("exit") => ~ WithoutHandlers
  /\ WithoutHandlers =>
       Sorted(ircode, Top.nextVarID) /\ Meant(ircode, todo) /\ Known(ircode, todo)

LEMMA AppendAt ==
  ASSUME NEW code \in Seq(Instr), NEW x \in Instr
  PROVE  /\ Append(code, x) \in Seq(Instr)
         /\ Len(code) \in Nat /\ Len(code) + 1 \in DOMAIN Append(code, x)
         /\ Append(code, x)[Len(code) + 1] = x
         /\ \A i \in DOMAIN code : /\ i \in DOMAIN Append(code, x) /\ Append(code, x)[i] = code[i]
                                   /\ i \in Nat /\ 1 <= i /\ i < Len(code) + 1
         /\ \A i \in DOMAIN Append(code, x) : i \in DOMAIN code \/ i = Len(code) + 1
<1>1. /\ Append(code, x) \in Seq(Instr) /\ Len(code) \in Nat
      /\ DOMAIN Append(code, x) = 1 .. Len(code) + 1 /\ DOMAIN code = 1 .. Len(code)
      /\ Append(code, x)[Len(code) + 1] = x
      /\ \A i \in 1 .. Len(code) : Append(code, x)[i] = code[i]
  OBVIOUS
<1>. QED  BY <1>1

(* An instruction that is not a label, while the counter may go up.        *)
LEMMA SortedOther ==
  ASSUME NEW code \in Seq(Instr), NEW n \in Nat, NEW m \in Nat, n <= m, Sorted(code, n),
         NEW x \in Instr, ~ IsLabel(x)
  PROVE  Sorted(Append(code, x), m)
<1>. DEFINE c == Append(code, x)
            z == Len(code) + 1
<1>1. /\ Len(code) \in Nat /\ z \in DOMAIN c /\ c[z] = x /\ z \in Nat
      /\ \A i \in DOMAIN code : i \in DOMAIN c /\ c[i] = code[i] /\ i \in Nat /\ i < z
      /\ \A i \in DOMAIN c : i \in DOMAIN code \/ i = z
  BY AppendAt
<1>2. \A i \in DOMAIN code : code[i].label \in Nat
  BY LabelNat
<1>. HIDE DEF c, z, IsLabel
<1>3. ASSUME NEW i \in DOMAIN c, IsLabel(c[i]) PROVE i \in DOMAIN code /\ IsLabel(code[i])
  BY <1>1, <1>3
<1>4. ASSUME NEW i \in DOMAIN c, IsLabel(c[i])
      PROVE  1 <= c[i].label /\ c[i].label <= m
  BY <1>1, <1>2, <1>3, <1>4 DEF Sorted
<1>5. ASSUME NEW i \in DOMAIN c, NEW j \in DOMAIN c, IsLabel(c[i]), IsLabel(c[j]), i < j
      PROVE  c[i].label < c[j].label
  BY <1>1, <1>3, <1>5 DEF Sorted
<1>6. ASSUME NEW k \in DOMAIN c, NEW i \in DOMAIN c, i <= k, IsLabel(c[i])
      PROVE  \E j \in DOMAIN c : /\ j <= k /\ IsLabel(c[j])
                                 /\ \A p \in DOMAIN c : IsLabel(c[p]) /\ p <= k => p <= j
  <2>1. i \in DOMAIN code /\ IsLabel(code[i])
    BY <1>3, <1>6
  <2>2. PICK q \in DOMAIN code : q <= k /\ i <= q /\ \A p \in DOMAIN code : p <= k => p <= q
    <3>1. CASE k \in DOMAIN code
      BY <1>1, <1>6, <2>1, <3>1
    <3>2. CASE k = z
      <4>1. Len(code) \in DOMAIN code /\ Len(code) <= z /\ i <= Len(code)
            /\ \A p \in DOMAIN code : p <= Len(code)
        <5>1. i \in 1 .. Len(code)
          BY <2>1
        <5>. QED  BY <1>1, <5>1 DEF z
      <4>. QED  BY <3>2, <4>1
    <3>. QED  BY <1>1, <3>1, <3>2
  <2>3. PICK j \in DOMAIN code : /\ j <= q /\ IsLabel(code[j])
                                 /\ \A p \in DOMAIN code : IsLabel(code[p]) /\ p <= q => p <= j
    BY <2>1, <2>2 DEF Sorted
  <2>4. j \in DOMAIN c /\ IsLabel(c[j]) /\ j <= k
    <3>1. j \in DOMAIN c /\ IsLabel(c[j])
      BY <1>1, <2>3
    <3>2. j \in Nat /\ q \in Nat /\ k \in Nat
      BY <1>1
    <3>. QED  BY <2>2, <2>3, <3>1, <3>2
  <2>5. ASSUME NEW p \in DOMAIN c, IsLabel(c[p]), p <= k PROVE p <= j
    BY <1>3, <2>2, <2>3, <2>5
  <2>. QED  BY <2>4, <2>5
<1>7. Sorted(c, m)
  BY <1>4, <1>5, <1>6 DEF Sorted
<1>. QED  BY <1>7 DEF c

(* The next label.                                                         *)
LEMMA SortedLabel ==
  ASSUME NEW code \in Seq(Instr), NEW n \in Nat, Sorted(code, n),
         NEW x \in Instr, IsLabel(x), x.label = n + 1
  PROVE  Sorted(Append(code, x), n + 1)
<1>. DEFINE c == Append(code, x)
            z == Len(code) + 1
<1>1. /\ Len(code) \in Nat /\ z \in DOMAIN c /\ c[z] = x /\ z \in Nat
      /\ \A i \in DOMAIN code : i \in DOMAIN c /\ c[i] = code[i] /\ i \in Nat /\ i < z
      /\ \A i \in DOMAIN c : i \in DOMAIN code \/ i = z
  BY AppendAt
<1>2. \A i \in DOMAIN code : code[i].label \in Nat
  BY LabelNat
<1>. HIDE DEF c, z, IsLabel
<1>4. ASSUME NEW i \in DOMAIN c, IsLabel(c[i])
      PROVE  1 <= c[i].label /\ c[i].label <= n + 1
  BY <1>1, <1>2, <1>4 DEF Sorted
<1>5. ASSUME NEW i \in DOMAIN c, NEW j \in DOMAIN c, IsLabel(c[i]), IsLabel(c[j]), i < j
      PROVE  c[i].label < c[j].label
  <2>1. i \in DOMAIN code /\ c[i] = code[i] /\ code[i].label <= n
    BY <1>1, <1>5 DEF Sorted
  <2>2. CASE j = z
    BY <1>1, <1>2, <2>1, <2>2
  <2>3. CASE j \in DOMAIN code
    BY <1>1, <1>5, <2>1, <2>3 DEF Sorted
  <2>. QED  BY <1>1, <2>2, <2>3
<1>6. ASSUME NEW k \in DOMAIN c, NEW i \in DOMAIN c, i <= k, IsLabel(c[i])
      PROVE  \E j \in DOMAIN c : /\ j <= k /\ IsLabel(c[j])
                                 /\ \A p \in DOMAIN c : IsLabel(c[p]) /\ p <= k => p <= j
  <2>1. CASE k = z
    <3>1. z <= z
      BY <1>1
    <3>. QED  BY <1>1, <2>1, <3>1
  <2>2. CASE k \in DOMAIN code
    <3>1. i \in DOMAIN code /\ IsLabel(code[i])
      BY <1>1, <1>6, <2>2
    <3>2. PICK j \in DOMAIN code : /\ j <= k /\ IsLabel(code[j])
                                   /\ \A p \in DOMAIN code : IsLabel(code[p]) /\ p <= k => p <= j
      BY <1>6, <2>2, <3>1 DEF Sorted
    <3>3. ASSUME NEW p \in DOMAIN c, IsLabel(c[p]), p <= k PROVE p <= j
      <4>1. p \in DOMAIN code
        BY <1>1, <2>2, <3>3
      <4>. QED  BY <1>1, <3>2, <3>3, <4>1
    <3>. QED  BY <1>1, <3>2, <3>3
  <2>. QED  BY <1>1, <2>1, <2>2
<1>7. Sorted(c, n + 1)
  BY <1>4, <1>5, <1>6 DEF Sorted
<1>. QED  BY <1>7 DEF c

(* Only the operands of jumps and of registers are patched.                *)
LEMMA PatchedAt ==
  ASSUME ircode \in Seq(Instr), NEW tag, NEW label \in Nat
  PROVE  /\ Patched(tag, label) \in Seq(Instr) /\ Len(Patched(tag, label)) = Len(ircode)
         /\ DOMAIN Patched(tag, label) = DOMAIN ircode
         /\ \A i \in DOMAIN ircode :
              LET a == ircode[i]
                  b == Patched(tag, label)[i]
              IN  /\ b.op = a.op /\ b.tag = a.tag /\ (IsLabel(b) <=> IsLabel(a))
                  /\ b.label = IF a.op \in Jumps /\ a.tag = tag THEN label ELSE a.label
                  /\ b.lvid = IF a.op \in Allocs /\ a.tag = tag THEN label + 1 ELSE a.lvid
<1>. DEFINE p == Patched(tag, label)
<1>1. DOMAIN p = DOMAIN ircode /\ DOMAIN ircode = 1 .. Len(ircode) /\ Len(ircode) \in Nat
  BY DEF Patched
<1>2. ASSUME NEW i \in DOMAIN ircode
      PROVE  LET a == ircode[i]
                 b == p[i]
             IN  /\ b \in Instr
                 /\ b.op = a.op /\ b.tag = a.tag /\ (IsLabel(b) <=> IsLabel(a))
                 /\ b.label = IF a.op \in Jumps /\ a.tag = tag THEN label ELSE a.label
                 /\ b.lvid = IF a.op \in Allocs /\ a.tag = tag THEN label + 1 ELSE a.lvid
  <2>. DEFINE a == ircode[i]
              b == p[i]
  <2>1. a \in Instr /\ label + 1 \in Nat
    BY <1>2
  <2>2. b = IF a.tag = tag
            THEN CASE a.op \in Jumps  -> [a EXCEPT !.label = label]
                   [] a.op \in Allocs -> [a EXCEPT !.lvid = label + 1]
                   [] OTHER           -> a
            ELSE a
    BY <1>2 DEF Patched
  <2>3. a.op \in Jumps => a.op \notin Allocs
    BY DEF Jumps, Allocs
  <2>. HIDE DEF a, b
  <2>4. \/ a.tag = tag /\ a.op \in Jumps /\ b = [a EXCEPT !.label = label]
        \/ a.tag = tag /\ a.op \notin Jumps /\ a.op \in Allocs /\ b = [a EXCEPT !.lvid = label + 1]
        \/ ~ (a.tag = tag /\ a.op \in Jumps) /\ ~ (a.tag = tag /\ a.op \in Allocs) /\ b = a
    BY <2>2, <2>3
  <2>5. /\ b \in Instr
        /\ b.op = a.op /\ b.tag = a.tag /\ (IsLabel(b) <=> IsLabel(a))
        /\ b.label = IF a.op \in Jumps /\ a.tag = tag THEN label ELSE a.label
        /\ b.lvid = IF a.op \in Allocs /\ a.tag = tag THEN label + 1 ELSE a.lvid
    <3>1. CASE a.tag = tag /\ a.op \in Jumps /\ b = [a EXCEPT !.label = label]
      BY <2>1, <2>3, <3>1 DEF Instr, IsLabel
    <3>2. CASE a.tag = tag /\ a.op \notin Jumps /\ a.op \in Allocs /\ b = [a EXCEPT !.lvid = label + 1]
      BY <2>1, <3>2 DEF Instr, IsLabel
    <3>3. CASE ~ (a.tag = tag /\ a.op \in Jumps) /\ ~ (a.tag = tag /\ a.op \in Allocs) /\ b = a
      BY <2>1, <3>3
    <3>. QED  BY <2>4, <3>1, <3>2, <3>3
  <2>. QED  BY <2>5 DEF a, b
<1>3. p \in Seq(Instr) /\ Len(p) = Len(ircode)
  <2>1. p = [i \in 1 .. Len(ircode) |-> p[i]]
    BY <1>1 DEF Patched
  <2>. HIDE DEF p
  <2>. QED  BY <1>1, <1>2, <2>1
<1>. QED  BY <1>1, <1>2, <1>3

LEMMA SortedPatched ==
  ASSUME ircode \in Seq(Instr), NEW tag, NEW label \in Nat, NEW n \in Nat, Sorted(ircode, n)
  PROVE  Sorted(Patched(tag, label), n)
<1>. DEFINE p == Patched(tag, label)
<1>1. /\ DOMAIN p = DOMAIN ircode
      /\ \A i \in DOMAIN ircode :
           /\ IsLabel(p[i]) <=> IsLabel(ircode[i])
           /\ IsLabel(ircode[i]) => p[i].label = ircode[i].label
  <2>1. \A i \in DOMAIN ircode : IsLabel(ircode[i]) => ircode[i].op \notin Jumps
    BY DEF IsLabel, Jumps
  <2>. QED  BY <2>1, PatchedAt
<1>. HIDE DEF p, IsLabel
<1>2. Sorted(p, n)
  BY <1>1 DEF Sorted
<1>. QED  BY <1>2 DEF p

(* The code d begins with the code c.                                      *)
Extends(d, c) == \A i \in DOMAIN c : i \in DOMAIN d /\ d[i] = c[i]

(* A step that emits no label.                                             *)
LEMMA KnownTail ==
  ASSUME NEW c, NEW d, Extends(d, c), NEW s \in Steps, s # << >>, s[1].do # "label",
         Known(c, s)
  PROVE  Known(d, Tail(s))
<1>. SUFFICES ASSUME NEW k \in DOMAIN Tail(s), Tail(s)[k].do = "jump"
              PROVE  \/ Named(Tail(s), Tail(s)[k].tag)
                     \/ \E t \in DOMAIN d : d[t].op = "label" /\ d[t].tag = Tail(s)[k].tag
  BY DEF Known
<1>1. k + 1 \in DOMAIN s /\ Tail(s)[k] = s[k + 1]
  BY TailAt
<1>2. CASE Named(s, s[k + 1].tag)
  BY <1>1, <1>2, NamedTail
<1>3. CASE \E t \in DOMAIN c : c[t].op = "label" /\ c[t].tag = s[k + 1].tag
  BY <1>1, <1>3 DEF Extends
<1>. QED  BY <1>1, <1>2, <1>3 DEF Known

LEMMA MeantTail ==
  ASSUME NEW c, NEW d, Extends(d, c), NEW s \in Steps, s # << >>, s[1].do # "label",
         Meant(c, s), \A i \in DOMAIN d : i \in DOMAIN c \/ d[i].op \notin Jumps
  PROVE  Meant(d, Tail(s))
<1>. SUFFICES ASSUME NEW i \in DOMAIN d, d[i].op \in Jumps
              PROVE  \/ Named(Tail(s), d[i].tag)
                     \/ \E t \in DOMAIN d : /\ d[t].op = "label" /\ d[t].tag = d[i].tag
                                            /\ d[t].label = d[i].label
  BY DEF Meant
<1>1. i \in DOMAIN c /\ d[i] = c[i]
  BY DEF Extends
<1>2. CASE Named(s, c[i].tag)
  BY <1>1, <1>2, NamedTail
<1>3. CASE \E t \in DOMAIN c : /\ c[t].op = "label" /\ c[t].tag = c[i].tag
                               /\ c[t].label = c[i].label
  BY <1>1, <1>3 DEF Extends
<1>. QED  BY <1>1, <1>2, <1>3 DEF Meant

(* A jump takes the number of its label, if that is there.                 *)
LEMMA MeantJump ==
  ASSUME ircode \in Seq(Instr), todo \in Steps, todo # << >>, todo[1].do = "jump",
         Meant(ircode, todo), Known(ircode, todo),
         NEW x \in Instr, x.tag = todo[1].tag, x.label = LabelAt(todo[1].tag)
  PROVE  Meant(Append(ircode, x), Tail(todo))
<1>. DEFINE d == Append(ircode, x)
            z == Len(ircode) + 1
            tag == todo[1].tag
<1>1. /\ z \in DOMAIN d /\ d[z] = x
      /\ \A i \in DOMAIN ircode : i \in DOMAIN d /\ d[i] = ircode[i]
      /\ \A i \in DOMAIN d : i \in DOMAIN ircode \/ i = z
  BY AppendAt
<1>. HIDE DEF d, z
<1>2. Named(Tail(todo), tag) \/ \E t \in DOMAIN ircode : ircode[t].op = "label" /\ ircode[t].tag = tag
  <2>1. 1 \in DOMAIN todo
    BY TailAt
  <2>2. Named(todo, tag) \/ \E t \in DOMAIN ircode : ircode[t].op = "label" /\ ircode[t].tag = tag
    BY <2>1 DEF Known
  <2>. QED  BY <2>2, NamedTail
<1>3. ASSUME NEW t \in DOMAIN ircode, ircode[t].op = "label", ircode[t].tag = tag
      PROVE  \E r \in DOMAIN d : d[r].op = "label" /\ d[r].tag = tag /\ d[r].label = x.label
  <2>. DEFINE found == Tagged({"label"}, tag)
  <2>1. t \in found
    BY <1>3 DEF Tagged
  <2>2. PICK r : r \in found /\ LabelAt(tag) = ircode[r].label
    <3>. HIDE DEF found
    <3>1. (CHOOSE i \in found : TRUE) \in found
      BY <2>1
    <3>2. LabelAt(tag) = ircode[CHOOSE i \in found : TRUE].label
      BY <2>1 DEF LabelAt, found
    <3>. QED  BY <3>1, <3>2
  <2>3. r \in DOMAIN ircode /\ ircode[r].op = "label" /\ ircode[r].tag = tag
    BY <2>2 DEF Tagged
  <2>. QED  BY <1>1, <2>2, <2>3
<1>4. Meant(d, Tail(todo))
  <2>. SUFFICES ASSUME NEW i \in DOMAIN d, d[i].op \in Jumps
                PROVE  \/ Named(Tail(todo), d[i].tag)
                       \/ \E t \in DOMAIN d : /\ d[t].op = "label" /\ d[t].tag = d[i].tag
                                              /\ d[t].label = d[i].label
    BY DEF Meant
  <2>1. CASE i = z
    BY <1>1, <1>2, <1>3, <2>1
  <2>2. CASE i \in DOMAIN ircode
    <3>1. d[i] = ircode[i]
      BY <1>1, <2>2
    <3>2. CASE Named(todo, ircode[i].tag)
      BY <3>1, <3>2, NamedTail
    <3>3. CASE \E t \in DOMAIN ircode : /\ ircode[t].op = "label" /\ ircode[t].tag = ircode[i].tag
                                        /\ ircode[t].label = ircode[i].label
      BY <1>1, <3>1, <3>3
    <3>. QED  BY <2>2, <3>1, <3>2, <3>3 DEF Meant
  <2>. QED  BY <1>1, <2>1, <2>2
<1>. QED  BY <1>4 DEF d

(* A label gives its number to the jumps that wait for it.                 *)
LEMMA MeantLabel ==
  ASSUME ircode \in Seq(Instr), todo \in Steps, todo # << >>, todo[1].do = "label",
         NEW label \in Nat, NEW x \in Instr, x.op = "label", x.tag = todo[1].tag, x.label = label,
         Meant(ircode, todo), Known(ircode, todo)
  PROVE  /\ Meant(Append(Patched(todo[1].tag, label), x), Tail(todo))
         /\ Known(Append(Patched(todo[1].tag, label), x), Tail(todo))
<1>. DEFINE tag == todo[1].tag
            p == Patched(tag, label)
            d == Append(p, x)
            z == Len(ircode) + 1
<1>1. /\ p \in Seq(Instr) /\ Len(p) = Len(ircode) /\ DOMAIN p = DOMAIN ircode
      /\ \A i \in DOMAIN ircode :
           /\ p[i].op = ircode[i].op /\ p[i].tag = ircode[i].tag
           /\ p[i].label = IF ircode[i].op \in Jumps /\ ircode[i].tag = tag THEN label
                           ELSE ircode[i].label
  BY PatchedAt
<1>. HIDE DEF p, tag
<1>2. /\ z \in DOMAIN d /\ d[z] = x
      /\ \A i \in DOMAIN ircode : i \in DOMAIN d /\ d[i] = p[i]
      /\ \A i \in DOMAIN d : i \in DOMAIN ircode \/ i = z
  BY <1>1, AppendAt
<1>. HIDE DEF d, z
<1>3. "label" \notin Jumps
  BY DEF Jumps
<1>4. ASSUME NEW other, Named(todo, other)
      PROVE  Named(Tail(todo), other) \/ other = tag
  BY <1>4, NamedTail DEF tag
<1>5. x.tag = tag
  BY DEF tag
<1>6. ASSUME NEW i \in DOMAIN d, d[i].op \in Jumps
      PROVE  \/ Named(Tail(todo), d[i].tag)
             \/ \E t \in DOMAIN d : /\ d[t].op = "label" /\ d[t].tag = d[i].tag
                                    /\ d[t].label = d[i].label
  <2>1. i \in DOMAIN ircode /\ d[i] = p[i] /\ ircode[i].op \in Jumps
    BY <1>1, <1>2, <1>3, <1>6
  <2>2. CASE ircode[i].tag = tag
    <3>1. d[i].label = label /\ d[i].tag = tag
      BY <1>1, <2>1, <2>2
    <3>. QED  BY <1>2, <1>5, <3>1
  <2>3. CASE ircode[i].tag # tag
    <3>1. d[i].label = ircode[i].label /\ d[i].tag = ircode[i].tag
      BY <1>1, <2>1, <2>3
    <3>2. CASE Named(todo, ircode[i].tag)
      BY <1>4, <2>3, <3>1, <3>2
    <3>3. CASE \E t \in DOMAIN ircode : /\ ircode[t].op = "label" /\ ircode[t].tag = ircode[i].tag
                                        /\ ircode[t].label = ircode[i].label
      <4>1. PICK t \in DOMAIN ircode : /\ ircode[t].op = "label" /\ ircode[t].tag = ircode[i].tag
                                       /\ ircode[t].label = ircode[i].label
        BY <3>3
      <4>2. t \in DOMAIN d /\ d[t].op = "label" /\ d[t].tag = ircode[i].tag
            /\ d[t].label = ircode[i].label
        BY <1>1, <1>2, <1>3, <4>1
      <4>. QED  BY <3>1, <4>2
    <3>. QED  BY <2>1, <3>2, <3>3 DEF Meant
  <2>. QED  BY <2>2, <2>3
<1>7. ASSUME NEW k \in DOMAIN Tail(todo), Tail(todo)[k].do = "jump"
      PROVE  \/ Named(Tail(todo), Tail(todo)[k].tag)
             \/ \E t \in DOMAIN d : d[t].op = "label" /\ d[t].tag = Tail(todo)[k].tag
  <2>. DEFINE other == Tail(todo)[k].tag
  <2>1. \/ Named(todo, other)
        \/ \E t \in DOMAIN ircode : ircode[t].op = "label" /\ ircode[t].tag = other
    <3>1. k + 1 \in DOMAIN todo /\ Tail(todo)[k] = todo[k + 1]
      BY TailAt
    <3>. QED  BY <1>7, <3>1 DEF Known
  <2>. HIDE DEF other
  <2>2. CASE other = tag
    BY <1>2, <1>5, <2>2 DEF other
  <2>3. CASE other # tag
    <3>1. \/ Named(Tail(todo), other)
          \/ \E t \in DOMAIN d : d[t].op = "label" /\ d[t].tag = other
      BY <1>1, <1>2, <1>4, <2>1, <2>3
    <3>. QED  BY <3>1 DEF other
  <2>. QED  BY <2>2, <2>3
<1>8. Meant(d, Tail(todo)) /\ Known(d, Tail(todo))
  BY <1>6, <1>7 DEF Meant, Known
<1>. QED  BY <1>8 DEF d, p, tag

(* A child brings its labels with its jumps.                               *)
LEMMA MeantVisit ==
  ASSUME NEW s, NEW n \in Nat, TodoOK(s, n), s # << >>, s[1].do \in {"stmt", "stmts", "expr"},
         NEW v, Visitor(v, n), NEW code, Meant(code, s), Known(code, s)
  PROVE  Meant(code, v \o Tail(s)) /\ Known(code, v \o Tail(s))
<1>. DEFINE c == v \o Tail(s)
<1>1. s \in Steps /\ v \in Steps /\ Tail(s) \in Steps
  BY TailAt DEF TodoOK, Visitor
<1>2. ASSUME NEW tag, Named(s, tag) PROVE Named(c, tag)
  BY <1>1, <1>2, NamedTail, NamedConcat
<1>3. ASSUME NEW tag, Named(v, tag) PROVE Named(c, tag)
  BY <1>1, <1>3, NamedConcat
<1>4. \A k \in DOMAIN c :
        \/ k \in DOMAIN v /\ c[k] = v[k]
        \/ k - Len(v) + 1 \in DOMAIN s /\ c[k] = s[k - Len(v) + 1]
  BY TodoVisit
<1>. HIDE DEF c
<1>5. Meant(code, c)
  BY <1>2 DEF Meant
<1>6. Known(code, c)
  <2>. SUFFICES ASSUME NEW k \in DOMAIN c, c[k].do = "jump"
                PROVE  \/ Named(c, c[k].tag)
                       \/ \E t \in DOMAIN code : code[t].op = "label" /\ code[t].tag = c[k].tag
    BY DEF Known
  <2>1. CASE k \in DOMAIN v /\ c[k] = v[k]
    BY <1>3, <2>1 DEF Visitor
  <2>2. CASE k - Len(v) + 1 \in DOMAIN s /\ c[k] = s[k - Len(v) + 1]
    BY <1>2, <2>2 DEF Known
  <2>. QED  BY <1>4, <2>1, <2>2
<1>. QED  BY <1>5, <1>6 DEF c

(* The code of a function without handlers.                                *)
Coherent(code, s, n) == Sorted(code, n) /\ Meant(code, s) /\ Known(code, s)

LEMMA ExtendsOp ==
  ASSUME NEW c, NEW d, Extends(d, c), \A i \in DOMAIN d : d[i].op # "onscopefail"
  PROVE  \A i \in DOMAIN c : c[i].op # "onscopefail"
BY DEF Extends

(* An instruction that is not a label, a jump with its label, and so on:   *)
(* what the steps of a function without handlers make of its code.         *)
LEMMA CoherentOther ==
  ASSUME IInv, NEW s \in Steps, s # << >>, s[1].do # "label", NEW m \in Nat, Top.nextVarID <= m,
         NEW x \in Instr, x.op \notin {"label", "jzraise"} \cup Jumps,
         WithoutHandlers => Coherent(ircode, s, Top.nextVarID),
         \A i \in DOMAIN Append(ircode, x) : Append(ircode, x)[i].op # "onscopefail"
  PROVE  Coherent(Append(ircode, x), Tail(s), m)
<1>. DEFINE d == Append(ircode, x)
<1>1. ircode \in Seq(Instr) /\ Top.nextVarID \in Nat
  BY TopScope DEF IInv, TypeOK
<1>2. /\ Extends(d, ircode)
      /\ \A i \in DOMAIN d : i \in DOMAIN ircode \/ d[i] = x
  BY <1>1, AppendAt DEF Extends
<1>. HIDE DEF d
<1>3. WithoutHandlers
  BY <1>2, ExtendsOp DEF WithoutHandlers, d
<1>4. Sorted(Append(ircode, x), m)
  BY <1>1, <1>3, SortedOther DEF Coherent, IsLabel
<1>5. \A i \in DOMAIN d : i \in DOMAIN ircode \/ d[i].op \notin Jumps
  BY <1>2
<1>6. Meant(d, Tail(s)) /\ Known(d, Tail(s))
  BY <1>2, <1>3, <1>5, MeantTail, KnownTail DEF Coherent
<1>. QED  BY <1>4, <1>6 DEF Coherent, d

LEMMA CoherentJzraise ==
  ASSUME IInv, NEW s \in Steps, s # << >>, s[1].do # "label",
         NEW x \in Instr, x.op = "jzraise", x.label = nextvar,
         WithoutHandlers => Coherent(ircode, s, Top.nextVarID),
         \A i \in DOMAIN Append(ircode, x) : Append(ircode, x)[i].op # "onscopefail"
  PROVE  Coherent(Append(ircode, x), Tail(s), nextvar)
<1>. DEFINE d == Append(ircode, x)
<1>1. ircode \in Seq(Instr) /\ Top.nextVarID \in Nat /\ nextvar = Top.nextVarID + 1
  BY TopScope DEF IInv, TypeOK
<1>2. /\ Extends(d, ircode)
      /\ \A i \in DOMAIN d : i \in DOMAIN ircode \/ d[i] = x
  BY <1>1, AppendAt DEF Extends
<1>. HIDE DEF d
<1>3. WithoutHandlers
  BY <1>2, ExtendsOp DEF WithoutHandlers, d
<1>4. Sorted(Append(ircode, x), nextvar)
  BY <1>1, <1>3, SortedLabel DEF Coherent, IsLabel
<1>5. \A i \in DOMAIN d : i \in DOMAIN ircode \/ d[i].op \notin Jumps
  BY <1>2 DEF Jumps
<1>6. Meant(d, Tail(s)) /\ Known(d, Tail(s))
  BY <1>2, <1>3, <1>5, MeantTail, KnownTail DEF Coherent
<1>. QED  BY <1>4, <1>6 DEF Coherent, d

LEMMA CoherentJump ==
  ASSUME IInv, todo # << >>, todo[1].do = "jump",
         NEW x \in Instr, x.op \in Jumps, x.tag = todo[1].tag, x.label = LabelAt(todo[1].tag),
         WithoutHandlers => Coherent(ircode, todo, Top.nextVarID),
         \A i \in DOMAIN Append(ircode, x) : Append(ircode, x)[i].op # "onscopefail"
  PROVE  Coherent(Append(ircode, x), Tail(todo), Top.nextVarID)
<1>. DEFINE d == Append(ircode, x)
<1>1. ircode \in Seq(Instr) /\ todo \in Steps /\ Top.nextVarID \in Nat
  BY TopScope DEF IInv, TypeOK, Steps
<1>2. Extends(d, ircode)
  BY <1>1, AppendAt DEF Extends
<1>. HIDE DEF d
<1>3. WithoutHandlers
  BY <1>2, ExtendsOp DEF WithoutHandlers, d
<1>4. ~ IsLabel(x)
  BY DEF IsLabel, Jumps
<1>5. Sorted(Append(ircode, x), Top.nextVarID)
  BY <1>1, <1>3, <1>4, SortedOther DEF Coherent
<1>6. Meant(Append(ircode, x), Tail(todo))
  BY <1>1, <1>3, MeantJump DEF Coherent
<1>7. Known(d, Tail(todo))
  BY <1>1, <1>2, <1>3, KnownTail DEF Coherent
<1>. QED  BY <1>5, <1>6, <1>7 DEF Coherent, d

LEMMA CoherentLabel ==
  ASSUME IInv, todo # << >>, todo[1].do = "label",
         NEW x \in Instr, x.op = "label", x.tag = todo[1].tag, x.label = nextvar,
         WithoutHandlers => Coherent(ircode, todo, Top.nextVarID),
         \A i \in DOMAIN Append(Patched(todo[1].tag, nextvar), x) :
            Append(Patched(todo[1].tag, nextvar), x)[i].op # "onscopefail"
  PROVE  Coherent(Append(Patched(todo[1].tag, nextvar), x), Tail(todo), nextvar)
<1>. DEFINE p == Patched(todo[1].tag, nextvar)
            d == Append(p, x)
<1>1. ircode \in Seq(Instr) /\ todo \in Steps /\ Top.nextVarID \in Nat /\ nextvar \in Nat
      /\ nextvar = Top.nextVarID + 1
  BY TopScope DEF IInv, TypeOK, Steps
<1>2. /\ p \in Seq(Instr) /\ DOMAIN p = DOMAIN ircode
      /\ \A i \in DOMAIN ircode : p[i].op = ircode[i].op
  BY <1>1, PatchedAt
<1>. HIDE DEF p
<1>3. Extends(d, p)
  BY <1>2, AppendAt DEF Extends
<1>4. WithoutHandlers
  <2>1. \A i \in DOMAIN d : d[i].op # "onscopefail"
    BY DEF p
  <2>. HIDE DEF d
  <2>. QED  BY <1>2, <1>3, <2>1, ExtendsOp DEF WithoutHandlers
<1>5. Sorted(p, Top.nextVarID)
  BY <1>1, <1>4, SortedPatched DEF Coherent, p
<1>6. Sorted(d, nextvar)
  BY <1>1, <1>2, <1>5, SortedLabel DEF IsLabel
<1>7. Meant(d, Tail(todo)) /\ Known(d, Tail(todo))
  BY <1>1, <1>4, MeantLabel DEF Coherent, p
<1>. QED  BY <1>6, <1>7 DEF Coherent, d, p

LEMMA HandlerRegistered ==
  ASSUME IInv, RegisterHandler
  PROVE  ~ WithoutHandlers'
<1>. DEFINE start == todo[1].tag
            var == ErrorLvid(todo[1].op, start[1])
            x == Instruction("onscopefail", var, LabelAt(start), start)
<1>1. /\ todo # << >> /\ Head(todo) = todo[1] /\ todo[1] \in Step /\ ircode' = Append(ircode, x)
      /\ ircode \in Seq(Instr) /\ TypeOK
  BY DEF RegisterHandler, AtStep, IInv, TypeOK
<1>2. x \in Instr /\ x.op = "onscopefail"
  <2>1. start \in Tag /\ var \in Nat /\ LabelAt(start) \in Nat
    BY <1>1, StepKinds, OperandsKnown
  <2>. HIDE DEF start, var
  <2>. QED  BY <2>1, InstructionType DEF Instruction
<1>. HIDE DEF x
<1>3. ircode'[Len(ircode) + 1] = x /\ Len(ircode) + 1 \in DOMAIN ircode'
  BY <1>1, <1>2, AppendAt
<1>. QED  BY <1>2, <1>3 DEF WithoutHandlers

(* A handler is registered, and this is what the step is for.              *)
LEMMA RegisterStep ==
  ASSUME IInv, [Next]_vars, todo # << >>, todo[1].do = "register", todo' = Tail(todo)
  PROVE  RegisterHandler
<1>1. AtStep("register") /\ todo \in Seq(Step)
  BY DEF IInv, TypeOK, AtStep
<1>2. todo' # todo
  <2>1. Len(Tail(todo)) # Len(todo)
    BY <1>1
  <2>. QED  BY <2>1
<1>3. ~ Finished /\ ~ UNCHANGED vars
  BY <1>2 DEF Finished, vars
<1>4. ASSUME NEW do, AtStep(do) PROVE do = "register"
  BY <1>1, <1>4 DEF AtStep
<1>. HIDE DEF AtStep
<1>5. ~ EmitPlain /\ ~ EmitAlloc /\ ~ EmitAllocLater /\ ~ Reserve /\ ~ EmitLabel /\ ~ EmitJump
      /\ ~ EmitJzraise
  BY <1>4 DEF EmitPlain, EmitAlloc, EmitAllocLater, Reserve, EmitLabel, EmitJump, EmitJzraise
<1>6. ~ EnterScope /\ ~ LeaveScope /\ ~ ExitHandler /\ ~ FinishFunc
  BY <1>4 DEF EnterScope, LeaveScope, ExitHandler, FinishFunc
<1>7. ~ VisitStmt /\ ~ VisitExpr /\ ~ VisitStmts
  BY <1>4 DEF VisitStmt, VisitExpr, VisitStmts, Visit
<1>. QED  BY <1>3, <1>5, <1>6, <1>7 DEF Next

(* In a function without handlers none is left.                            *)
LEMMA NoneLeft ==
  ASSUME IInv, JInv, WithoutHandlers'
  PROVE  ~ ExitHandler /\ (LeaveScope => UNCHANGED ircode)
<1>1. ircode \in Seq(Instr) /\ TypeOK /\ nextvar \in Nat
  BY TopScope DEF IInv, TypeOK
<1>2. \A i \in DOMAIN ircode' : ircode'[i].op # "onscopefail"
  BY DEF WithoutHandlers
<1>3. ~ ExitHandler
  <2>. SUFFICES ASSUME ExitHandler PROVE FALSE
    OBVIOUS
  <2>. DEFINE x == Instruction("jmp", 0, 0, << Top.at, "exit" >>)
  <2>1. AtStep("exit") /\ ircode' = Append(ircode, x)
    BY DEF ExitHandler
  <2>2. x \in Instr
    <3>1. << Top.at, "exit" >> \in Tag
      BY <1>1, TopScope DEF Tag
    <3>. QED  BY <3>1, InstructionType DEF Jumps
  <2>. HIDE DEF x
  <2>3. Extends(ircode', ircode)
    BY <1>1, <2>1, <2>2, AppendAt DEF Extends
  <2>4. WithoutHandlers
    BY <1>2, <2>3, ExtendsOp DEF WithoutHandlers
  <2>. QED  BY <2>1, <2>4 DEF JInv
<1>4. LeaveScope => UNCHANGED ircode
  <2>. SUFFICES ASSUME LeaveScope, Top.onScopeFailExitLabels # << >> PROVE FALSE
    BY DEF LeaveScope
  <2>. DEFINE exit == << Top.at, "exit" >>
              vs == Reverse(Top.onScopeFailExitLabels)
              q == Patched(exit, nextvar)
              x == Instruction("label", 0, nextvar, exit)
              a == Append(q, x)
              u == Unregistered(vs)
  <2>1. ircode' = a \o u
    BY DEF LeaveScope, updateOnScopeFailExitLabels
  <2>2. vs \in Seq(Nat) /\ Len(vs) \in Nat \ {0}
    <3>1. Top.onScopeFailExitLabels \in Seq(Nat)
      BY <1>1, TopScope
    <3>2. Len(Top.onScopeFailExitLabels) \in Nat \ {0}
      BY <3>1
    <3>. QED  BY <3>1, <3>2 DEF Reverse
  <2>3. x \in Instr /\ q \in Seq(Instr)
    <3>1. exit \in Tag
      BY <1>1, TopScope DEF Tag
    <3>2. x \in Instr
      BY <1>1, <3>1, LabelType
    <3>. QED  BY <1>1, <3>2, PatchedAt
  <2>. HIDE DEF q, x, vs
  <2>4. a \in Seq(Instr)
    BY <2>3
  <2>5. u \in Seq({u[i] : i \in DOMAIN u}) /\ Len(u) = 2 * Len(vs) /\ u[1].op = "onscopefail"
    <3>1. DOMAIN u = 1 .. 2 * Len(vs)
      BY DEF Unregistered
    <3>2. 1 \in 1 .. 2 * Len(vs) /\ 1 % 2 # 0 /\ 2 * Len(vs) \in Nat
      BY <2>2
    <3>3. u[1] = Instruction("onscopefail", vs[(1 + 1) \div 2], 0, NoTag)
      BY <3>2 DEF Unregistered
    <3>4. u = [i \in 1 .. 2 * Len(vs) |-> u[i]]
      BY DEF Unregistered
    <3>5. u[1].op = "onscopefail"
      BY <3>3 DEF Instruction
    <3>. HIDE DEF u
    <3>. QED  BY <3>1, <3>2, <3>4, <3>5
  <2>. HIDE DEF u, a
  <2>6. Len(a) + 1 \in DOMAIN (a \o u) /\ (a \o u)[Len(a) + 1] = u[1]
    <3>. DEFINE S == Instr \cup {u[i] : i \in DOMAIN u}
    <3>1. a \in Seq(S) /\ u \in Seq(S) /\ Len(u) \in Nat \ {0} /\ Len(a) \in Nat
      BY <2>2, <2>4, <2>5
    <3>. HIDE DEF S
    <3>. QED  BY <3>1
  <2>. QED  BY <1>2, <2>1, <2>5, <2>6
<1>. QED  BY <1>3, <1>4

(* The steps of a function without handlers.                               *)
LEMMA CoherentKept ==
  ASSUME IInv, TodoOK(todo, opcodeCount), JInv, [Next]_vars, WithoutHandlers'
  PROVE  Coherent(ircode', todo', Top'.nextVarID)
<1>1. /\ ircode \in Seq(Instr) /\ todo \in Steps /\ Top.nextVarID \in Nat /\ TypeOK /\ NoHandler
      /\ nextvar = Top.nextVarID + 1 /\ nextvar \in Nat
  BY TopScope DEF IInv, TypeOK, Steps
<1>2. WithoutHandlers => Coherent(ircode, todo, Top.nextVarID)
  BY DEF JInv, Coherent
<1>3. todo # << >> => Head(todo) = todo[1] /\ todo[1] \in Step
  BY <1>1 DEF Steps
<1>4. /\ \A i \in DOMAIN ircode' : ircode'[i].op # "onscopefail"
  BY DEF WithoutHandlers
<1>5. UNCHANGED scopes => Top' = Top
  BY DEF Top
<1>6. Took => Top'.nextVarID = nextvar
  BY <1>1, TookScopes
<1>7. ASSUME UNCHANGED ircode, Coherent(ircode, todo', Top'.nextVarID)
      PROVE  Coherent(ircode', todo', Top'.nextVarID)
  BY <1>7
<1>8. UNCHANGED ircode => WithoutHandlers
  BY <1>4 DEF WithoutHandlers
<1>9. CASE UNCHANGED vars
  BY <1>2, <1>5, <1>8, <1>9 DEF vars
<1>10. CASE EmitPlain
  <2>. DEFINE x == Instruction(todo[1].op, 0, 0, NoTag)
  <2>1. /\ todo # << >> /\ todo[1].do = "emit" /\ ircode' = Append(ircode, x) /\ todo' = Tail(todo)
        /\ UNCHANGED scopes
    BY <1>3, <1>10 DEF EmitPlain, AtStep
  <2>2. todo[1].op \in {"scope", "end", "raise", "ret"}
    BY <1>3, <2>1, StepKinds
  <2>3. x \in Instr /\ x.op = todo[1].op
    BY <2>2, InstructionType, NoTagType DEF Instruction
  <2>4. x.op \notin {"label", "jzraise"} \cup Jumps
    BY <2>2, <2>3 DEF Jumps
  <2>. HIDE DEF x
  <2>5. Top.nextVarID <= Top.nextVarID
    BY <1>1
  <2>6. Coherent(Append(ircode, x), Tail(todo), Top.nextVarID)
    BY <1>1, <1>2, <1>4, <2>1, <2>3, <2>4, <2>5, CoherentOther
  <2>. QED  BY <1>5, <2>1, <2>6
<1>11. CASE EmitAlloc \/ EmitAllocLater
  <2>1. PICK n \in Nat :
        /\ todo # << >> /\ todo[1].do \in {"alloc", "alloc later"} /\ todo' = Tail(todo)
        /\ ircode' = Append(ircode, Instruction(todo[1].op, n, 0, todo[1].tag))
        /\ Top'.nextVarID \in Nat /\ Top.nextVarID <= Top'.nextVarID
    <3>1. CASE EmitAlloc
      <4>1. /\ todo # << >> /\ todo[1].do = "alloc" /\ todo' = Tail(todo) /\ Took
            /\ ircode' = Append(ircode, Instruction(todo[1].op, nextvar, 0, todo[1].tag))
        BY <1>3, <3>1 DEF EmitAlloc, AtStep
      <4>2. Top'.nextVarID = nextvar /\ Top.nextVarID <= nextvar
        BY <1>1, <1>6, <4>1
      <4>. QED  BY <1>1, <4>1, <4>2
    <3>2. CASE EmitAllocLater
      <4>1. /\ todo # << >> /\ todo[1].do = "alloc later" /\ todo' = Tail(todo) /\ UNCHANGED scopes
            /\ ircode' = Append(ircode, Instruction(todo[1].op, 0, 0, todo[1].tag))
        BY <1>3, <3>2 DEF EmitAllocLater, AtStep
      <4>2. Top' = Top
        BY <1>5, <4>1
      <4>3. Top.nextVarID <= Top.nextVarID
        BY <1>1
      <4>. QED  BY <1>1, <4>1, <4>2, <4>3
    <3>. QED  BY <1>11, <3>1, <3>2
  <2>. DEFINE x == Instruction(todo[1].op, n, 0, todo[1].tag)
  <2>2. todo[1].op \in Allocs /\ todo[1].tag \in Tag
    BY <1>3, <2>1, StepKinds
  <2>3. x \in Instr /\ x.op = todo[1].op
    BY <2>2, InstructionType DEF Instruction
  <2>4. x.op \notin {"label", "jzraise"} \cup Jumps
    BY <2>2, <2>3 DEF Jumps, Allocs
  <2>. HIDE DEF x
  <2>5. ircode' = Append(ircode, x) /\ todo' = Tail(todo) /\ todo # << >> /\ todo[1].do # "label"
    BY <2>1 DEF x
  <2>. QED  BY <1>1, <1>2, <1>4, <2>1, <2>3, <2>4, <2>5, CoherentOther
<1>12. CASE Reserve \/ EnterScope \/ (LeaveScope /\ UNCHANGED ircode)
  <2>1. /\ todo # << >> /\ todo[1].do # "label" /\ todo' = Tail(todo) /\ UNCHANGED ircode
    BY <1>3, <1>12 DEF Reserve, EnterScope, LeaveScope, AtStep
  <2>2. Top'.nextVarID \in Nat /\ Top.nextVarID <= Top'.nextVarID
    <3>1. CASE Reserve
      BY <1>1, <1>6, <3>1 DEF Reserve
    <3>2. CASE EnterScope
      BY <1>1, <3>2 DEF EnterScope, TypeOK, Top
    <3>3. CASE LeaveScope
      BY <1>1, <3>3, LeftScopes
    <3>. QED  BY <1>12, <3>1, <3>2, <3>3
  <2>3. Sorted(ircode, Top'.nextVarID)
    <3>1. Sorted(ircode, Top.nextVarID) /\ \A i \in DOMAIN ircode : ircode[i].label \in Nat
      BY <1>1, <1>2, <1>8, <2>1, LabelNat DEF Coherent
    <3>. QED  BY <1>1, <2>2, <3>1 DEF Sorted
  <2>4. Meant(ircode, Tail(todo)) /\ Known(ircode, Tail(todo))
    <3>1. Extends(ircode, ircode)
      BY DEF Extends
    <3>. QED  BY <1>1, <1>2, <1>8, <2>1, <3>1, MeantTail, KnownTail DEF Coherent
  <2>. QED  BY <2>1, <2>3, <2>4 DEF Coherent
<1>13. CASE EmitLabel
  <2>. DEFINE x == Instruction("label", 0, nextvar, todo[1].tag)
              tag == todo[1].tag
  <2>1. /\ todo # << >> /\ todo[1].do = "label" /\ todo' = Tail(todo) /\ Took
        /\ ircode' = Append(Patched(tag, nextvar), x)
    BY <1>3, <1>13 DEF EmitLabel, AtStep
  <2>2. x \in Instr /\ x.op = "label" /\ x.label = nextvar /\ x.tag = todo[1].tag
    BY <1>1, <1>3, <2>1, StepKinds, LabelType DEF Instruction
  <2>. HIDE DEF x
  <2>. QED  BY <1>1, <1>2, <1>4, <1>6, <2>1, <2>2, CoherentLabel
<1>14. CASE EmitJump
  <2>. DEFINE x == Instruction(todo[1].op, 0, LabelAt(todo[1].tag), todo[1].tag)
  <2>1. /\ todo # << >> /\ todo[1].do = "jump" /\ todo' = Tail(todo) /\ UNCHANGED scopes
        /\ ircode' = Append(ircode, x)
    BY <1>3, <1>14 DEF EmitJump, AtStep
  <2>2. todo[1].op \in Jumps /\ todo[1].tag \in Tag /\ LabelAt(todo[1].tag) \in Nat
    BY <1>1, <1>3, <2>1, StepKinds, OperandsKnown
  <2>3. /\ x \in Instr /\ x.op \in Jumps /\ x.tag = todo[1].tag /\ x.label = LabelAt(todo[1].tag)
    BY <2>2, InstructionType DEF Instruction
  <2>. HIDE DEF x
  <2>. QED  BY <1>1, <1>2, <1>4, <1>5, <2>1, <2>3, CoherentJump
<1>15. CASE EmitJzraise
  <2>. DEFINE x == Instruction("jzraise", 0, nextvar, NoTag)
  <2>1. /\ todo # << >> /\ todo[1].do = "jzraise" /\ todo' = Tail(todo) /\ Took
        /\ ircode' = Append(ircode, x)
    BY <1>3, <1>15 DEF EmitJzraise, AtStep
  <2>2. x \in Instr /\ x.op = "jzraise" /\ x.label = nextvar
    BY <1>1, NoTagType, LabelType DEF Instruction
  <2>. HIDE DEF x
  <2>. QED  BY <1>1, <1>2, <1>4, <1>6, <2>1, <2>2, CoherentJzraise
<1>16. ~ RegisterHandler
  BY HandlerRegistered
<1>17. ~ ExitHandler
  BY NoneLeft
<1>18. LeaveScope => UNCHANGED ircode
  BY NoneLeft
<1>19. CASE FinishFunc
  <2>. DEFINE x == Instruction("end", 0, 0, NoTag)
  <2>1. /\ todo # << >> /\ todo[1].do = "finish" /\ ircode' = Append(ircode, x) /\ todo' = Tail(todo)
        /\ UNCHANGED scopes
    BY <1>3, <1>19 DEF FinishFunc, AtStep
  <2>2. x \in Instr /\ x.op = "end" /\ "end" \notin {"label", "jzraise"} \cup Jumps
    BY InstructionType, NoTagType DEF Instruction, Jumps
  <2>. HIDE DEF x
  <2>3. Top.nextVarID <= Top.nextVarID
    BY <1>1
  <2>4. Coherent(Append(ircode, x), Tail(todo), Top.nextVarID)
    BY <1>1, <1>2, <1>4, <2>1, <2>2, <2>3, CoherentOther
  <2>. QED  BY <1>5, <2>1, <2>4
<1>20. CASE (VisitStmt \/ VisitExpr \/ VisitStmts) /\ ~ UNCHANGED vars
  <2>1. todo # << >> /\ todo[1].do \in {"stmt", "stmts", "expr"} /\ UNCHANGED << ircode, scopes >>
    BY <1>3, <1>20 DEF VisitStmt, VisitExpr, VisitStmts, Visit, AtStep
  <2>2. PICK v : Visitor(v, opcodeCount) /\ todo' = v \o Tail(todo)
    BY <1>20, <2>1, Moves
  <2>3. opcodeCount \in Nat
    BY <1>1 DEF opcodeCount
  <2>4. Meant(ircode, v \o Tail(todo)) /\ Known(ircode, v \o Tail(todo))
    BY <1>2, <1>8, <2>1, <2>2, <2>3, MeantVisit DEF Coherent
  <2>. QED  BY <1>2, <1>5, <1>8, <2>1, <2>2, <2>4 DEF Coherent
<1>. QED  BY <1>9, <1>10, <1>11, <1>12, <1>13, <1>14, <1>15, <1>16, <1>17, <1>18, <1>19, <1>20
          DEF Next, Finished

LEMMA JStep ==
  ASSUME IInv, TodoOK(todo, opcodeCount), JInv, [Next]_vars
  PROVE  JInv'
<1>1. /\ todo \in Steps /\ opcodeCount \in Nat /\ TypeOK
  BY DEF IInv, TypeOK, Steps, opcodeCount
<1>2. todo # << >> => Head(todo) = todo[1]
  BY <1>1 DEF Steps
<1>3. CASE UNCHANGED vars
  BY <1>3 DEF JInv, AtStep, WithoutHandlers, Top, vars
<1>4. WithoutHandlers' => Sorted(ircode, Top.nextVarID)' /\ Meant(ircode, todo)'
                          /\ Known(ircode, todo)'
  <2>1. WithoutHandlers' => Coherent(ircode', todo', Top'.nextVarID)
    BY CoherentKept
  <2>. QED  BY <2>1 DEF Coherent
<1>5. CASE /\ todo # << >> /\ todo[1].do \in {"stmt", "stmts", "expr"}
           /\ \E v : Visitor(v, opcodeCount) /\ todo' = v \o Tail(todo)
           /\ UNCHANGED << ircode, scopes, stacksize >>
  <2>1. PICK v : Visitor(v, opcodeCount) /\ todo' = v \o Tail(todo)
    BY <1>5
  <2>2. TodoOK(todo', opcodeCount) /\ \A k \in DOMAIN todo' : After(todo', k)
    BY <1>1, <1>5, <2>1, TodoVisit
  <2>3. ~ AtStep("exit")'
    <3>. SUFFICES ASSUME todo' # << >>, Head(todo').do = "exit" PROVE FALSE
      BY DEF AtStep
    <3>1. todo' \in Steps
      BY <2>2 DEF TodoOK
    <3>2. Head(todo') = todo'[1] /\ 1 \in DOMAIN todo'
      BY <3>1 DEF Steps
    <3>. QED  BY <2>2, <3>2 DEF After
  <2>4. stacksize' = 0
    BY <1>5 DEF JInv
  <2>. QED  BY <1>4, <2>3, <2>4 DEF JInv
<1>6. CASE /\ todo # << >> /\ todo' = Tail(todo)
           /\ stacksize' # stacksize => todo[1].do = "finish"
  <2>1. stacksize' # 0 => todo' = << >>
    <3>. SUFFICES ASSUME todo[1].do = "finish" PROVE todo' = << >>
      BY <1>6 DEF JInv
    <3>1. 1 = Len(todo)
      <4>1. 1 \in DOMAIN todo
        BY <1>1, <1>6, TailAt
      <4>. QED  BY <4>1 DEF TodoOK
    <3>2. Len(todo') = 0
      BY <1>1, <1>6, <3>1, TailAt
    <3>3. todo' \in Steps
      BY <1>1, <1>6, TailAt
    <3>. QED  BY <3>2, <3>3 DEF Steps
  <2>2. AtStep("exit")' => ~ WithoutHandlers'
    <3>. SUFFICES ASSUME todo' # << >>, Head(todo').do = "exit", WithoutHandlers' PROVE FALSE
      BY DEF AtStep
    <3>1. Head(todo') = todo'[1] /\ 1 \in DOMAIN todo'
      <4>1. todo' \in Steps
        BY <1>1, <1>6, TailAt
      <4>. QED  BY <4>1 DEF Steps
    <3>2. 1 + 1 \in DOMAIN todo /\ todo'[1] = todo[1 + 1] /\ 1 + 1 > 1
      BY <1>1, <1>6, <3>1, TailAt
    <3>3. todo[(1 + 1) - 1].do = "register"
      BY <3>1, <3>2 DEF TodoOK, After
    <3>4. todo[1].do = "register"
      BY <3>3
    <3>. QED  BY <1>6, <3>1, <3>4, HandlerRegistered, RegisterStep
  <2>. QED  BY <1>4, <2>1, <2>2 DEF JInv
<1>. QED  BY <1>3, <1>5, <1>6, Moves

(* Where the interpreter lands when it looks for a label that is there     *)
(* once: the labels are in order, so that it knows the direction.          *)
LEMMA LandsOnLabel ==
  ASSUME ircode \in Seq(Instr), NEW n \in Nat, Sorted(ircode, n),
         NEW i \in DOMAIN ircode, ircode[i].op \in Jumps,
         NEW t \in DOMAIN ircode, ircode[t].op = "label", ircode[t].label = ircode[i].label
  PROVE  Lands(i) = t
<1>. DEFINE same == {j \in Labelled : ircode[j].label = ircode[i].label}
            after == {j \in same : j > i}
            before == {j \in same : j < i}
            below == {ircode[j].label : j \in {k \in Labelled : k < i}}
<1>1. \A k \in DOMAIN ircode : k \in Nat /\ 1 <= k /\ ircode[k].label \in Nat
  <2>1. \A k \in DOMAIN ircode : ircode[k].label \in Nat
    BY LabelNat
  <2>2. DOMAIN ircode = 1 .. Len(ircode)
    OBVIOUS
  <2>. QED  BY <2>1, <2>2
<1>2. \A k : k \in Labelled <=> k \in DOMAIN ircode /\ IsLabel(ircode[k])
  BY DEF Labelled, IsLabel
<1>3. t \in Labelled /\ i \notin Labelled /\ t # i
  BY DEF Labelled, Jumps
<1>4. same = {t}
  <2>1. ASSUME NEW j \in Labelled, ircode[j].label = ircode[i].label, j # t PROVE FALSE
    <3>1. j < t \/ t < j
      BY <1>1, <1>2, <2>1
    <3>2. ircode[j].label < ircode[t].label \/ ircode[t].label < ircode[j].label
      BY <1>2, <1>3, <2>1, <3>1 DEF Sorted
    <3>. QED  BY <1>1, <1>2, <2>1, <3>2
  <2>. QED  BY <1>3, <2>1
<1>5. Lands(i) = IF ircode[i].label > UpperLabelAt(i)
                 THEN IF after = {} THEN 0 ELSE Min(after)
                 ELSE IF before = {} THEN 0 ELSE Max(before)
  BY DEF Lands
<1>6. UpperLabelAt(i) = IF below = {} THEN 0 ELSE Max(below)
  BY DEF UpperLabelAt
<1>. HIDE DEF same
<1>7. CASE t < i
  <2>1. before = {t}
    BY <1>4, <1>7
  <2>2. PICK j \in DOMAIN ircode : /\ j <= i /\ IsLabel(ircode[j])
                                   /\ \A m \in DOMAIN ircode : IsLabel(ircode[m]) /\ m <= i => m <= j
    <3>1. t <= i
      BY <1>1, <1>7
    <3>. QED  BY <1>2, <1>3, <3>1 DEF Sorted
  <2>3. j \in Labelled /\ j < i
    BY <1>1, <1>2, <1>3, <2>2
  <2>4. ircode[j].label \in below
    BY <2>3
  <2>5. \A x \in below : ircode[j].label >= x
    <3>. SUFFICES ASSUME NEW k \in Labelled, k < i PROVE ircode[j].label >= ircode[k].label
      OBVIOUS
    <3>1. k <= j /\ k \in DOMAIN ircode /\ IsLabel(ircode[k])
      BY <1>1, <1>2, <2>2
    <3>2. CASE k = j
      BY <1>1, <3>1, <3>2
    <3>3. CASE k < j
      <4>1. ircode[k].label < ircode[j].label
        BY <2>2, <3>1, <3>3 DEF Sorted
      <4>. QED  BY <1>1, <3>1, <4>1
    <3>. QED  BY <1>1, <3>1, <3>2, <3>3
  <2>. HIDE DEF below
  <2>6. Max(below) \in below /\ \A x \in below : Max(below) >= x
    BY <2>4, <2>5 DEF Max
  <2>7. ircode[t].label \in below
    BY <1>3, <1>7 DEF below
  <2>8. ircode[i].label <= UpperLabelAt(i) /\ UpperLabelAt(i) \in Nat
    <3>1. UpperLabelAt(i) = Max(below)
      BY <1>6, <2>4
    <3>2. Max(below) \in Nat
      BY <1>1, <1>2, <2>6 DEF below
    <3>. QED  BY <1>1, <2>6, <2>7, <3>1, <3>2
  <2>9. ~ (ircode[i].label > UpperLabelAt(i))
    BY <1>1, <2>8
  <2>. HIDE DEF before, after
  <2>10. Lands(i) = Max(before)
    BY <1>5, <2>1, <2>9
  <2>11. Max({t}) = t
    BY <1>1 DEF Max
  <2>. QED  BY <2>1, <2>10, <2>11
<1>8. CASE i < t
  <2>1. after = {t}
    BY <1>1, <1>4, <1>8
  <2>2. \A x \in below : x \in Nat /\ x < ircode[t].label
    <3>. SUFFICES ASSUME NEW k \in Labelled, k < i
                  PROVE  ircode[k].label \in Nat /\ ircode[k].label < ircode[t].label
      OBVIOUS
    <3>1. k < t
      BY <1>1, <1>2, <1>8
    <3>. QED  BY <1>1, <1>2, <1>3, <3>1 DEF Sorted
  <2>3. 1 <= ircode[t].label
    BY <1>2, <1>3 DEF Sorted
  <2>. HIDE DEF below
  <2>4. below # {} => Max(below) \in below
    <3>. SUFFICES ASSUME below # {} PROVE \E x \in below : \A y \in below : x >= y
      BY DEF Max
    <3>1. PICK k \in Labelled : k < i
      BY DEF below
    <3>2. k <= i /\ IsLabel(ircode[k]) /\ k \in DOMAIN ircode
      BY <1>1, <1>2, <3>1
    <3>3. PICK j \in DOMAIN ircode : /\ j <= i /\ IsLabel(ircode[j])
                                     /\ \A m \in DOMAIN ircode : IsLabel(ircode[m]) /\ m <= i => m <= j
      BY <3>2 DEF Sorted
    <3>4. j \in Labelled /\ j < i
      BY <1>1, <1>2, <1>3, <3>3
    <3>5. \A y \in below : ircode[j].label >= y
      <4>. SUFFICES ASSUME NEW m \in Labelled, m < i PROVE ircode[j].label >= ircode[m].label
        BY DEF below
      <4>1. m <= j /\ m \in DOMAIN ircode /\ IsLabel(ircode[m])
        BY <1>1, <1>2, <3>3
      <4>2. CASE m = j
        BY <1>1, <4>1, <4>2
      <4>3. CASE m < j
        <5>1. ircode[m].label < ircode[j].label
          BY <3>3, <4>1, <4>3 DEF Sorted
        <5>. QED  BY <1>1, <4>1, <5>1
      <4>. QED  BY <1>1, <4>1, <4>2, <4>3
    <3>6. ircode[j].label \in below
      BY <3>4 DEF below
    <3>. QED  BY <3>5, <3>6
  <2>5. ircode[i].label > UpperLabelAt(i)
    BY <1>1, <1>6, <2>2, <2>3, <2>4
  <2>. HIDE DEF before, after
  <2>6. Lands(i) = Min(after)
    BY <1>5, <2>1, <2>5
  <2>7. Min({t}) = t
    BY <1>1 DEF Min
  <2>. QED  BY <2>1, <2>6, <2>7
<1>. QED  BY <1>1, <1>3, <1>7, <1>8

LEMMA JMeant ==
  ASSUME IInv, JInv
  PROVE  MeantWithoutHandlers
<1>. SUFFICES ASSUME WithoutHandlers, stacksize # 0, NEW i \in DOMAIN ircode, ircode[i].op \in Jumps
              PROVE  Lands(i) \in Targets(i)
  BY DEF MeantWithoutHandlers, JumpsAsMeant, Translated
<1>1. ircode \in Seq(Instr) /\ Top.nextVarID \in Nat
  BY TopScope DEF IInv, TypeOK
<1>2. todo = << >>
  BY DEF JInv
<1>3. ~ Named(todo, ircode[i].tag)
  BY <1>2 DEF Named
<1>4. PICK t \in DOMAIN ircode : /\ ircode[t].op = "label" /\ ircode[t].tag = ircode[i].tag
                                 /\ ircode[t].label = ircode[i].label
  BY <1>3 DEF JInv, Meant
<1>5. Lands(i) = t
  BY <1>1, <1>4, LandsOnLabel DEF JInv
<1>6. t \in Targets(i)
  BY <1>4 DEF Targets, Tagged
<1>. QED  BY <1>5, <1>6

LEMMA JInit ==
  ASSUME Init
  PROVE  TodoOK(todo, opcodeCount) /\ JInv
<1>1. opcodeCount = 0 /\ todo = Func /\ ircode = << >> /\ stacksize = 0
  BY DEF Init, opcodeCount
<1>2. TodoOK(todo, opcodeCount)
  BY <1>1, FuncSteps
<1>3. \A k \in DOMAIN todo : todo[k].do # "jump" /\ todo[k].do # "exit"
  <2>1. Do("finish").do = "finish"
    BY DEF Do
  <2>2. \A k \in DOMAIN todo : Ordinary(todo[k]) \/ todo[k] = Do("finish")
    BY <1>1, FuncSteps
  <2>. QED  BY <2>1, <2>2 DEF Ordinary
<1>4. ~ AtStep("exit")
  <2>. SUFFICES ASSUME todo # << >>, Head(todo).do = "exit" PROVE FALSE
    BY DEF AtStep
  <2>1. Head(todo) = todo[1] /\ 1 \in DOMAIN todo
    BY <1>2, TailAt DEF TodoOK, Steps
  <2>. QED  BY <1>3, <2>1
<1>5. Sorted(ircode, Top.nextVarID) /\ Meant(ircode, todo) /\ Known(ircode, todo)
  BY <1>1, <1>3 DEF Sorted, Meant, Known
<1>. QED  BY <1>1, <1>2, <1>4, <1>5 DEF JInv

LEMMA JInductive == Spec => [](IInv /\ TodoOK(todo, opcodeCount) /\ JInv)
<1>. DEFINE Inv == IInv /\ TodoOK(todo, opcodeCount) /\ JInv
<1>1. Init => Inv
  BY InitInv, JInit
<1>2. Inv /\ [Next]_vars => Inv'
  BY StepInv, TodoKept, JStep
<1>. HIDE DEF Inv
<1>3. Spec => []Inv
  BY <1>1, <1>2, PTL DEF Spec
<1>. QED  BY <1>3 DEF Inv

(* In a function without handlers every jump lands on the label it was     *)
(* emitted for, whatever its loops, switches, conditionals and short       *)
(* circuits, and however deep: the label a jump waits for is the next one  *)
(* with its tag, the labels are strictly ordered, and so the interpreter   *)
(* looks in the right direction and meets no other label of that number.   *)
THEOREM JumpsMeant == Spec => []MeantWithoutHandlers
<1>1. IInv /\ TodoOK(todo, opcodeCount) /\ JInv => MeantWithoutHandlers
  BY JMeant
<1>. QED  BY <1>1, JInductive, PTL

(* A function that turns out to have no handler has its labels strictly    *)
(* ordered, even where handlers may be used in others.                     *)
THEOREM OrderWithoutHandlers == Spec => [](WithoutHandlers => LabelsOrdered)
<1>1. IInv /\ TodoOK(todo, opcodeCount) /\ JInv => (WithoutHandlers => LabelsOrdered)
  BY DEF JInv, Sorted, LabelsOrdered, Labelled, IsLabel
<1>. QED  BY <1>1, JInductive, PTL

-----------------------------------------------------------------------------
(* Every visitor is tidy: of the scopes its steps will open, no jump       *)
(* leaves an object behind or skips a declaration.                         *)

(* A step to come, by what it will emit.                                   *)
Planned(y) ==
  Mark(CASE y.do \in {"emit", "alloc", "alloc later", "jump"} -> y.op
         [] y.do \in {"label", "jzraise"} -> y.do
         [] y.do \in {"stmt", "stmts", "expr", "enter", "leave", "reserve"} -> "hole"
         [] OTHER -> "none",
       y.tag)

Plan(s) == [k \in DOMAIN s |-> Planned(s[k])]

TidySteps(s, quiet, out) == Tidy(Plan(s), Len(s), quiet, out)

(* A label or a jump of this tag is among the steps of s.                  *)
Uses(s, tag) == \E k \in DOMAIN s : s[k].do \in {"jump", "label"} /\ s[k].tag = tag

LEMMA PlannedStep ==
  ASSUME NEW y \in Step
  PROVE  /\ Planned(y).op \in Jumps <=> y.do = "jump"
         /\ Planned(y).op = "label" <=> y.do = "label"
         /\ Planned(y).op = "hole" <=> y.do \in {"stmt", "stmts", "expr", "enter", "leave", "reserve"}
         /\ Planned(y).op \in Allocs <=> y.do \in {"alloc", "alloc later"}
         /\ Planned(y).op \in {"scope", "end"} <=> y.do = "emit" /\ y.op \in {"scope", "end"}
         /\ Planned(y).op = "scope" <=> y.do = "emit" /\ y.op = "scope"
         /\ Planned(y).op = "end" <=> y.do = "emit" /\ y.op = "end"
         /\ y.do \in {"jump", "label"} => Planned(y).tag = y.tag
         /\ y.do = "alloc later" \/ y.do = "alloc" => Planned(y).op = y.op
<1>1. /\ y.do = "emit" => y.op \in {"scope", "end", "raise", "ret"}
      /\ y.do \in {"alloc", "alloc later"} => y.op \in Allocs
      /\ y.do = "jump" => y.op \in Jumps
  BY DEF Step
<1>2. /\ y.do \in {"emit", "alloc", "alloc later", "jump"} => Planned(y).op = y.op
      /\ y.do \in {"label", "jzraise"} => Planned(y).op = y.do
      /\ y.do \in {"stmt", "stmts", "expr", "enter", "leave", "reserve"} => Planned(y).op = "hole"
      /\ y.do \notin {"emit", "alloc", "alloc later", "jump", "label", "jzraise", "stmt", "stmts",
                      "expr", "enter", "leave", "reserve"} => Planned(y).op = "none"
  BY DEF Planned, Mark
<1>3. Planned(y).op \in Jumps \cup {"label"} => Planned(y).tag = y.tag
  BY DEF Planned, Mark
<1>. QED  BY <1>1, <1>2, <1>3 DEF Jumps, Allocs

LEMMA PlannedUse ==
  ASSUME NEW y \in Step
  PROVE  /\ Planned(y).op \in Jumps <=> y.do = "jump"
         /\ Planned(y).op \in Jumps \cup {"label"} <=> y.do \in {"jump", "label"}
         /\ y.do \in {"jump", "label"} => Planned(y).tag = y.tag
<1>1. /\ Planned(y).op \in Jumps <=> y.do = "jump"
      /\ Planned(y).op = "label" <=> y.do = "label"
      /\ y.do \in {"jump", "label"} => Planned(y).tag = y.tag
  BY PlannedStep
<1>. QED  BY <1>1

LEMMA UsesConcat ==
  ASSUME NEW s \in Steps, NEW t \in Steps, NEW tag
  PROVE  Uses(s \o t, tag) <=> Uses(s, tag) \/ Uses(t, tag)
<1>. DEFINE c == s \o t
<1>1. /\ \A k \in DOMAIN s : k \in DOMAIN c /\ c[k] = s[k]
      /\ \A k \in DOMAIN t : k + Len(s) \in DOMAIN c /\ c[k + Len(s)] = t[k]
      /\ \A k \in DOMAIN c :
           k \in DOMAIN s \/ (k - Len(s) \in DOMAIN t /\ c[k] = t[k - Len(s)])
  BY Concat
<1>. HIDE DEF c
<1>2. Uses(c, tag) <=> Uses(s, tag) \/ Uses(t, tag)
  BY <1>1 DEF Uses
<1>. QED  BY <1>2 DEF c

(* The steps of v between those of a and those of b.                       *)
Inserted(a, v, b, t) ==
  /\ t \in Steps /\ Len(t) = Len(a) + Len(v) + Len(b)
  /\ Len(a) \in Nat /\ Len(v) \in Nat /\ Len(b) \in Nat
  /\ DOMAIN t = 1 .. Len(a) + Len(v) + Len(b)
  /\ \A k \in 1 .. Len(a) : t[k] = a[k]
  /\ \A k \in 1 .. Len(v) : t[Len(a) + k] = v[k]
  /\ \A k \in 1 .. Len(b) : t[Len(a) + Len(v) + k] = b[k]

LEMMA Between ==
  ASSUME NEW a \in Steps, NEW b \in Steps, NEW v \in Steps
  PROVE  Inserted(a, v, b, (a \o v) \o b)
<1>. DEFINE t == (a \o v) \o b
<1>. DEFINE c == a \o v
<1>1. /\ c \in Steps /\ Len(c) = Len(a) + Len(v) /\ DOMAIN c = 1 .. Len(c)
      /\ Len(a) \in Nat /\ Len(v) \in Nat /\ Len(b) \in Nat
      /\ DOMAIN a = 1 .. Len(a) /\ DOMAIN v = 1 .. Len(v) /\ DOMAIN b = 1 .. Len(b)
      /\ \A k \in DOMAIN a : c[k] = a[k]
      /\ \A k \in DOMAIN v : c[k + Len(a)] = v[k]
  <2>1. c \in Steps /\ Len(c) = Len(a) + Len(v)
    BY DEF Steps
  <2>2. /\ \A k \in DOMAIN a : k \in DOMAIN c /\ c[k] = a[k]
        /\ \A k \in DOMAIN v : k + Len(a) \in DOMAIN c /\ c[k + Len(a)] = v[k]
    BY Concat, ZenonT(30)
  <2>. HIDE DEF c
  <2>. QED  BY <2>1, <2>2 DEF Steps
<1>2. t = c \o b
  OBVIOUS
<1>. HIDE DEF c, t
<1>3. /\ t \in Steps /\ Len(t) = Len(c) + Len(b) /\ DOMAIN t = 1 .. Len(t)
      /\ \A k \in DOMAIN c : t[k] = c[k]
      /\ \A k \in DOMAIN b : t[k + Len(c)] = b[k]
  <2>1. t \in Steps /\ Len(t) = Len(c) + Len(b)
    <3>1. c \in Seq(Step) /\ b \in Seq(Step)
      BY <1>1 DEF Steps
    <3>2. c \o b \in Seq(Step) /\ Len(c \o b) = Len(c) + Len(b)
      BY <3>1
    <3>. QED  BY <1>2, <3>2 DEF Steps
  <2>2. /\ \A k \in DOMAIN c : k \in DOMAIN (c \o b) /\ (c \o b)[k] = c[k]
        /\ \A k \in DOMAIN b : k + Len(c) \in DOMAIN (c \o b) /\ (c \o b)[k + Len(c)] = b[k]
    <3>1. c \in Steps
      BY <1>1
    <3>. QED  BY <3>1, Concat, ZenonT(30)
  <2>3. DOMAIN t = 1 .. Len(t)
    BY <2>1 DEF Steps
  <2>. QED  BY <1>2, <2>1, <2>2, <2>3
<1>4. \A k \in 1 .. Len(a) : t[k] = a[k]
  BY <1>1, <1>3
<1>5. ASSUME NEW k \in 1 .. Len(v) PROVE t[Len(a) + k] = v[k]
  <2>1. k + Len(a) \in DOMAIN c /\ Len(a) + k = k + Len(a) /\ k \in DOMAIN v
    BY <1>1
  <2>. QED  BY <1>1, <1>3, <2>1
<1>6. ASSUME NEW k \in 1 .. Len(b) PROVE t[Len(a) + Len(v) + k] = b[k]
  <2>1. k + Len(c) = Len(a) + Len(v) + k /\ k \in DOMAIN b
    BY <1>1
  <2>. QED  BY <1>3, <2>1
<1>7. Inserted(a, v, b, t)
  BY <1>1, <1>3, <1>4, <1>5, <1>6 DEF Inserted
<1>. QED  BY <1>7 DEF t

(* A step with the steps of v in its place.                                *)
LEMMA Fill ==
  ASSUME NEW a \in Steps, NEW b \in Steps, NEW v \in Steps, NEW x \in Step,
         NEW quiet \in BOOLEAN, NEW quiet2 \in BOOLEAN, NEW out, NEW out2,
         TidySteps((a \o << x >>) \o b, quiet, out), TidySteps(v, quiet2, out2),
         x.do \in {"stmt", "stmts", "expr", "enter", "leave", "reserve", "finish", "jump"},
         x.do \in {"finish", "jump"} => quiet2,
         x.do = "jump" => x.tag \in out2,
         \A tag : Uses(v, tag) =>
           \/ x.do = "jump" /\ tag = x.tag /\ ~ Named(v, tag)
           \/ ~ Uses(a, tag) /\ ~ Uses(b, tag),
         \/ \A k \in DOMAIN v : v[k].do = "jump" => v[k].tag \notin out
         \/ /\ out = out2
            /\ \A k \in DOMAIN a : Planned(a[k]).op \notin Objects \cup Jumps
            /\ \A k \in DOMAIN b : Planned(b[k]).op \notin Objects \cup Jumps
  PROVE  TidySteps((a \o v) \o b, quiet, out)
<1>. DEFINE z == << x >>
            s == (a \o z) \o b
            t == (a \o v) \o b
            n == Len(a) + 1 + Len(b)
            l == Len(v)
            p == Len(a) + 1
            w == Plan(s)
            u == Plan(t)
            q == Plan(v)
<1>1. z \in Steps /\ Len(z) = 1 /\ z[1] = x
  BY FewSteps
<1>. HIDE DEF z
<1>2. /\ Len(s) = n /\ DOMAIN s = 1 .. n /\ Len(a) \in Nat /\ Len(b) \in Nat /\ s \in Steps
      /\ \A k \in 1 .. Len(a) : s[k] = a[k]
      /\ \A k \in 1 .. 1 : s[Len(a) + k] = z[k]
      /\ \A k \in 1 .. Len(b) : s[Len(a) + 1 + k] = b[k]
  <2>0. Inserted(a, z, b, s)
    BY <1>1, Between
  <2>1. /\ Len(s) = Len(a) + Len(z) + Len(b) /\ DOMAIN s = 1 .. Len(a) + Len(z) + Len(b)
        /\ Len(a) \in Nat /\ Len(b) \in Nat /\ s \in Steps
        /\ \A k \in 1 .. Len(a) : s[k] = a[k]
        /\ \A k \in 1 .. Len(z) : s[Len(a) + k] = z[k]
        /\ \A k \in 1 .. Len(b) : s[Len(a) + Len(z) + k] = b[k]
    BY <2>0 DEF Inserted
  <2>. QED  BY <1>1, <2>1
<1>3. /\ Len(t) = n - 1 + l /\ DOMAIN t = 1 .. n - 1 + l /\ l \in Nat /\ t \in Steps
      /\ \A k \in 1 .. Len(a) : t[k] = a[k]
      /\ \A k \in 1 .. l : t[Len(a) + k] = v[k]
      /\ \A k \in 1 .. Len(b) : t[Len(a) + l + k] = b[k]
  <2>0. Inserted(a, v, b, t)
    BY Between
  <2>1. /\ Len(t) = Len(a) + Len(v) + Len(b) /\ DOMAIN t = 1 .. Len(a) + Len(v) + Len(b)
        /\ Len(v) \in Nat /\ Len(a) \in Nat /\ Len(b) \in Nat /\ t \in Steps
        /\ \A k \in 1 .. Len(a) : t[k] = a[k]
        /\ \A k \in 1 .. Len(v) : t[Len(a) + k] = v[k]
        /\ \A k \in 1 .. Len(b) : t[Len(a) + Len(v) + k] = b[k]
    BY <2>0 DEF Inserted
  <2>2. Len(a) + Len(v) + Len(b) = n - 1 + l
    BY <2>1
  <2>. QED  BY <2>1, <2>2
<1>. HIDE DEF s, t
<1>4. /\ DOMAIN a = 1 .. Len(a) /\ DOMAIN b = 1 .. Len(b) /\ DOMAIN v = 1 .. l
      /\ \A k \in DOMAIN a : a[k] \in Step
      /\ \A k \in DOMAIN b : b[k] \in Step
      /\ \A k \in DOMAIN v : v[k] \in Step
  BY DEF Steps
<1>5. n \in Nat /\ l \in Nat /\ p \in 1 .. n /\ p \in Nat
  BY <1>2, <1>3
<1>6. /\ \A k \in 1 .. n : w[k] = Planned(s[k])
      /\ \A k \in 1 .. n - 1 + l : u[k] = Planned(t[k])
      /\ \A k \in 1 .. l : q[k] = Planned(v[k])
  BY <1>2, <1>3, <1>4 DEF Plan
<1>. HIDE DEF w, u, q
<1>7. /\ w[p] = Planned(x)
      /\ \A k \in 1 .. n : k < p => k \in DOMAIN a /\ s[k] = a[k]
      /\ \A k \in 1 .. n : k > p => k - p \in DOMAIN b /\ s[k] = b[k - p]
  <2>1. s[p] = x
    BY <1>1, <1>2
  <2>2. \A k \in 1 .. n : k < p => k \in DOMAIN a /\ s[k] = a[k]
    BY <1>2, <1>4
  <2>3. ASSUME NEW k \in 1 .. n, k > p PROVE k - p \in DOMAIN b /\ s[k] = b[k - p]
    <3>1. k - p \in 1 .. Len(b) /\ k = Len(a) + 1 + (k - p)
      BY <1>2, <2>3
    <3>. QED  BY <1>2, <1>4, <3>1
  <2>. QED  BY <1>5, <1>6, <2>1, <2>2, <2>3
<1>8. Put(w, n, p, q, l, u)
  <2>1. ASSUME NEW k \in 1 .. n, k < p PROVE u[k] = w[k]
    <3>1. k \in 1 .. Len(a) /\ k \in 1 .. n - 1 + l
      BY <1>2, <1>3, <2>1
    <3>. QED  BY <1>2, <1>3, <1>6, <3>1
  <2>2. ASSUME NEW k \in 1 .. l PROVE u[p - 1 + k] = q[k]
    <3>1. p - 1 + k = Len(a) + k /\ p - 1 + k \in 1 .. n - 1 + l
      BY <1>2, <1>3
    <3>. QED  BY <1>3, <1>6, <3>1
  <2>3. ASSUME NEW k \in 1 .. n, k > p PROVE u[k - 1 + l] = w[k]
    <3>1. /\ k - p \in 1 .. Len(b) /\ k = Len(a) + 1 + (k - p) /\ k - 1 + l = Len(a) + l + (k - p)
          /\ k - 1 + l \in 1 .. n - 1 + l
      BY <1>2, <1>3, <2>3
    <3>2. u[k - 1 + l] = Planned(t[k - 1 + l]) /\ t[k - 1 + l] = b[k - p]
      BY <1>3, <1>6, <3>1
    <3>3. w[k] = Planned(s[k]) /\ s[k] = b[k - p]
      BY <1>6, <1>7, <2>3
    <3>. QED  BY <3>2, <3>3
  <2>. QED  BY <2>1, <2>2, <2>3 DEF Put
<1>9. Apart(w, n, p, q, l)
  <2>. SUFFICES ASSUME NEW i \in 1 .. l, q[i].op \in Jumps \cup {"label"}
                PROVE  \/ q[i].op \in Jumps /\ w[p].op \in Jumps /\ q[i].tag = w[p].tag
                       \/ \A j \in 1 .. n : (j # p /\ w[j].op \in Jumps \cup {"label"})
                                              => w[j].tag # q[i].tag
    BY DEF Apart
  <2>0. q[i].op \in Jumps \cup {"label"}
    OBVIOUS
  <2>1. /\ v[i] \in Step /\ i \in DOMAIN v /\ v[i].do \in {"jump", "label"} /\ q[i].tag = v[i].tag
        /\ q[i].op \in Jumps <=> v[i].do = "jump"
    <3>1. v[i] \in Step /\ i \in DOMAIN v /\ q[i] = Planned(v[i])
      BY <1>4, <1>6
    <3>. QED  BY <2>0, <3>1, PlannedUse
  <2>2. Uses(v, v[i].tag) /\ (v[i].do = "label" => Named(v, v[i].tag))
    BY <2>1 DEF Uses, Named
  <2>3. CASE x.do = "jump" /\ v[i].tag = x.tag /\ ~ Named(v, v[i].tag)
    <3>1. w[p].op \in Jumps /\ w[p].tag = x.tag
      BY <1>7, <2>3, PlannedUse
    <3>2. v[i].do = "jump"
      BY <2>1, <2>2, <2>3
    <3>. QED  BY <2>1, <2>3, <3>1, <3>2
  <2>4. CASE ~ Uses(a, v[i].tag) /\ ~ Uses(b, v[i].tag)
    <3>. SUFFICES ASSUME NEW j \in 1 .. n, j # p, w[j].op \in Jumps \cup {"label"},
                         w[j].tag = v[i].tag
                  PROVE  FALSE
      BY <2>1
    <3>0. w[j].op \in Jumps \cup {"label"} /\ w[j].tag = v[i].tag
      OBVIOUS
    <3>1. j < p \/ j > p
      BY <1>5
    <3>2. CASE j < p
      <4>1. a[j] \in Step /\ w[j] = Planned(a[j]) /\ j \in DOMAIN a
        BY <1>4, <1>6, <1>7, <3>2
      <4>2. a[j].do \in {"jump", "label"} /\ a[j].tag = v[i].tag
        BY <3>0, <4>1, PlannedUse
      <4>. QED  BY <2>4, <4>1, <4>2 DEF Uses
    <3>3. CASE j > p
      <4>1. b[j - p] \in Step /\ w[j] = Planned(b[j - p]) /\ j - p \in DOMAIN b
        BY <1>4, <1>6, <1>7, <3>3
      <4>2. b[j - p].do \in {"jump", "label"} /\ b[j - p].tag = v[i].tag
        BY <3>0, <4>1, PlannedUse
      <4>. QED  BY <2>4, <4>1, <4>2 DEF Uses
    <3>. QED  BY <3>1, <3>2, <3>3
  <2>. QED  BY <2>2, <2>3, <2>4
<1>10. /\ w[p].op \notin Allocs \cup {"label", "scope", "end"}
       /\ w[p].op # "hole" => quiet2
       /\ w[p].op \in Jumps => w[p].tag \in out2
  <2>1. /\ Planned(x).op \in Jumps <=> x.do = "jump"
        /\ Planned(x).op = "label" <=> x.do = "label"
        /\ Planned(x).op = "hole" <=> x.do \in {"stmt", "stmts", "expr", "enter", "leave", "reserve"}
        /\ Planned(x).op \in Allocs <=> x.do \in {"alloc", "alloc later"}
        /\ Planned(x).op \in {"scope", "end"} <=> x.do = "emit" /\ x.op \in {"scope", "end"}
        /\ x.do \in {"jump", "label"} => Planned(x).tag = x.tag
    BY PlannedStep
  <2>. QED  BY <1>7, <2>1
<1>11. \/ \A i \in 1 .. l : q[i].op \in Jumps => q[i].tag \notin out
       \/ out = out2 /\ \A k \in 1 .. n : k # p => w[k].op \notin Objects \cup Jumps
  <2>1. CASE \A k \in DOMAIN v : v[k].do = "jump" => v[k].tag \notin out
    <3>1. ASSUME NEW i \in 1 .. l, q[i].op \in Jumps PROVE q[i].tag \notin out
      <4>1. v[i].do = "jump" /\ q[i].tag = v[i].tag /\ i \in DOMAIN v
        <5>1. v[i] \in Step /\ i \in DOMAIN v /\ q[i] = Planned(v[i])
          BY <1>4, <1>6
        <5>. QED  BY <3>1, <5>1, PlannedUse
      <4>. QED  BY <2>1, <4>1
    <3>. QED  BY <3>1
  <2>2. CASE /\ out = out2
             /\ \A k \in DOMAIN a : Planned(a[k]).op \notin Objects \cup Jumps
             /\ \A k \in DOMAIN b : Planned(b[k]).op \notin Objects \cup Jumps
    <3>1. ASSUME NEW k \in 1 .. n, k # p PROVE w[k].op \notin Objects \cup Jumps
      <4>1. k < p \/ k > p
        BY <1>5, <3>1
      <4>2. CASE k < p
        BY <1>6, <1>7, <2>2, <4>2
      <4>3. CASE k > p
        BY <1>6, <1>7, <2>2, <4>3
      <4>. QED  BY <4>1, <4>2, <4>3
    <3>. QED  BY <2>2, <3>1
  <2>. QED  BY <2>1, <2>2
<1>12. Tidy(w, n, quiet, out) /\ Tidy(q, l, quiet2, out2)
  BY <1>2 DEF TidySteps, w, q, s, z
<1>. HIDE DEF n, l, p
<1>13. Tidy(u, n - 1 + l, quiet, out)
  BY <1>5, <1>8, <1>9, <1>10, <1>11, <1>12, Replaced
<1>. QED  BY <1>3, <1>13 DEF TidySteps, u, t

(* Steps that may declare a register, and those it may be of an object.    *)
Loose(x) == x.do \in {"alloc", "alloc later", "stmt", "stmts", "expr", "enter", "leave", "reserve"}
Holds(x) == Loose(x) /\ x.op # "stackalloc bool"

(* Steps that neither begin nor end a scope.                               *)
Flat(s, out) ==
  /\ s \in Steps
  /\ \A k \in DOMAIN s : ~ (s[k].do = "emit" /\ s[k].op \in {"scope", "end"})
  /\ \A i, t \in DOMAIN s :
       s[i].do = "jump" /\ s[t].do = "label" /\ s[t].tag = s[i].tag =>
         \A j \in DOMAIN s : i < j /\ j < t => ~ Loose(s[j])
  /\ \A i, j \in DOMAIN s : s[i].do = "jump" /\ s[i].tag \in out /\ j < i => ~ Holds(s[j])

LEMMA PlannedLoose ==
  ASSUME NEW y \in Step
  PROVE  /\ Planned(y).op \in Declared => Loose(y)
         /\ Planned(y).op \in Objects => Holds(y)
         /\ y.do = "jump" => Planned(y).op \notin Declared
         /\ y.do = "label" => Planned(y).op \notin Declared
<1>1. /\ y.do \in {"alloc", "alloc later"} => y.op \in Allocs
      /\ y.do \in {"stmt", "stmts", "expr", "enter", "leave", "reserve"} => y.op = ""
  BY DEF Step
<1>2. /\ y.do \in {"alloc", "alloc later"} => Planned(y).op = y.op
      /\ y.do \in {"stmt", "stmts", "expr", "enter", "leave", "reserve"} => Planned(y).op = "hole"
      /\ Planned(y).op = "hole" <=> y.do \in {"stmt", "stmts", "expr", "enter", "leave", "reserve"}
      /\ Planned(y).op \in Allocs <=> y.do \in {"alloc", "alloc later"}
  BY PlannedStep
<1>3. Declared = Allocs \cup {"hole"} /\ Objects = {"stackalloc", "hole"}
      /\ Allocs = {"stackalloc", "stackalloc bool"}
  BY DEF Declared, Objects, Allocs
<1>4. /\ Planned(y).op \in Declared => Planned(y).op \in Allocs \/ Planned(y).op = "hole"
      /\ Planned(y).op \in Objects =>
           Planned(y).op = "hole" \/ (Planned(y).op \in Allocs /\ Planned(y).op = "stackalloc")
  BY <1>3
<1>5. /\ Planned(y).op \in Declared => Loose(y)
      /\ Planned(y).op \in Objects => Holds(y)
  BY <1>1, <1>2, <1>4 DEF Loose, Holds
<1>. QED  BY <1>5 DEF Loose

LEMMA FlatTidy ==
  ASSUME NEW s, NEW out, Flat(s, out)
  PROVE  TidySteps(s, FALSE, out)
<1>. DEFINE n == Len(s)
            w == Plan(s)
            d == [k \in 0 .. n |-> 0]
<1>1. n \in Nat /\ DOMAIN s = 1 .. n /\ \A k \in 1 .. n : s[k] \in Step
  BY DEF Flat, Steps
<1>2. \A k \in 1 .. n : w[k] = Planned(s[k])
  BY <1>1 DEF Plan
<1>3. \A k \in 0 .. n : d[k] = 0
  OBVIOUS
<1>4. d \in [0 .. n -> Nat]
  OBVIOUS
<1>. HIDE DEF n, w, d
<1>5. \A k \in 1 .. n : w[k].op \notin {"scope", "end"}
  <2>. SUFFICES ASSUME NEW k \in 1 .. n, w[k].op \in {"scope", "end"} PROVE FALSE
    OBVIOUS
  <2>1. s[k] \in Step /\ k \in DOMAIN s /\ Planned(s[k]).op \in {"scope", "end"}
    BY <1>1, <1>2
  <2>2. s[k].do = "emit" /\ s[k].op \in {"scope", "end"}
    BY <2>1, PlannedStep
  <2>. QED  BY <2>1, <2>2 DEF Flat
<1>6. Depth(w, n, d) /\ d[n] = 0
  <2>1. n \in 0 .. n /\ 0 \in 0 .. n /\ \A k \in 1 .. n : k \in 0 .. n /\ k - 1 \in 0 .. n
    BY <1>1
  <2>. QED  BY <1>3, <1>4, <1>5, <2>1 DEF Depth
<1>7. \A a, b \in 1 .. n : Stays(d, a, b)
  <2>. SUFFICES ASSUME NEW a \in 1 .. n, NEW b \in 1 .. n, NEW k \in (a .. b) \cup (b .. a)
                PROVE  d[a] <= d[k]
    BY DEF Stays
  <2>1. a \in 0 .. n /\ k \in 0 .. n
    BY <1>1
  <2>. QED  BY <1>3, <2>1
<1>8. Jumping(w, n, d)
  <2>. SUFFICES ASSUME NEW i \in 1 .. n, NEW t \in 1 .. n, w[i].op \in Jumps, w[t].op = "label",
                       w[t].tag = w[i].tag
                PROVE  /\ Stays(d, t, i)
                       /\ \A j \in 1 .. i : w[j].op \in Objects /\ Stays(d, j, i) => Stays(d, j, t)
                       /\ \A j \in i .. t : w[j].op \in Declared => ~ Stays(d, j, t)
    BY DEF Jumping
  <2>1. /\ s[i] \in Step /\ s[t] \in Step /\ i \in DOMAIN s /\ t \in DOMAIN s
        /\ w[i] = Planned(s[i]) /\ w[t] = Planned(s[t])
    BY <1>1, <1>2
  <2>2. s[i].do = "jump" /\ s[t].do = "label" /\ s[t].tag = s[i].tag
    <3>1. s[i].do = "jump" /\ w[i].tag = s[i].tag
      BY <2>1, PlannedUse
    <3>2. s[t].do = "label" /\ w[t].tag = s[t].tag
      BY <2>1, PlannedStep
    <3>. QED  BY <3>1, <3>2
  <2>3. ASSUME NEW j \in i .. t, w[j].op \in Declared PROVE FALSE
    <3>1. j \in 1 .. n /\ j \in DOMAIN s /\ s[j] \in Step /\ w[j] = Planned(s[j])
      BY <1>1, <1>2
    <3>2. j # i /\ j # t
      BY <2>1, <2>2, <2>3, PlannedLoose
    <3>3. i < j /\ j < t
      BY <3>2
    <3>4. ~ Loose(s[j])
      BY <2>1, <2>2, <3>1, <3>3 DEF Flat
    <3>. QED  BY <2>3, <3>1, <3>4, PlannedLoose
  <2>4. \A j \in 1 .. i : j \in 1 .. n
    BY <1>1
  <2>. QED  BY <1>7, <2>3, <2>4
<1>9. Clean(w, n, d, out)
  <2>. SUFFICES ASSUME NEW i \in 1 .. n, w[i].op \in Jumps, w[i].tag \in out,
                       NEW j \in 1 .. i, w[j].op \in Objects
                PROVE  FALSE
    BY DEF Clean
  <2>1. /\ j \in 1 .. n /\ s[i] \in Step /\ s[j] \in Step /\ i \in DOMAIN s /\ j \in DOMAIN s
        /\ w[i] = Planned(s[i]) /\ w[j] = Planned(s[j])
    BY <1>1, <1>2
  <2>2. s[i].do = "jump" /\ s[i].tag \in out
    BY <2>1, PlannedUse
  <2>3. Holds(s[j])
    BY <2>1, PlannedLoose
  <2>4. j # i
    BY <2>2, <2>3 DEF Holds, Loose
  <2>5. j < i
    BY <2>4
  <2>. QED  BY <2>1, <2>2, <2>3, <2>5 DEF Flat
<1>10. Tidy(w, n, FALSE, out)
  BY <1>6, <1>8, <1>9 DEF Tidy
<1>. QED  BY <1>10 DEF TidySteps, w, n

(* A ScopeLocker around tidy steps leaves nothing declared.                *)
LEMMA LockedTidy ==
  ASSUME NEW s \in Steps, NEW out, TidySteps(s, FALSE, out)
  PROVE  TidySteps(Locked(s), TRUE, out)
<1>. DEFINE a == << ScopeBegin >>
            b == << ScopeEnd >>
            z == << Stmt >>
            c == (a \o z) \o b
            w == Plan(c)
            d == [k \in 0 .. 3 |-> IF k \in {1, 2} THEN 1 ELSE 0]
<1>1. /\ a \in Steps /\ b \in Steps /\ z \in Steps /\ Len(a) = 1 /\ Len(b) = 1 /\ Len(z) = 1
      /\ a[1] = ScopeBegin /\ b[1] = ScopeEnd /\ z[1] = Stmt
      /\ ScopeBegin \in Step /\ ScopeEnd \in Step /\ Stmt \in Step
  BY FewSteps, OneStep
<1>. HIDE DEF a, b, z
<1>2. Len(c) = 3 /\ DOMAIN c = 1 .. 3 /\ c[1] = ScopeBegin /\ c[2] = Stmt /\ c[3] = ScopeEnd
  <2>1. Inserted(a, z, b, c)
    BY <1>1, Between
  <2>. HIDE DEF c
  <2>2. /\ Len(c) = 3 /\ DOMAIN c = 1 .. 3 /\ c[1] = a[1] /\ c[1 + 1] = z[1]
        /\ c[1 + 1 + 1] = b[1]
    BY <1>1, <2>1 DEF Inserted
  <2>. QED  BY <1>1, <2>2
<1>. HIDE DEF c
<1>3. /\ Planned(ScopeBegin).op = "scope" /\ Planned(ScopeEnd).op = "end" /\ Planned(Stmt).op = "hole"
  BY DEF Planned, Mark, ScopeBegin, ScopeEnd, Stmt, Emit, Do
<1>4. w[1].op = "scope" /\ w[2].op = "hole" /\ w[3].op = "end"
  BY <1>2, <1>3 DEF Plan
<1>5. d \in [0 .. 3 -> Nat] /\ d[0] = 0 /\ d[1] = 1 /\ d[2] = 1 /\ d[3] = 0
  OBVIOUS
<1>. HIDE DEF w, d
<1>6. \A k \in 1 .. 3 : k = 1 \/ k = 2 \/ k = 3
  OBVIOUS
<1>7. Depth(w, 3, d)
  <2>1. ASSUME NEW k \in 1 .. 3
        PROVE  /\ w[k].op = "scope" => d[k] = d[k - 1] + 1
               /\ w[k].op = "end" => d[k] = d[k - 1] - 1
               /\ w[k].op \notin {"scope", "end"} => d[k] = d[k - 1]
    BY <1>4, <1>5, <1>6
  <2>. QED  BY <1>5, <2>1 DEF Depth
<1>8. \A k \in 1 .. 3 : w[k].op \notin Jumps /\ (w[k].op \in Declared => k = 2)
  BY <1>4, <1>6 DEF Jumps, Declared, Allocs
<1>9. Jumping(w, 3, d) /\ Quiet(w, 3, d) /\ Clean(w, 3, d, out)
  BY <1>5, <1>8 DEF Jumping, Quiet, Clean
<1>10. TidySteps(c, TRUE, out)
  BY <1>2, <1>5, <1>7, <1>9 DEF TidySteps, Tidy, w
<1>11. /\ \A k \in DOMAIN a : Planned(a[k]).op \notin Objects \cup Jumps
       /\ \A k \in DOMAIN b : Planned(b[k]).op \notin Objects \cup Jumps
       /\ \A tag : ~ Uses(a, tag) /\ ~ Uses(b, tag)
  <2>1. DOMAIN a = {1} /\ DOMAIN b = {1}
    BY <1>1, Lengths
  <2>2. "scope" \notin Objects \cup Jumps /\ "end" \notin Objects \cup Jumps
    BY DEF Objects, Jumps
  <2>3. ScopeBegin.do = "emit" /\ ScopeEnd.do = "emit"
    BY DEF ScopeBegin, ScopeEnd, Emit
  <2>. QED  BY <1>1, <1>3, <2>1, <2>2, <2>3 DEF Uses
<1>12. Stmt.do = "stmt"
  BY DEF Stmt, Do
<1>13. TidySteps((a \o z) \o b, TRUE, out)
  BY <1>10 DEF c
<1>14. TidySteps((a \o s) \o b, TRUE, out)
  BY <1>1, <1>11, <1>12, <1>13, Fill DEF z
<1>. QED  BY <1>14 DEF Locked, a, b

(* Steps without jumps or labels, and a place for such steps.              *)
Closed(s) == \A k \in DOMAIN s : s[k].do \notin {"jump", "label"}

Gap == Do("finish")

LEMMA FillGap ==
  ASSUME NEW a \in Steps, NEW b \in Steps, NEW v \in Steps, NEW out,
         TidySteps((a \o << Gap >>) \o b, FALSE, out), TidySteps(v, TRUE, {}), Closed(v)
  PROVE  TidySteps((a \o v) \o b, FALSE, out)
<1>1. Gap \in Step /\ Gap.do = "finish"
  BY OneStep DEF Gap, Do, Step, Tag, NoTag
<1>2. /\ \A tag : ~ Uses(v, tag)
      /\ \A k \in DOMAIN v : v[k].do # "jump"
  BY DEF Closed, Uses
<1>. QED  BY <1>1, <1>2, Fill, Zenon

LEMMA FillTwo ==
  ASSUME NEW p1 \in Steps, NEW p2 \in Steps, NEW p3 \in Steps, NEW p4 \in Steps, NEW p5 \in Steps,
         NEW out, TidySteps((((p1 \o << Gap >>) \o p3) \o << Gap >>) \o p5, FALSE, out),
         TidySteps(p2, TRUE, {}), Closed(p2), TidySteps(p4, TRUE, {}), Closed(p4)
  PROVE  TidySteps((((p1 \o p2) \o p3) \o p4) \o p5, FALSE, out)
<1>0. Gap \in Step
  BY OneStep DEF Gap, Do, Step, Tag, NoTag
<1>1. Gap \in Step /\ << Gap >> \in Steps
  BY <1>0, Single
<1>2. TidySteps((((p1 \o << Gap >>) \o p3) \o p4) \o p5, FALSE, out)
  <2>1. (p1 \o << Gap >>) \o p3 \in Steps
    BY <1>1, ConcatSteps
  <2>. QED  BY <2>1, FillGap
<1>3. \A q \in Steps : (((p1 \o q) \o p3) \o p4) \o p5 = (p1 \o q) \o ((p3 \o p4) \o p5)
  <2>. SUFFICES ASSUME NEW q \in Steps
                PROVE  (((p1 \o q) \o p3) \o p4) \o p5 = (p1 \o q) \o ((p3 \o p4) \o p5)
    OBVIOUS
  <2>. DEFINE h == p1 \o q
              m == p3 \o p4
  <2>1. h \in Steps /\ m \in Steps
    BY ConcatSteps
  <2>. HIDE DEF h
  <2>2. (h \o p3) \o p4 = h \o m
    BY <2>1, SMTT(30) DEF Steps
  <2>. HIDE DEF m
  <2>3. (h \o m) \o p5 = h \o (m \o p5)
    BY <2>1, SMTT(30) DEF Steps
  <2>. QED  BY <2>2, <2>3, Zenon DEF h, m
<1>4. (p3 \o p4) \o p5 \in Steps
  BY ConcatSteps
<1>5. TidySteps((p1 \o << Gap >>) \o ((p3 \o p4) \o p5), FALSE, out)
  BY <1>1, <1>2, <1>3, Zenon
<1>6. TidySteps((p1 \o p2) \o ((p3 \o p4) \o p5), FALSE, out)
  BY <1>4, <1>5, FillGap
<1>. QED  BY <1>3, <1>6, Zenon

(* Steps within others that have neither labels nor jumps.                 *)
LEMMA Around ==
  ASSUME NEW a \in Steps, NEW b \in Steps, NEW v \in Steps, Closed(a), Closed(b),
         TidySteps((a \o << Stmt >>) \o b, FALSE, {}), TidySteps(v, FALSE, {})
  PROVE  TidySteps((a \o v) \o b, FALSE, {})
<1>1. Stmt \in Step /\ Stmt.do = "stmt"
  BY OneStep DEF Stmt, Do
<1>2. /\ \A tag : ~ Uses(a, tag) /\ ~ Uses(b, tag)
      /\ \A k \in DOMAIN v : v[k].tag \notin {}
  BY DEF Closed, Uses
<1>. QED  BY <1>1, <1>2, Fill, Zenon

Plain(x) == x \in Step /\ ~ (x.do = "emit" /\ x.op \in {"scope", "end"})

Tame(x) == Plain(x) /\ x.do \notin {"jump", "label"}

(* Steps without scopes, jumps and labels.                                 *)
Calm(s) == s \in Steps /\ \A k \in DOMAIN s : Tame(s[k])

LEMMA CalmTidy ==
  ASSUME NEW s, Calm(s)
  PROVE  TidySteps(s, FALSE, {}) /\ Closed(s) /\ s \in Steps
<1>1. Flat(s, {})
  BY DEF Flat, Calm, Plain, Tame
<1>. QED  BY <1>1, FlatTidy DEF Calm, Closed, Tame

LEMMA CalmConcat ==
  ASSUME NEW s, NEW t, Calm(s), Calm(t)
  PROVE  Calm(s \o t)
<1>. DEFINE c == s \o t
<1>1. s \in Steps /\ t \in Steps
  BY DEF Calm
<1>2. /\ \A k \in DOMAIN s : k \in DOMAIN c /\ c[k] = s[k]
      /\ \A k \in DOMAIN c :
           k \in DOMAIN s \/ (k - Len(s) \in DOMAIN t /\ c[k] = t[k - Len(s)])
      /\ c \in Steps
  BY <1>1, Concat
<1>. HIDE DEF c
<1>3. Calm(c)
  BY <1>2 DEF Calm
<1>. QED  BY <1>3 DEF c

LEMMA CalmOne ==
  ASSUME NEW x, Tame(x)
  PROVE  Calm(<< x >>)
<1>. DEFINE s == << x >>
<1>1. s \in Steps /\ DOMAIN s = {1} /\ s[1] = x
  BY Single DEF Plain, Tame
<1>. HIDE DEF s
<1>2. Calm(s)
  BY <1>1 DEF Calm
<1>. QED  BY <1>2 DEF s

LEMMA CalmTwo ==
  ASSUME NEW x, NEW y, Tame(x), Tame(y)
  PROVE  Calm(<< x, y >>)
<1>1. x \in Step /\ y \in Step
  BY DEF Plain, Tame
<1>2. Calm(<< x >> \o << y >>)
  BY CalmOne, CalmConcat
<1>. QED  BY <1>1, <1>2, TwoSteps, Zenon

LEMMA PlainSteps ==
  /\ Tame(Alloc) /\ Tame(AllocBool) /\ Tame(Enter) /\ Tame(Leave) /\ Tame(Expr) /\ Tame(Stmt)
  /\ Tame(Do("jzraise")) /\ Tame(Do("reserve")) /\ Tame(Do("stmts")) /\ Tame(Do("finish"))
  /\ Tame(Gap) /\ Tame(Emit("ret")) /\ Tame(Emit("raise")) /\ ~ Loose(Gap)
<1>. USE OneStep DEF Tame, Plain
<1>1. Tame(Alloc) /\ Tame(AllocBool)
  BY DEF Alloc, AllocBool
<1>2. Tame(Enter) /\ Tame(Leave) /\ Tame(Expr) /\ Tame(Stmt)
  BY DEF Enter, Leave, Expr, Stmt, Do
<1>3. Tame(Do("jzraise")) /\ Tame(Do("reserve")) /\ Tame(Do("stmts")) /\ Tame(Do("finish"))
  BY DEF Do
<1>4. Tame(Emit("ret")) /\ Tame(Emit("raise"))
  BY DEF Emit
<1>5. Tame(Gap) /\ ~ Loose(Gap)
  BY <1>3 DEF Gap, Do, Loose
<1>. QED  BY <1>1, <1>2, <1>3, <1>4, <1>5, Zenon

(* A ScopeLocker around steps without jumps fits in a gap.                 *)
Sealed(s) == s \in Steps /\ TidySteps(s, TRUE, {}) /\ Closed(s)

LEMMA ClosedConcat ==
  ASSUME NEW s \in Steps, NEW t \in Steps, Closed(s), Closed(t)
  PROVE  Closed(s \o t)
<1>. DEFINE c == s \o t
<1>1. \A k \in DOMAIN c :
           (k \in DOMAIN s /\ c[k] = s[k]) \/ (k - Len(s) \in DOMAIN t /\ c[k] = t[k - Len(s)])
  <2>1. /\ \A k \in DOMAIN s : c[k] = s[k]
        /\ \A k \in DOMAIN c : \/ k \in DOMAIN s
                               \/ k - Len(s) \in DOMAIN t /\ c[k] = t[k - Len(s)] /\ k > Len(s)
    BY Concat, ZenonT(30)
  <2>. HIDE DEF c
  <2>. QED  BY <2>1
<1>. HIDE DEF c
<1>2. Closed(c)
  BY <1>1 DEF Closed
<1>. QED  BY <1>2 DEF c

LEMMA LockedSealed ==
  ASSUME NEW s \in Steps, TidySteps(s, FALSE, {}), Closed(s)
  PROVE  Sealed(Locked(s))
<1>1. /\ << ScopeBegin >> \in Steps /\ << ScopeEnd >> \in Steps
      /\ << ScopeBegin >> \o s \in Steps /\ Locked(s) \in Steps
  BY OneStep, Single, ConcatSteps, LockedSteps
<1>2. Closed(<< ScopeBegin >>) /\ Closed(<< ScopeEnd >>)
  BY OneStep, Single DEF Closed, ScopeBegin, ScopeEnd, Emit
<1>3. Closed(Locked(s))
  BY <1>1, <1>2, ClosedConcat DEF Locked
<1>. QED  BY <1>1, <1>3, LockedTidy DEF Sealed

LEMMA SealedLoose ==
  ASSUME NEW s, Sealed(s)
  PROVE  TidySteps(s, FALSE, {})
BY DEF Sealed, TidySteps, Tidy

(* A sealed part among steps without jumps.                                *)
LEMMA CalmAround ==
  ASSUME NEW a, NEW b, NEW v, Calm(a), Calm(b), Sealed(v)
  PROVE  TidySteps((a \o v) \o b, FALSE, {}) /\ Closed((a \o v) \o b) /\ (a \o v) \o b \in Steps
<1>1. Calm((a \o << Gap >>) \o b)
  BY PlainSteps, CalmOne, CalmConcat
<1>2. a \in Steps /\ b \in Steps /\ v \in Steps /\ a \o v \in Steps /\ (a \o v) \o b \in Steps
  BY ConcatSteps DEF Calm, Sealed
<1>3. Closed((a \o v) \o b)
  BY <1>2, CalmTidy, ClosedConcat DEF Sealed
<1>. QED  BY <1>1, <1>2, <1>3, CalmTidy, FillGap DEF Sealed

LEMMA CalmBefore ==
  ASSUME NEW a, NEW v, Calm(a), Sealed(v)
  PROVE  TidySteps(a \o v, FALSE, {}) /\ Closed(a \o v) /\ a \o v \in Steps
<1>1. Calm(<< >>)
  BY DEF Calm, Steps
<1>2. a \o v \in Steps
  BY ConcatSteps DEF Calm, Sealed
<1>3. (a \o v) \o << >> = a \o v
  BY <1>2 DEF Steps
<1>. QED  BY <1>1, <1>3, CalmAround

(* Visitors that emit no jump.                                             *)
LEMMA SealedParts ==
  /\ Sealed(Locked(<< Expr >>)) /\ Sealed(Locked(<< Stmt >>)) /\ Sealed(Block)
  /\ Sealed(Locked(Called(<< Enter, Leave, Expr >>)))
<1>. USE PlainSteps
<1>1. Calm(<< Expr >>) /\ Calm(<< Stmt >>)
  BY CalmOne
<1>2. Calm(<< Enter, Do("stmts"), Leave >>) /\ Calm(<< Enter, Leave, Expr >>)
  <2>1. << Enter, Do("stmts"), Leave >> = << Enter, Do("stmts") >> \o << Leave >>
    OBVIOUS
  <2>2. << Enter, Leave, Expr >> = << Enter, Leave >> \o << Expr >>
    OBVIOUS
  <2>3. Calm(<< Enter, Do("stmts") >> \o << Leave >>)
    BY CalmTwo, CalmOne, CalmConcat
  <2>4. Calm(<< Enter, Leave >> \o << Expr >>)
    BY CalmTwo, CalmOne, CalmConcat
  <2>. QED  BY <2>1, <2>2, <2>3, <2>4
<1>3. Sealed(Locked(<< Expr >>)) /\ Sealed(Locked(<< Stmt >>)) /\ Sealed(Block)
      /\ Sealed(Locked(<< Enter, Leave, Expr >>))
  BY <1>1, <1>2, CalmTidy, LockedSealed DEF Block
<1>4. Calm(<< Enter, Alloc, Alloc, Alloc >>) /\ Calm(<< Do("jzraise"), Leave >>)
  <2>1. << Enter, Alloc, Alloc, Alloc >> = << Enter, Alloc >> \o << Alloc, Alloc >>
    OBVIOUS
  <2>2. Calm(<< Enter, Alloc >> \o << Alloc, Alloc >>) /\ Calm(<< Do("jzraise"), Leave >>)
    BY CalmTwo, CalmConcat
  <2>. QED  BY <2>1, <2>2
<1>5. /\ TidySteps(Called(<< Enter, Leave, Expr >>), FALSE, {})
      /\ Closed(Called(<< Enter, Leave, Expr >>)) /\ Called(<< Enter, Leave, Expr >>) \in Steps
  BY <1>3, <1>4, CalmAround DEF Called
<1>. QED  BY <1>3, <1>5, LockedSealed

LEMMA PlainTidy ==
  /\ TidySteps(Identifier, FALSE, {}) /\ TidySteps(CallNoParameter, FALSE, {})
  /\ TidySteps(CallWithParameters, FALSE, {}) /\ TidySteps(<< >>, FALSE, {})
  /\ TidySteps(BlockStmt, FALSE, {}) /\ TidySteps(ExprStmt, FALSE, {}) /\ TidySteps(Var, FALSE, {})
  /\ TidySteps(Return, FALSE, {}) /\ TidySteps(ReturnVoid, FALSE, {}) /\ TidySteps(Raise, FALSE, {})
<1>. USE PlainSteps
<1>1. Calm(<< Enter, Alloc, Alloc, Alloc >>) /\ Calm(<< Do("jzraise"), Leave >>)
  <2>1. << Enter, Alloc, Alloc, Alloc >> = << Enter, Alloc >> \o << Alloc, Alloc >>
    OBVIOUS
  <2>2. Calm(<< Enter, Alloc >> \o << Alloc, Alloc >>) /\ Calm(<< Do("jzraise"), Leave >>)
    BY CalmTwo, CalmConcat
  <2>. QED  BY <2>1, <2>2
<1>2. TidySteps(Identifier, FALSE, {})
  <2>1. << Enter, Alloc, Leave >> = << Enter, Alloc >> \o << Leave >>
    OBVIOUS
  <2>2. Calm(<< Enter, Alloc >> \o << Leave >>)
    BY CalmOne, CalmTwo, CalmConcat
  <2>. QED  BY <2>1, <2>2, CalmTidy DEF Identifier
<1>3. TidySteps(CallNoParameter, FALSE, {})
  <2>1. CallNoParameter = << Enter, Alloc, Alloc, Alloc >> \o << Do("jzraise"), Leave >>
    BY DEF CallNoParameter
  <2>. QED  BY <1>1, <2>1, CalmConcat, CalmTidy
<1>4. TidySteps(CallWithParameters, FALSE, {})
  BY <1>1, SealedParts, CalmAround DEF CallWithParameters, Called
<1>5. TidySteps(<< >>, FALSE, {})
  <2>1. Calm(<< >>)
    BY DEF Calm, Steps
  <2>. QED  BY <2>1, CalmTidy
<1>6. TidySteps(BlockStmt, FALSE, {})
  <2>1. Calm(<< Enter >>) /\ Calm(<< Leave >>)
    BY CalmOne
  <2>2. Sealed(BlockStmt)
    BY <2>1, SealedParts, CalmAround, LockedSealed DEF BlockStmt
  <2>. QED  BY <2>2, SealedLoose
<1>7. TidySteps(ExprStmt, FALSE, {})
  BY SealedParts, SealedLoose DEF ExprStmt
<1>8. TidySteps(Var, FALSE, {})
  <2>1. Calm(<< Alloc >>)
    BY CalmOne
  <2>. QED  BY <2>1, SealedParts, CalmBefore DEF Var
<1>9. TidySteps(Return, FALSE, {}) /\ TidySteps(Raise, FALSE, {})
  <2>1. << Expr, Alloc, Emit("ret") >> = << Expr, Alloc >> \o << Emit("ret") >>
    OBVIOUS
  <2>2. Calm(<< Expr, Alloc >> \o << Emit("ret") >>) /\ Calm(<< Expr, Emit("raise") >>)
    BY CalmOne, CalmTwo, CalmConcat
  <2>3. Sealed(Return) /\ Sealed(Raise)
    BY <2>1, <2>2, CalmTidy, LockedSealed DEF Return, Raise
  <2>. QED  BY <2>3, SealedLoose
<1>10. TidySteps(ReturnVoid, FALSE, {})
  BY CalmOne, CalmTidy DEF ReturnVoid
<1>. QED  BY <1>2, <1>3, <1>4, <1>5, <1>6, <1>7, <1>8, <1>9, <1>10

(* No register is declared between the jumps, at J, and the labels, at L.  *)
LEMMA RowTidy ==
  ASSUME NEW s \in Steps, NEW J, NEW L,
         \A k \in DOMAIN s : /\ Plain(s[k])
                             /\ s[k].do = "jump" => k \in J
                             /\ s[k].do = "label" => k \in L,
         \A i \in J, t \in L, j \in DOMAIN s : i < j /\ j < t => ~ Loose(s[j])
  PROVE  TidySteps(s, FALSE, {})
<1>1. Flat(s, {})
  BY DEF Flat, Plain
<1>. QED  BY <1>1, FlatTidy

LEMMA TaggedSteps ==
  ASSUME NEW at \in Nat, NEW name \in Names, NEW op \in Jumps
  PROVE  /\ Plain(Label(at, name)) /\ Label(at, name).do = "label" /\ ~ Loose(Label(at, name))
         /\ Plain(Jump(op, at, name)) /\ Jump(op, at, name).do = "jump" /\ ~ Loose(Jump(op, at, name))
         /\ Label(at, name).tag = << at, name >> /\ Jump(op, at, name).tag = << at, name >>
<1>1. Label(at, name) \in Step /\ Jump(op, at, name) \in Step
  BY TaggedStep DEF Jumps
<1>2. Label(at, name).do = "label" /\ Label(at, name).tag = << at, name >>
  BY DEF Label
<1>3. Jump(op, at, name).do = "jump" /\ Jump(op, at, name).tag = << at, name >>
  BY DEF Jump
<1>. QED  BY <1>1, <1>2, <1>3 DEF Plain, Loose

LEMMA NotQuiet ==
  ASSUME NEW s, NEW out, TidySteps(s, TRUE, out)
  PROVE  TidySteps(s, FALSE, out)
BY DEF TidySteps, Tidy

LEMMA IfTidy ==
  ASSUME NEW at \in Nat
  PROVE  TidySteps(If(at, << Expr >>, << Stmt >>), FALSE, {})
<1>. DEFINE jump == Jump("jz", at, "end")
            label == Label(at, "end")
            p1 == << AllocBool >>
            g == << Gap >>
            p3 == << jump >>
            p5 == << label >>
            s == (((p1 \o g) \o p3) \o g) \o p5
<1>1. /\ Plain(AllocBool) /\ AllocBool.do \notin {"jump", "label"}
      /\ Plain(Gap) /\ Gap.do \notin {"jump", "label"} /\ ~ Loose(Gap)
      /\ Plain(jump) /\ jump.do = "jump" /\ Plain(label) /\ label.do = "label"
  <2>1. "end" \in Names /\ "while" \in Names /\ "jz" \in Jumps /\ "jmp" \in Jumps /\ "jnz" \in Jumps
    BY DEF Names, Jumps
  <2>2. Tame(AllocBool) /\ Tame(Gap) /\ ~ Loose(Gap)
    BY PlainSteps
  <2>. QED  BY <2>1, <2>2, TaggedSteps DEF Tame
<1>. HIDE DEF jump, label
<1>2. /\ AllocBool \in Step /\ Gap \in Step /\ jump \in Step /\ label \in Step
  BY <1>1 DEF Plain
<1>3. /\ s \in Seq(Step) /\ Len(s) = 5 /\ s[1] = AllocBool /\ s[2] = Gap /\ s[3] = jump
      /\ s[4] = Gap /\ s[5] = label
  BY <1>2
<1>4. p1 \in Steps /\ p3 \in Steps /\ p5 \in Steps
  BY <1>2, FewSteps
<1>. HIDE DEF s, p1, p3, p5
<1>5. s \in Steps /\ DOMAIN s = 1 .. 5 /\ \A k \in 1 .. 5 : k = 1 \/ k = 2 \/ k = 3 \/ k = 4 \/ k = 5
  BY <1>3 DEF Steps
<1>6. \A k \in DOMAIN s : /\ Plain(s[k])
                          /\ s[k].do = "jump" => k \in {3}
                          /\ s[k].do = "label" => k \in {5}
  BY <1>1, <1>3, <1>5
<1>7. \A i \in {3}, t \in {5}, j \in DOMAIN s : i < j /\ j < t => ~ Loose(s[j])
  BY <1>1, <1>3, <1>5
<1>8. TidySteps(s, FALSE, {})
  BY <1>5, <1>6, <1>7, RowTidy
<1>. DEFINE p2 == Locked(<< Expr >>)
            p4 == Locked(<< Stmt >>)
<1>9. p2 \in Steps /\ p4 \in Steps /\ TidySteps(p2, TRUE, {}) /\ Closed(p2)
      /\ TidySteps(p4, TRUE, {}) /\ Closed(p4)
  BY SealedParts DEF Sealed
<1>. HIDE DEF p2, p4
<1>10. TidySteps((((p1 \o p2) \o p3) \o p4) \o p5, FALSE, {})
  BY <1>4, <1>8, <1>9, FillTwo, Zenon DEF s
<1>. QED  BY <1>10 DEF If, p1, p2, p3, p4, p5, jump, label

LEMMA DoWhileTidy ==
  ASSUME NEW at \in Nat
  PROVE  TidySteps(DoWhile(at), FALSE, {})
<1>. DEFINE jump == Jump("jnz", at, "while")
            label == Label(at, "while")
            p1 == << label >>
            g == << Gap >>
            p3 == << AllocBool >>
            p5 == << jump >>
            s == (((p1 \o g) \o p3) \o g) \o p5
<1>1. /\ Plain(AllocBool) /\ AllocBool.do \notin {"jump", "label"}
      /\ Plain(Gap) /\ Gap.do \notin {"jump", "label"}
      /\ Plain(jump) /\ jump.do = "jump" /\ Plain(label) /\ label.do = "label"
  <2>1. "end" \in Names /\ "while" \in Names /\ "jz" \in Jumps /\ "jmp" \in Jumps /\ "jnz" \in Jumps
    BY DEF Names, Jumps
  <2>2. Tame(AllocBool) /\ Tame(Gap) /\ ~ Loose(Gap)
    BY PlainSteps
  <2>. QED  BY <2>1, <2>2, TaggedSteps DEF Tame
<1>. HIDE DEF jump, label
<1>2. /\ AllocBool \in Step /\ Gap \in Step /\ jump \in Step /\ label \in Step
  BY <1>1 DEF Plain
<1>3. /\ s \in Seq(Step) /\ Len(s) = 5 /\ s[1] = label /\ s[2] = Gap /\ s[3] = AllocBool
      /\ s[4] = Gap /\ s[5] = jump
  BY <1>2
<1>4. p1 \in Steps /\ p3 \in Steps /\ p5 \in Steps
  BY <1>2, FewSteps
<1>. HIDE DEF s, p1, p3, p5
<1>5. s \in Steps /\ DOMAIN s = 1 .. 5 /\ \A k \in 1 .. 5 : k = 1 \/ k = 2 \/ k = 3 \/ k = 4 \/ k = 5
  BY <1>3 DEF Steps
<1>6. \A k \in DOMAIN s : /\ Plain(s[k])
                          /\ s[k].do = "jump" => k \in {5}
                          /\ s[k].do = "label" => k \in {1}
  BY <1>1, <1>3, <1>5
<1>7. \A i \in {5}, t \in {1}, j \in DOMAIN s : i < j /\ j < t => ~ Loose(s[j])
  BY <1>5
<1>8. TidySteps(s, FALSE, {})
  BY <1>5, <1>6, <1>7, RowTidy
<1>. DEFINE p2 == Locked(<< Stmt >>)
            p4 == Locked(<< Expr >>)
<1>9. p2 \in Steps /\ p4 \in Steps /\ TidySteps(p2, TRUE, {}) /\ Closed(p2)
      /\ TidySteps(p4, TRUE, {}) /\ Closed(p4)
  BY SealedParts DEF Sealed
<1>. HIDE DEF p2, p4
<1>. DEFINE c == (((p1 \o p2) \o p3) \o p4) \o p5
<1>10. TidySteps(c, FALSE, {}) /\ c \in Steps
  BY <1>4, <1>8, <1>9, FillTwo, ConcatSteps, Zenon DEF s
<1>. HIDE DEF c
<1>11. TidySteps(Locked(c), FALSE, {})
  BY <1>10, LockedTidy, NotQuiet
<1>. QED  BY <1>11 DEF DoWhile, c, p1, p2, p3, p4, p5, jump, label

LEMMA WhileTidy ==
  ASSUME NEW at \in Nat
  PROVE  TidySteps(While(at), FALSE, {})
<1>. DEFINE jz == Jump("jz", at, "end")
            jmp == Jump("jmp", at, "while")
            again == Label(at, "while")
            label == Label(at, "end")
            p1 == << again, AllocBool >>
            g == << Gap >>
            p3 == << jz >>
            p5 == << jmp, label >>
            s == (((p1 \o g) \o p3) \o g) \o p5
<1>1. /\ Plain(AllocBool) /\ AllocBool.do \notin {"jump", "label"}
      /\ Plain(Gap) /\ Gap.do \notin {"jump", "label"} /\ ~ Loose(Gap)
      /\ Plain(jz) /\ jz.do = "jump" /\ Plain(jmp) /\ jmp.do = "jump" /\ ~ Loose(jmp)
      /\ Plain(again) /\ again.do = "label" /\ Plain(label) /\ label.do = "label"
  <2>1. "end" \in Names /\ "while" \in Names /\ "jz" \in Jumps /\ "jmp" \in Jumps /\ "jnz" \in Jumps
    BY DEF Names, Jumps
  <2>2. Tame(AllocBool) /\ Tame(Gap) /\ ~ Loose(Gap)
    BY PlainSteps
  <2>. QED  BY <2>1, <2>2, TaggedSteps DEF Tame
<1>. HIDE DEF jz, jmp, again, label
<1>2. /\ AllocBool \in Step /\ Gap \in Step /\ jz \in Step /\ jmp \in Step /\ again \in Step
      /\ label \in Step
  BY <1>1 DEF Plain
<1>3. /\ s \in Seq(Step) /\ Len(s) = 7 /\ s[1] = again /\ s[2] = AllocBool /\ s[3] = Gap
      /\ s[4] = jz /\ s[5] = Gap /\ s[6] = jmp /\ s[7] = label
  BY <1>2
<1>4. p1 \in Steps /\ p3 \in Steps /\ p5 \in Steps
  BY <1>2, FewSteps
<1>. HIDE DEF s, p1, p3, p5
<1>5. /\ s \in Steps /\ DOMAIN s = 1 .. 7
      /\ \A k \in 1 .. 7 : k = 1 \/ k = 2 \/ k = 3 \/ k = 4 \/ k = 5 \/ k = 6 \/ k = 7
  BY <1>3 DEF Steps
<1>6. \A k \in DOMAIN s : /\ Plain(s[k])
                          /\ s[k].do = "jump" => k \in {4, 6}
                          /\ s[k].do = "label" => k \in {1, 7}
  BY <1>1, <1>3, <1>5
<1>7. \A i \in {4, 6}, t \in {1, 7}, j \in DOMAIN s : i < j /\ j < t => ~ Loose(s[j])
  BY <1>1, <1>3, <1>5
<1>8. TidySteps(s, FALSE, {})
  <2>1. Flat(s, {})
    BY <1>5, <1>6, <1>7 DEF Flat, Plain
  <2>. QED  BY <2>1, FlatTidy
<1>. DEFINE p2 == Locked(<< Expr >>)
            p4 == Locked(<< Stmt >>)
<1>9. p2 \in Steps /\ p4 \in Steps /\ TidySteps(p2, TRUE, {}) /\ Closed(p2)
      /\ TidySteps(p4, TRUE, {}) /\ Closed(p4)
  BY SealedParts DEF Sealed
<1>. HIDE DEF p2, p4
<1>. DEFINE c == (((p1 \o p2) \o p3) \o p4) \o p5
<1>10. TidySteps(c, FALSE, {}) /\ c \in Steps
  BY <1>4, <1>8, <1>9, FillTwo, ConcatSteps, Zenon DEF s
<1>. HIDE DEF c
<1>11. TidySteps(Locked(c), FALSE, {})
  BY <1>10, LockedTidy, NotQuiet
<1>. QED  BY <1>11 DEF While, c, p1, p2, p3, p4, p5, jz, jmp, again, label

(* A case: its jump to the end of the switch leaves no object.             *)
LEMMA CaseTidy ==
  ASSUME NEW at \in Nat, NEW name \in Names
  PROVE  TidySteps(Case(at, name), TRUE, {<< at, "end" >>})
<1>. DEFINE jz == Jump("jz", at, name)
            jmp == Jump("jmp", at, "end")
            label == Label(at, name)
            p1 == << AllocBool >>
            g == << Gap >>
            p3 == << jz >>
            p5 == << jmp, label >>
            s == (((p1 \o g) \o p3) \o g) \o p5
            out == {<< at, "end" >>}
<1>1. /\ Plain(AllocBool) /\ AllocBool.do \notin {"jump", "label"} /\ ~ Holds(AllocBool)
      /\ Plain(Gap) /\ Gap.do \notin {"jump", "label"} /\ ~ Loose(Gap)
      /\ Plain(jz) /\ jz.do = "jump" /\ ~ Loose(jz) /\ Plain(jmp) /\ jmp.do = "jump" /\ ~ Loose(jmp)
      /\ Plain(label) /\ label.do = "label" /\ ~ Loose(label)
  <2>1. ~ Holds(AllocBool)
    BY DEF Holds, AllocBool
  <2>2. "end" \in Names /\ "jz" \in Jumps /\ "jmp" \in Jumps
    BY DEF Names, Jumps
  <2>3. Tame(AllocBool) /\ Tame(Gap) /\ ~ Loose(Gap)
    BY PlainSteps
  <2>. QED  BY <2>1, <2>2, <2>3, TaggedSteps DEF Tame
<1>. HIDE DEF jz, jmp, label, out
<1>2. /\ AllocBool \in Step /\ Gap \in Step /\ jz \in Step /\ jmp \in Step /\ label \in Step
  BY <1>1 DEF Plain
<1>3. /\ s \in Seq(Step) /\ Len(s) = 6 /\ s[1] = AllocBool /\ s[2] = Gap /\ s[3] = jz
      /\ s[4] = Gap /\ s[5] = jmp /\ s[6] = label
  BY <1>2
<1>4. p1 \in Steps /\ p3 \in Steps /\ p5 \in Steps
  BY <1>2, FewSteps
<1>. HIDE DEF s, p1, p3, p5
<1>5. /\ s \in Steps /\ DOMAIN s = 1 .. 6
      /\ \A k \in 1 .. 6 : k = 1 \/ k = 2 \/ k = 3 \/ k = 4 \/ k = 5 \/ k = 6
  BY <1>3 DEF Steps
<1>6. \A k \in DOMAIN s : /\ Plain(s[k]) /\ ~ Holds(s[k])
                          /\ s[k].do = "jump" => k \in {3, 5}
                          /\ s[k].do = "label" => k \in {6}
                          /\ Loose(s[k]) => k \in {1}
  <2>1. \A y : ~ Loose(y) => ~ Holds(y)
    BY DEF Holds
  <2>. QED  BY <1>1, <1>3, <1>5, <2>1
<1>7. Flat(s, out)
  <2>1. \A i \in {3, 5}, t \in {6}, j \in {1} : ~ (i < j /\ j < t)
    OBVIOUS
  <2>. QED  BY <1>5, <1>6, <2>1 DEF Flat, Plain
<1>8. TidySteps(s, FALSE, out)
  BY <1>7, FlatTidy
<1>. DEFINE p2 == Locked(Called(<< Enter, Leave, Expr >>))
            p4 == Locked(<< Stmt >>)
<1>9. p2 \in Steps /\ p4 \in Steps /\ TidySteps(p2, TRUE, {}) /\ Closed(p2)
      /\ TidySteps(p4, TRUE, {}) /\ Closed(p4)
  BY SealedParts DEF Sealed
<1>. HIDE DEF p2, p4
<1>. DEFINE c == (((p1 \o p2) \o p3) \o p4) \o p5
<1>10. TidySteps(c, FALSE, out) /\ c \in Steps
  BY <1>4, <1>8, <1>9, FillTwo, ConcatSteps, Zenon DEF s
<1>. HIDE DEF c
<1>11. TidySteps(Locked(c), TRUE, out)
  BY <1>10, LockedTidy
<1>. QED  BY <1>11 DEF Case, c, p1, p2, p3, p4, p5, jz, jmp, label, out

LEMMA IfElseTidy ==
  ASSUME NEW at \in Nat, NEW clause, Sealed(Locked(clause))
  PROVE  TidySteps(IfElse(at, clause), FALSE, {})
<1>. DEFINE jz == Jump("jz", at, "else")
            jmp == Jump("jmp", at, "end")
            other == Label(at, "else")
            label == Label(at, "end")
            p1 == << AllocBool >>
            g == << Gap >>
            p3 == << jz >>
            p5 == << jmp, other >>
            p6 == << label >>
            s == (((((p1 \o g) \o p3) \o g) \o p5) \o g) \o p6
<1>1. /\ Plain(AllocBool) /\ AllocBool.do \notin {"jump", "label"}
      /\ Plain(Gap) /\ Gap.do \notin {"jump", "label"} /\ ~ Loose(Gap)
      /\ Plain(jz) /\ jz.do = "jump" /\ Plain(jmp) /\ jmp.do = "jump" /\ ~ Loose(jmp) /\ ~ Loose(jz)
      /\ Plain(other) /\ other.do = "label" /\ Plain(label) /\ label.do = "label" /\ ~ Loose(other)
      /\ ~ Loose(label)
  <2>1. "end" \in Names /\ "else" \in Names /\ "jz" \in Jumps /\ "jmp" \in Jumps
    BY DEF Names, Jumps
  <2>2. Tame(AllocBool) /\ Tame(Gap) /\ ~ Loose(Gap)
    BY PlainSteps
  <2>. QED  BY <2>1, <2>2, TaggedSteps DEF Tame
<1>. HIDE DEF jz, jmp, other, label
<1>2. /\ AllocBool \in Step /\ Gap \in Step /\ jz \in Step /\ jmp \in Step /\ other \in Step
      /\ label \in Step
  BY <1>1 DEF Plain
<1>3. /\ s \in Seq(Step) /\ Len(s) = 8 /\ s[1] = AllocBool /\ s[2] = Gap /\ s[3] = jz
      /\ s[4] = Gap /\ s[5] = jmp /\ s[6] = other /\ s[7] = Gap /\ s[8] = label
  BY <1>2
<1>4. p1 \in Steps /\ p3 \in Steps /\ p5 \in Steps /\ p6 \in Steps /\ g \in Steps
  BY <1>2, FewSteps
<1>. HIDE DEF s, p1, p3, p5, p6
<1>5. /\ s \in Steps /\ DOMAIN s = 1 .. 8
      /\ \A k \in 1 .. 8 : k = 1 \/ k = 2 \/ k = 3 \/ k = 4 \/ k = 5 \/ k = 6 \/ k = 7 \/ k = 8
  BY <1>3 DEF Steps
<1>6. \A k \in DOMAIN s : /\ Plain(s[k])
                          /\ s[k].do = "jump" => k \in {3, 5}
                          /\ s[k].do = "label" => k \in {6, 8}
                          /\ Loose(s[k]) => k \in {1}
  BY <1>1, <1>3, <1>5
<1>7. Flat(s, {})
  BY <1>5, <1>6 DEF Flat, Plain
<1>8. TidySteps(s, FALSE, {})
  BY <1>7, FlatTidy
<1>. DEFINE p2 == Locked(<< Expr >>)
            p4 == Locked(clause)
<1>9. p2 \in Steps /\ p4 \in Steps /\ TidySteps(p2, TRUE, {}) /\ Closed(p2)
      /\ TidySteps(p4, TRUE, {}) /\ Closed(p4)
  BY SealedParts DEF Sealed
<1>. HIDE DEF p2, p4, g
<1>. DEFINE q == (((p1 \o g) \o p3) \o g) \o p5
<1>10. q \in Steps /\ s = (q \o g) \o p6
  BY <1>4, ConcatSteps DEF s
<1>. HIDE DEF q
<1>11. TidySteps((q \o p4) \o p6, FALSE, {})
  BY <1>4, <1>8, <1>9, <1>10, FillGap, Zenon DEF g
<1>12. (q \o p4) \o p6 = ((((p1 \o g) \o p3) \o g) \o ((p5 \o p4) \o p6))
  <2>. DEFINE r == ((p1 \o g) \o p3) \o g
  <2>. DEFINE m == p5 \o p4
  <2>1. r \in Steps /\ m \in Steps
    BY <1>4, <1>9, ConcatSteps
  <2>2. q = r \o p5
    BY DEF q
  <2>. HIDE DEF r
  <2>3. (r \o p5) \o p4 = r \o m
    BY <1>4, <1>9, <2>1, SMTT(30) DEF Steps
  <2>. HIDE DEF m
  <2>4. (r \o m) \o p6 = r \o (m \o p6)
    BY <1>4, <2>1, SMTT(30) DEF Steps
  <2>. QED  BY <2>2, <2>3, <2>4, Zenon DEF r, m
<1>13. (p5 \o p4) \o p6 \in Steps
  BY <1>4, <1>9, ConcatSteps
<1>14. TidySteps((((p1 \o p2) \o p3) \o p4) \o ((p5 \o p4) \o p6), FALSE, {})
  BY <1>4, <1>9, <1>11, <1>12, <1>13, FillTwo, Zenon DEF g
<1>15. (((p1 \o p2) \o p3) \o p4) \o ((p5 \o p4) \o p6)
         = (((((p1 \o p2) \o p3) \o p4) \o p5) \o p4) \o p6
  BY <1>4, <1>9, SMTT(30) DEF Steps
<1>. QED  BY <1>14, <1>15, Zenon DEF IfElse, p1, p2, p3, p4, p5, p6, jz, jmp, other, label

LEMMA ShortCircuitTidy ==
  ASSUME NEW at \in Nat
  PROVE  TidySteps(ShortCircuit(at), FALSE, {})
<1>. DEFINE later == AllocAt("alloc later", at, "sc")
            jz == Jump("jz", at, "sc")
            label == Label(at, "sc")
            p1 == << Expr, later, jz >>
            g == << Gap >>
            p3 == << label, Do("reserve") >>
            s == (p1 \o g) \o p3
<1>1. /\ Tame(Expr) /\ Tame(later) /\ Tame(Gap) /\ ~ Loose(Gap) /\ Tame(Do("reserve"))
      /\ Plain(jz) /\ jz.do = "jump" /\ Plain(label) /\ label.do = "label"
  <2>1. "sc" \in Names /\ "jz" \in Jumps
    BY DEF Names, Jumps
  <2>2. Tame(Expr) /\ Tame(Gap) /\ ~ Loose(Gap) /\ Tame(Do("reserve"))
    BY PlainSteps
  <2>3. Tame(later)
    <3>1. later \in Step
      BY <2>1, TaggedStep
    <3>. QED  BY <3>1 DEF Tame, Plain, AllocAt
  <2>. QED  BY <2>1, <2>2, <2>3, TaggedSteps
<1>. DEFINE reserve == Do("reserve")
<1>. HIDE DEF later, jz, label, reserve
<1>2. /\ Expr \in Step /\ Gap \in Step /\ later \in Step /\ jz \in Step /\ label \in Step
      /\ reserve \in Step /\ reserve.do \notin {"jump", "label"} /\ Plain(reserve)
  BY <1>1 DEF Plain, Tame, reserve
<1>3. /\ s \in Seq(Step) /\ Len(s) = 6 /\ s[1] = Expr /\ s[2] = later /\ s[3] = jz
      /\ s[4] = Gap /\ s[5] = label /\ s[6] = reserve
  BY <1>2 DEF reserve
<1>4. p1 \in Steps /\ p3 \in Steps
  BY <1>2, FewSteps DEF reserve
<1>. HIDE DEF s, p1, p3
<1>5. /\ s \in Steps /\ DOMAIN s = 1 .. 6
      /\ \A k \in 1 .. 6 : k = 1 \/ k = 2 \/ k = 3 \/ k = 4 \/ k = 5 \/ k = 6
  BY <1>3 DEF Steps
<1>6. \A k \in DOMAIN s : /\ Plain(s[k])
                          /\ s[k].do = "jump" => k = 3
                          /\ s[k].do = "label" => k = 5
  BY <1>1, <1>2, <1>3, <1>5 DEF Tame
<1>7. Flat(s, {})
  <2>1. \A j \in DOMAIN s : 3 < j /\ j < 5 => ~ Loose(s[j])
    BY <1>1, <1>3, <1>5
  <2>. QED  BY <1>5, <1>6, <2>1 DEF Flat, Plain
<1>8. TidySteps(s, FALSE, {})
  BY <1>7, FlatTidy
<1>. DEFINE p2 == Locked(<< Expr >>)
            c == (p1 \o p2) \o p3
<1>9. p2 \in Steps /\ TidySteps(p2, TRUE, {}) /\ Closed(p2)
  BY SealedParts DEF Sealed
<1>. HIDE DEF p2
<1>10. TidySteps(c, FALSE, {}) /\ c \in Steps
  BY <1>4, <1>8, <1>9, FillGap, ConcatSteps, Zenon DEF s
<1>. HIDE DEF c
<1>11. TidySteps(Locked(c), FALSE, {}) /\ Locked(c) \in Steps
  BY <1>10, LockedTidy, LockedSteps, NotQuiet
<1>12. Calm(<< Enter, Alloc, Alloc, Alloc, Alloc >>) /\ Calm(<< Alloc, Leave >>) /\ Calm(<< Stmt >>)
  <2>1. << Enter, Alloc, Alloc, Alloc, Alloc >> = (<< Enter, Alloc >> \o << Alloc, Alloc >>) \o << Alloc >>
    OBVIOUS
  <2>2. Calm((<< Enter, Alloc >> \o << Alloc, Alloc >>) \o << Alloc >>)
    BY PlainSteps, CalmOne, CalmTwo, CalmConcat
  <2>3. Calm(<< Alloc, Leave >>) /\ Calm(<< Stmt >>)
    BY PlainSteps, CalmOne, CalmTwo
  <2>. QED  BY <2>1, <2>2, <2>3
<1>13. TidySteps((<< Enter, Alloc, Alloc, Alloc, Alloc >> \o Locked(c)) \o << Alloc, Leave >>, FALSE, {})
  <2>1. TidySteps((<< Enter, Alloc, Alloc, Alloc, Alloc >> \o << Stmt >>) \o << Alloc, Leave >>, FALSE, {})
    BY <1>12, CalmConcat, CalmTidy
  <2>. QED  BY <1>11, <1>12, <2>1, CalmTidy, Around
<1>. QED  BY <1>13 DEF ShortCircuit, c, p1, p2, p3, later, jz, label

LEMMA IfExprTidy ==
  ASSUME NEW at \in Nat
  PROVE  TidySteps(IfExpr(at), FALSE, {})
<1>1. TidySteps(IfElse(at, << Expr >>), FALSE, {}) /\ IfElse(at, << Expr >>) \in Steps
  BY SealedParts, IfElseTidy, IfElsePart, OrdinaryParts DEF Part
<1>2. Calm(<< Enter, Alloc >>) /\ Calm(<< Leave >>) /\ Calm(<< Stmt >>)
  BY PlainSteps, CalmOne, CalmTwo
<1>3. TidySteps((<< Enter, Alloc >> \o << Stmt >>) \o << Leave >>, FALSE, {})
  BY <1>2, CalmConcat, CalmTidy
<1>. QED  BY <1>1, <1>2, <1>3, CalmTidy, Around DEF IfExpr

(* Another statement in a block.                                           *)
LEMMA MoreTidy ==
  ASSUME NEW s \in Steps, TidySteps(s, FALSE, {})
  PROVE  TidySteps(s \o << Do("stmts") >>, FALSE, {})
<1>1. Calm(<< >>)
  BY DEF Calm, Steps
<1>2. Calm(<< Do("stmts") >>) /\ Calm(<< Stmt >>)
  BY PlainSteps, CalmOne
<1>3. TidySteps((<< >> \o << Stmt >>) \o << Do("stmts") >>, FALSE, {})
  BY <1>1, <1>2, CalmConcat, CalmTidy
<1>4. TidySteps((<< >> \o s) \o << Do("stmts") >>, FALSE, {})
  BY <1>1, <1>2, <1>3, CalmTidy, Around
<1>5. << >> \o s = s
  BY DEF Steps
<1>. QED  BY <1>4, <1>5

LEMMA FuncTidy == TidySteps(Func, FALSE, {})
<1>1. Calm(<< Alloc >>) /\ Calm(<< Do("finish") >>)
  BY PlainSteps, CalmOne
<1>. QED  BY <1>1, SealedParts, CalmAround DEF Func

LEMMA CaseUses ==
  ASSUME NEW at \in Nat, NEW name \in Names, name # "end", NEW tag, Uses(Case(at, name), tag)
  PROVE  \/ tag = << at, name >>
         \/ tag = << at, "end" >> /\ ~ Named(Case(at, name), tag)
<1>. DEFINE s == Case(at, name)
<1>1. Part(s, at, {name}, {name, "end"}) /\ Uses(s, tag)
  BY CasePart
<1>. HIDE DEF s
<1>2. PICK k \in DOMAIN s : s[k].do \in {"jump", "label"} /\ s[k].tag = tag
  BY <1>1 DEF Uses
<1>3. s[k].tag = << at, s[k].tag[2] >> /\ s[k].tag[2] \in {name, "end"}
  BY <1>1, <1>2 DEF Part, Ordinary
<1>4. CASE s[k].tag[2] = name
  BY <1>2, <1>3, <1>4
<1>5. CASE s[k].tag[2] = "end"
  <2>1. tag = << at, "end" >>
    BY <1>2, <1>3, <1>5
  <2>2. ASSUME NEW m \in DOMAIN s, s[m].do = "label", s[m].tag = tag PROVE FALSE
    <3>1. s[m].tag[2] = name
      BY <1>1, <2>2 DEF Part, Ordinary
    <3>. QED  BY <1>2, <1>5, <2>2, <3>1
  <2>. QED  BY <2>1, <2>2 DEF Named, s
<1>. QED  BY <1>3, <1>4, <1>5

LEMMA SwitchOf ==
  ASSUME NEW at \in Nat, NEW n1 \in Names, NEW n2 \in Names, n1 # "end", n2 # "end", n1 # n2
  PROVE  TidySteps(Locked(((<< AllocBool, Expr >> \o Case(at, n1)) \o Case(at, n2))
                             \o << Label(at, "end") >>), FALSE, {})
<1>. DEFINE x == Jump("jmp", at, "end")
            label == Label(at, "end")
            z == << x >>
            p1 == << AllocBool, Expr >>
            p4 == << label >>
            c1 == Case(at, n1)
            c2 == Case(at, n2)
            out == {<< at, "end" >>}
            s == ((p1 \o z) \o z) \o p4
<1>1. /\ Tame(AllocBool) /\ Tame(Expr)
      /\ Plain(x) /\ x.do = "jump" /\ ~ Loose(x) /\ x.tag = << at, "end" >>
      /\ Plain(label) /\ label.do = "label" /\ label.tag = << at, "end" >>
  <2>1. "end" \in Names /\ "jmp" \in Jumps
    BY DEF Names, Jumps
  <2>. QED  BY <2>1, PlainSteps, TaggedSteps
<1>. HIDE DEF x, label
<1>2. AllocBool \in Step /\ Expr \in Step /\ x \in Step /\ label \in Step
  BY <1>1 DEF Plain, Tame
<1>3. /\ s \in Seq(Step) /\ Len(s) = 5 /\ s[1] = AllocBool /\ s[2] = Expr /\ s[3] = x
      /\ s[4] = x /\ s[5] = label
  BY <1>2
<1>4. p1 \in Steps /\ p4 \in Steps /\ z \in Steps
  BY <1>2, FewSteps
<1>5. /\ \A tag : ~ Uses(p1, tag)
      /\ \A tag : Uses(p4, tag) => tag = << at, "end" >>
      /\ \A tag : Uses(z, tag) => tag = << at, "end" >>
  <2>1. Calm(p1)
    BY <1>1, CalmTwo
  <2>2. DOMAIN z = {1} /\ z[1] = x /\ DOMAIN p4 = {1} /\ p4[1] = label
    BY <1>2, Single
  <2>. HIDE DEF p1, p4, z
  <2>. QED  BY <1>1, <2>1, <2>2 DEF Uses, Calm, Tame
<1>. HIDE DEF s, p1, p4, z
<1>6. /\ s \in Steps /\ DOMAIN s = 1 .. 5
      /\ \A k \in 1 .. 5 : k = 1 \/ k = 2 \/ k = 3 \/ k = 4 \/ k = 5
  BY <1>3 DEF Steps
<1>7. \A k \in DOMAIN s : /\ Plain(s[k])
                          /\ s[k].do = "jump" => k \in {3, 4}
                          /\ s[k].do = "label" => k \in {5}
  BY <1>1, <1>3, <1>6 DEF Tame
<1>8. \A i \in {3, 4}, t \in {5}, j \in DOMAIN s : i < j /\ j < t => ~ Loose(s[j])
  BY <1>1, <1>3, <1>6
<1>9. TidySteps(s, FALSE, {})
  <2>1. Flat(s, {})
    BY <1>6, <1>7, <1>8 DEF Flat, Plain
  <2>. QED  BY <2>1, FlatTidy
<1>10. /\ c1 \in Steps /\ c2 \in Steps /\ TidySteps(c1, TRUE, out) /\ TidySteps(c2, TRUE, out)
       /\ \A tag : Uses(c1, tag) => tag = << at, n1 >> \/ (tag = x.tag /\ ~ Named(c1, tag))
       /\ \A tag : Uses(c2, tag) => tag = << at, n2 >> \/ (tag = x.tag /\ ~ Named(c2, tag))
  <2>1. c1 \in Steps /\ c2 \in Steps
    BY CasePart DEF Part
  <2>2. TidySteps(c1, TRUE, out) /\ TidySteps(c2, TRUE, out)
    BY CaseTidy
  <2>3. ASSUME NEW tag, Uses(c1, tag)
        PROVE  tag = << at, n1 >> \/ (tag = << at, "end" >> /\ ~ Named(c1, tag))
    BY <2>3, CaseUses
  <2>4. ASSUME NEW tag, Uses(c2, tag)
        PROVE  tag = << at, n2 >> \/ (tag = << at, "end" >> /\ ~ Named(c2, tag))
    BY <2>4, CaseUses
  <2>. HIDE DEF c1, c2, out
  <2>. QED  BY <1>1, <2>1, <2>2, <2>3, <2>4
<1>11. x.tag \in out
  BY <1>1
<1>. HIDE DEF c1, c2, out
<1>12. << at, n1 >> # << at, "end" >> /\ << at, n2 >> # << at, "end" >> /\ << at, n1 >> # << at, n2 >>
  OBVIOUS
<1>13. TidySteps(((p1 \o z) \o c2) \o p4, FALSE, {})
  <2>. DEFINE a == p1 \o z
  <2>1. a \in Steps /\ \A tag : Uses(a, tag) => tag = << at, "end" >>
    BY <1>4, <1>5, UsesConcat, ConcatSteps
  <2>2. TidySteps((a \o << x >>) \o p4, FALSE, {})
    BY <1>9 DEF s, z
  <2>. HIDE DEF a
  <2>3. \A tag : Uses(c2, tag) =>
          \/ x.do = "jump" /\ tag = x.tag /\ ~ Named(c2, tag)
          \/ ~ Uses(a, tag) /\ ~ Uses(p4, tag)
    BY <1>1, <1>5, <1>10, <1>12, <2>1
  <2>4. TidySteps((a \o c2) \o p4, FALSE, {})
    BY <1>1, <1>2, <1>4, <1>10, <1>11, <2>1, <2>2, <2>3, Fill
  <2>. QED  BY <2>4 DEF a
<1>14. ((p1 \o z) \o c2) \o p4 = (p1 \o z) \o (c2 \o p4)
  BY <1>4, <1>10, SMTT(30) DEF Steps
<1>15. TidySteps((p1 \o c1) \o (c2 \o p4), FALSE, {})
  <2>. DEFINE b == c2 \o p4
  <2>1. /\ b \in Steps
        /\ \A tag : Uses(b, tag) => tag = << at, n2 >> \/ tag = << at, "end" >>
    BY <1>1, <1>4, <1>5, <1>10, UsesConcat, ConcatSteps
  <2>2. TidySteps((p1 \o << x >>) \o b, FALSE, {})
    BY <1>13, <1>14 DEF z
  <2>. HIDE DEF b
  <2>3. \A tag : Uses(c1, tag) =>
          \/ x.do = "jump" /\ tag = x.tag /\ ~ Named(c1, tag)
          \/ ~ Uses(p1, tag) /\ ~ Uses(b, tag)
    BY <1>1, <1>5, <1>10, <1>12, <2>1
  <2>4. TidySteps((p1 \o c1) \o b, FALSE, {})
    BY <1>1, <1>2, <1>4, <1>10, <1>11, <2>1, <2>2, <2>3, Fill
  <2>. QED  BY <2>4 DEF b
<1>. DEFINE c == ((p1 \o c1) \o c2) \o p4
<1>16. c = (p1 \o c1) \o (c2 \o p4)
  BY <1>4, <1>10, SMTT(30) DEF Steps
<1>17. c \in Steps
  BY <1>4, <1>10, ConcatSteps
<1>18. TidySteps(c, FALSE, {})
  BY <1>15, <1>16, Zenon
<1>. HIDE DEF c
<1>19. TidySteps(Locked(c), FALSE, {})
  BY <1>17, <1>18, LockedTidy, NotQuiet
<1>. QED  BY <1>19 DEF c, p1, p4, c1, c2, label

LEMMA SwitchTidy ==
  ASSUME NEW at \in Nat
  PROVE  TidySteps(Switch(at), FALSE, {})
<1>1. /\ "case 1" \in Names /\ "case 2" \in Names
      /\ "case 1" # "end" /\ "case 2" # "end" /\ "case 1" # "case 2"
  BY DEF Names
<1>. QED  BY <1>1, SwitchOf DEF Switch

(* Every visitor is tidy, but that of a handler, which registers it.       *)
LEMMA VisitorsTidy ==
  ASSUME NEW at \in Nat
  PROVE  /\ \A s \in Expressions(at) \cup {Identifier} : TidySteps(s, FALSE, {})
         /\ \A s \in Statements(at) \cup {ExprStmt} :
              TidySteps(s, FALSE, {}) \/ \E k \in DOMAIN s : s[k].do = "register"
<1>1. ASSUME NEW kind \in Handlers PROVE \E k \in DOMAIN OnScopeFail(at, kind) :
                                           OnScopeFail(at, kind)[k].do = "register"
  <2>. DEFINE r == On("register", kind, at)
              e == On("exit", kind, at)
              l == Label(at, "ignore")
              p == << r, e, l >>
              q == (((IF kind = "typed" THEN << Enter, Enter, Alloc, Leave, Leave >> ELSE << >>)
                       \o << ScopeBegin, Jump("jmp", at, "ignore"), Label(at, "start") >>)
                      \o (IF kind = "typed" THEN << AllocAt("alloc", at, "var") >> ELSE << >>))
                     \o Block
  <2>1. OnScopeFail(at, kind) = q \o p
    BY DEF OnScopeFail
  <2>2. r \in Step /\ e \in Step /\ l \in Step /\ r.do = "register"
    <3>1. "ignore" \in Names
      BY DEF Names
    <3>2. l \in Step
      BY <3>1, TaggedStep
    <3>. QED  BY <3>2, HandlerStep DEF On
  <2>. HIDE DEF r, e, l
  <2>3. p \in Steps /\ Len(p) = 3 /\ p[1] = r
    BY <2>2, FewSteps
  <2>4. q \in Steps
    <3>1. /\ << Enter, Enter, Alloc, Leave, Leave >> \in Steps /\ << >> \in Steps
      BY OneStep DEF Steps
    <3>2. /\ << ScopeBegin, Jump("jmp", at, "ignore"), Label(at, "start") >> \in Steps
          /\ << AllocAt("alloc", at, "var") >> \in Steps
      <4>1. "ignore" \in Names /\ "start" \in Names /\ "var" \in Names
        BY DEF Names
      <4>. QED  BY <4>1, OneStep, TaggedStep, FewSteps
    <3>. QED  BY <3>1, <3>2, BlockSteps, ConcatSteps
  <2>. HIDE DEF q, p
  <2>5. 1 \in DOMAIN p
    BY <2>3, Lengths
  <2>6. 1 + Len(q) \in DOMAIN (q \o p) /\ (q \o p)[1 + Len(q)] = p[1]
    BY <2>3, <2>4, <2>5, Concat
  <2>. QED  BY <2>1, <2>2, <2>3, <2>6
<1>2. /\ TidySteps(If(at, << Expr >>, << Stmt >>), FALSE, {})
      /\ TidySteps(IfElse(at, << Stmt >>), FALSE, {}) /\ TidySteps(While(at), FALSE, {})
      /\ TidySteps(DoWhile(at), FALSE, {}) /\ TidySteps(Switch(at), FALSE, {})
      /\ TidySteps(ShortCircuit(at), FALSE, {}) /\ TidySteps(IfExpr(at), FALSE, {})
  BY IfTidy, IfElseTidy, SealedParts, WhileTidy, DoWhileTidy, SwitchTidy, ShortCircuitTidy, IfExprTidy
<1>3. \A s \in Expressions(at) \cup {Identifier} : TidySteps(s, FALSE, {})
  BY <1>2, PlainTidy DEF Expressions
<1>4. \A s \in Statements(at) \cup {ExprStmt} :
              TidySteps(s, FALSE, {}) \/ \E k \in DOMAIN s : s[k].do = "register"
  BY <1>1, <1>2, PlainTidy DEF Statements
<1>. QED  BY <1>3, <1>4
==============================================================================
