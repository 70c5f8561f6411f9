----------------------- MODULE ProducerRegisterProofs -----------------------
(***************************************************************************)
(* Proofs about the registers, the handlers and the scopes of the code     *)
(* Producer leaves, for syntax trees of any size: no two declarations      *)
(* share a register, the registers other passes compute from a label are   *)
(* declared, the handlers the analyzer has in force are those of the       *)
(* blocks being translated, and in a function without handlers no jump     *)
(* leaves an object behind or skips a declaration.                         *)
(***************************************************************************)
EXTENDS ProducerCodeProofs

IsRegister(x) == x.op \in Allocs

(* The exit labels apart, the tag of an instruction is the offset of a     *)
(* visitor that began before it.                                           *)
Dated(c) == \A i \in DOMAIN c : c[i].tag[2] # "exit" => c[i].tag[1] < i

(* A label, and the register of a short circuit, are emitted once.         *)
Settled(c, s) ==
  /\ \A i \in DOMAIN c : c[i].op = "label" => ~ Named(s, c[i].tag)
  /\ \A i \in DOMAIN c :
       IsRegister(c[i]) =>
         /\ c[i].tag[2] \in {"", "var", "sc"}
         /\ \A k \in DOMAIN s : s[k].do = "alloc later" => s[k].tag # c[i].tag

(* The numbers given out: the register of a short circuit takes the one    *)
(* after its label, which is reserved by the next step.                    *)
Bound(s, n) == IF s # << >> /\ s[1].do = "reserve" THEN n + 1 ELSE n

(* A register waits for its label without a number, or has one of its own. *)
Distinct(c, s, n) ==
  /\ \A i \in DOMAIN c :
       IsRegister(c[i]) =>
         IF Named(s, c[i].tag) THEN c[i].lvid = 0
         ELSE 1 <= c[i].lvid /\ c[i].lvid <= Bound(s, n)
  /\ \A i, j \in DOMAIN c :
       IsRegister(c[i]) /\ IsRegister(c[j]) /\ i # j =>
         IF Named(s, c[i].tag) THEN c[i].tag # c[j].tag ELSE c[i].lvid # c[j].lvid

(* The second register of a short circuit is about to be declared.         *)
Pending(s, label, n) ==
  \/ /\ label = n /\ Len(s) >= 3
     /\ s[1] = Do("reserve") /\ s[2] = ScopeEnd /\ s[3] = Alloc
  \/ label + 1 = n /\ Len(s) >= 2 /\ s[1] = ScopeEnd /\ s[2] = Alloc
  \/ label + 1 = n /\ Len(s) >= 1 /\ s[1] = Alloc

(* The label of a short circuit has a register before it, and gets one     *)
(* right after it.                                                         *)
Circuits(c, s, n) ==
  /\ \A k \in DOMAIN s :
       s[k].do = "label" /\ s[k].tag[2] = "sc" =>
         \/ \E i \in DOMAIN c : IsRegister(c[i]) /\ c[i].tag = s[k].tag
         \/ \E j \in DOMAIN s : j < k /\ s[j].do = "alloc later" /\ s[j].tag = s[k].tag
  /\ \A i \in DOMAIN c :
       c[i].op = "label" /\ c[i].tag[2] = "sc" =>
         /\ \E j \in DOMAIN c : j < i /\ IsRegister(c[j]) /\ c[j].lvid = c[i].label + 1
         /\ \/ \E j \in DOMAIN c : j > i /\ IsRegister(c[j]) /\ c[j].lvid = c[i].label + 2
            \/ Pending(s, c[i].label, n)

(* The register of the error of a handler comes right after its label.     *)
Errors(c, s, n) ==
  /\ \A i \in DOMAIN c :
       IsRegister(c[i]) /\ c[i].tag[2] = "var" =>
         /\ ~ Named(s, << c[i].tag[1], "start" >>)
         /\ \A j \in DOMAIN c :
              c[j].op = "label" /\ c[j].tag = << c[i].tag[1], "start" >> => c[i].lvid = c[j].label + 1
  /\ s # << >> /\ s[1].do = "alloc" /\ s[1].tag[2] = "var" =>
       /\ ~ Named(s, << s[1].tag[1], "start" >>)
       /\ \A j \in DOMAIN c :
            c[j].op = "label" /\ c[j].tag = << s[1].tag[1], "start" >> => c[j].label = n
  /\ \A i \in DOMAIN c :
       c[i].op = "onscopefail" /\ c[i].lvid # 0 /\ c[i].label # 0 => c[i].lvid = c[i].label + 1

(* All of it, for the sequences c and s and the counter n.                 *)
Sound(c, s, n) ==
  Dated(c) /\ Settled(c, s) /\ Distinct(c, s, n) /\ Circuits(c, s, n) /\ Errors(c, s, n)

(* The code d is c with the operands of its jumps set, and has more        *)
(* instructions at its end.                                                *)
Grows(c, d) ==
  /\ \A i \in DOMAIN c :
       /\ i \in DOMAIN d /\ d[i].op = c[i].op /\ d[i].tag = c[i].tag /\ d[i].lvid = c[i].lvid
       /\ d[i].op \notin Jumps => d[i].label = c[i].label
  /\ \A i \in DOMAIN d, j \in DOMAIN c : i \in DOMAIN c \/ j < i

(* Neither a register nor a label a jump of a visitor waits for.           *)
Neutral(x, i) ==
  /\ ~ IsRegister(x) /\ (x.op = "label" => x.tag[2] = "exit")
  /\ x.tag[2] # "exit" => x.tag[1] < i
  /\ x.op = "onscopefail" /\ x.lvid # 0 /\ x.label # 0 => x.lvid = x.label + 1

(* The head is done, without a label.                                      *)
LEMMA NamedOther ==
  ASSUME NEW s \in Steps, s # << >>, s[1].do # "label", NEW tag
  PROVE  Named(Tail(s), tag) <=> Named(s, tag)
BY NamedTail

LEMMA DatedMore ==
  ASSUME NEW c, NEW d, Dated(c),
         \A i \in DOMAIN d : \/ i \in DOMAIN c /\ d[i].tag = c[i].tag
                             \/ d[i].tag[2] # "exit" => d[i].tag[1] < i
  PROVE  Dated(d)
BY DEF Dated

(* Steps whose tags are not those of the names of a label.                 *)
LEMMA ExitNotNamed ==
  ASSUME NEW s, NEW n, TodoOK(s, n), NEW tag, tag[2] \in {"", "var", "exit"}
  PROVE  ~ Named(s, tag)
BY DEF TodoOK, Kind, Named

LEMMA SettledNeutral ==
  ASSUME NEW c, NEW d, NEW s, NEW n \in Nat, TodoOK(s, n), s # << >>, s[1].do # "label",
         Settled(c, s), Grows(c, d), \A i \in DOMAIN d : i \in DOMAIN c \/ Neutral(d[i], i)
  PROVE  Settled(d, Tail(s))
<1>. DEFINE t == Tail(s)
<1>1. s \in Steps /\ \A k \in DOMAIN t : k + 1 \in DOMAIN s /\ t[k] = s[k + 1]
  BY TailAt DEF TodoOK
<1>2. \A tag : Named(t, tag) <=> Named(s, tag)
  BY <1>1, NamedOther
<1>. HIDE DEF t
<1>3. ASSUME NEW i \in DOMAIN d, d[i].op = "label"
      PROVE  ~ Named(t, d[i].tag)
  <2>1. CASE i \in DOMAIN c
    BY <1>2, <1>3, <2>1 DEF Settled, Grows
  <2>2. CASE Neutral(d[i], i)
    <3>1. d[i].tag[2] = "exit"
      BY <1>3, <2>2 DEF Neutral
    <3>2. ~ Named(s, d[i].tag)
      BY <3>1 DEF TodoOK, Kind, Named
    <3>. QED  BY <1>2, <3>2
  <2>. QED  BY <2>1, <2>2
<1>4. ASSUME NEW i \in DOMAIN d, IsRegister(d[i])
      PROVE  /\ d[i].tag[2] \in {"", "var", "sc"}
             /\ \A k \in DOMAIN t : t[k].do = "alloc later" => t[k].tag # d[i].tag
  <2>1. i \in DOMAIN c /\ IsRegister(c[i]) /\ d[i].tag = c[i].tag
    BY <1>4 DEF Grows, Neutral, IsRegister
  <2>. QED  BY <1>1, <2>1 DEF Settled
<1>5. Settled(d, t)
  BY <1>3, <1>4 DEF Settled
<1>. QED  BY <1>5 DEF t

LEMMA DistinctNeutral ==
  ASSUME NEW c \in Seq(Instr), NEW d, NEW s \in Steps, s # << >>, s[1].do # "label",
         NEW n \in Nat, NEW m \in Nat, Bound(s, n) <= Bound(Tail(s), m),
         Distinct(c, s, n), Grows(c, d), \A i \in DOMAIN d : i \in DOMAIN c \/ ~ IsRegister(d[i])
  PROVE  Distinct(d, Tail(s), m)
<1>. DEFINE t == Tail(s)
<1>1. \A tag : Named(t, tag) <=> Named(s, tag)
  BY NamedOther
<1>2. Bound(s, n) \in Nat /\ Bound(t, m) \in Nat
  BY DEF Bound
<1>. HIDE DEF t
<1>3. \A i \in DOMAIN d : IsRegister(d[i]) => /\ i \in DOMAIN c /\ IsRegister(c[i])
                                              /\ d[i].tag = c[i].tag /\ d[i].lvid = c[i].lvid
  BY DEF Grows, IsRegister
<1>4. \A i \in DOMAIN c : c[i].lvid \in Nat
  <2>1. \A i \in DOMAIN c : c[i] \in Instr
    OBVIOUS
  <2>2. \A x \in Instr : x.lvid \in Nat
    BY DEF Instr
  <2>. QED  BY <2>1, <2>2
<1>5. ASSUME NEW i \in DOMAIN d, IsRegister(d[i])
      PROVE  IF Named(t, d[i].tag) THEN d[i].lvid = 0
             ELSE 1 <= d[i].lvid /\ d[i].lvid <= Bound(t, m)
  <2>1. i \in DOMAIN c /\ IsRegister(c[i]) /\ d[i].tag = c[i].tag /\ d[i].lvid = c[i].lvid
    BY <1>3, <1>5
  <2>2. IF Named(s, c[i].tag) THEN c[i].lvid = 0 ELSE 1 <= c[i].lvid /\ c[i].lvid <= Bound(s, n)
    BY <2>1 DEF Distinct
  <2>. HIDE DEF Bound
  <2>3. c[i].lvid <= Bound(s, n) => c[i].lvid <= Bound(t, m)
    BY <1>2, <1>4, <2>1 DEF t
  <2>. QED  BY <1>1, <2>1, <2>2, <2>3
<1>6. ASSUME NEW i \in DOMAIN d, NEW j \in DOMAIN d, IsRegister(d[i]), IsRegister(d[j]), i # j
      PROVE  IF Named(t, d[i].tag) THEN d[i].tag # d[j].tag ELSE d[i].lvid # d[j].lvid
  <2>1. /\ i \in DOMAIN c /\ IsRegister(c[i]) /\ d[i].tag = c[i].tag /\ d[i].lvid = c[i].lvid
        /\ j \in DOMAIN c /\ IsRegister(c[j]) /\ d[j].tag = c[j].tag /\ d[j].lvid = c[j].lvid
    BY <1>3, <1>6
  <2>2. IF Named(s, c[i].tag) THEN c[i].tag # c[j].tag ELSE c[i].lvid # c[j].lvid
    BY <1>6, <2>1 DEF Distinct
  <2>. QED  BY <1>1, <2>1, <2>2
<1>7. Distinct(d, t, m)
  BY <1>5, <1>6 DEF Distinct
<1>. QED  BY <1>7 DEF t

LEMMA Before ==
  ASSUME NEW j \in Nat, NEW k \in Nat
  PROVE  j < k + 1 => j - 1 < k
OBVIOUS

LEMMA CircuitsNeutral ==
  ASSUME NEW c, NEW d, NEW s \in Steps, s # << >>, s[1].do \notin {"label", "alloc later"},
         NEW n, NEW m, Circuits(c, s, n), Grows(c, d),
         \A label : Pending(s, label, n) => Pending(Tail(s), label, m),
         \A i \in DOMAIN d : i \in DOMAIN c \/ (d[i].op = "label" => d[i].tag[2] = "exit")
  PROVE  Circuits(d, Tail(s), m)
<1>. DEFINE t == Tail(s)
<1>1. /\ \A k \in DOMAIN t : k + 1 \in DOMAIN s /\ t[k] = s[k + 1]
      /\ \A k \in DOMAIN s : k = 1 \/ (k - 1 \in DOMAIN t /\ s[k] = t[k - 1])
      /\ t \in Steps
  BY TailAt
<1>. HIDE DEF t
<1>2. "label" \notin Jumps
  BY DEF Jumps
<1>3. ASSUME NEW k \in DOMAIN t, t[k].do = "label", t[k].tag[2] = "sc"
      PROVE  \/ \E i \in DOMAIN d : IsRegister(d[i]) /\ d[i].tag = t[k].tag
             \/ \E j \in DOMAIN t : j < k /\ t[j].do = "alloc later" /\ t[j].tag = t[k].tag
  <2>1. \/ \E i \in DOMAIN c : IsRegister(c[i]) /\ c[i].tag = t[k].tag
        \/ \E j \in DOMAIN s : j < k + 1 /\ s[j].do = "alloc later" /\ s[j].tag = t[k].tag
    <3>1. k + 1 \in DOMAIN s /\ s[k + 1] = t[k]
      BY <1>1
    <3>2. \A q \in DOMAIN s :
            s[q].do = "label" /\ s[q].tag[2] = "sc" =>
              \/ \E i \in DOMAIN c : IsRegister(c[i]) /\ c[i].tag = s[q].tag
              \/ \E j \in DOMAIN s : j < q /\ s[j].do = "alloc later" /\ s[j].tag = s[q].tag
      BY DEF Circuits
    <3>3. s[k + 1].do = "label" /\ s[k + 1].tag[2] = "sc"
      BY <1>3, <3>1
    <3>4. \/ \E i \in DOMAIN c : IsRegister(c[i]) /\ c[i].tag = s[k + 1].tag
          \/ \E j \in DOMAIN s : j < k + 1 /\ s[j].do = "alloc later" /\ s[j].tag = s[k + 1].tag
      BY <3>1, <3>2, <3>3
    <3>. QED  BY <3>1, <3>4
  <2>2. CASE \E i \in DOMAIN c : IsRegister(c[i]) /\ c[i].tag = t[k].tag
    BY <2>2 DEF Grows, IsRegister
  <2>3. ASSUME NEW j \in DOMAIN s, j < k + 1, s[j].do = "alloc later", s[j].tag = t[k].tag
        PROVE  \E h \in DOMAIN t : h < k /\ t[h].do = "alloc later" /\ t[h].tag = t[k].tag
    <3>1. j # 1 /\ j - 1 \in DOMAIN t /\ t[j - 1] = s[j]
      <4>1. j # 1
        BY <2>3
      <4>. QED  BY <1>1, <4>1
    <3>2. j - 1 < k
      <4>1. j \in Nat /\ k \in Nat
        BY <1>1, Positions
      <4>. QED  BY <2>3, <4>1, Before
    <3>. QED  BY <2>3, <3>1, <3>2
  <2>. QED  BY <2>1, <2>2, <2>3
<1>4. ASSUME NEW i \in DOMAIN d, d[i].op = "label", d[i].tag[2] = "sc"
      PROVE  /\ \E j \in DOMAIN d : j < i /\ IsRegister(d[j]) /\ d[j].lvid = d[i].label + 1
             /\ \/ \E j \in DOMAIN d : j > i /\ IsRegister(d[j]) /\ d[j].lvid = d[i].label + 2
                \/ Pending(t, d[i].label, m)
  <2>1. i \in DOMAIN c /\ c[i].op = "label" /\ c[i].tag[2] = "sc" /\ c[i].label = d[i].label
    BY <1>2, <1>4 DEF Grows
  <2>2. \E j \in DOMAIN c : j < i /\ IsRegister(c[j]) /\ c[j].lvid = c[i].label + 1
    BY <2>1 DEF Circuits
  <2>3. \E j \in DOMAIN d : j < i /\ IsRegister(d[j]) /\ d[j].lvid = d[i].label + 1
    BY <2>1, <2>2 DEF Grows, IsRegister
  <2>4. CASE \E j \in DOMAIN c : j > i /\ IsRegister(c[j]) /\ c[j].lvid = c[i].label + 2
    BY <2>1, <2>3, <2>4 DEF Grows, IsRegister
  <2>5. CASE Pending(s, c[i].label, n)
    <3>1. Pending(t, c[i].label, m)
      BY <2>5 DEF t
    <3>. QED  BY <2>1, <2>3, <3>1
  <2>. QED  BY <2>1, <2>4, <2>5 DEF Circuits
<1>5. Circuits(d, t, m)
  BY <1>3, <1>4 DEF Circuits
<1>. QED  BY <1>5 DEF t

LEMMA NoErrorNext ==
  ASSUME NEW s, NEW n, TodoOK(s, n), s # << >>, s[1].do # "label"
  PROVE  ~ (Tail(s) # << >> /\ Tail(s)[1].do = "alloc" /\ Tail(s)[1].tag[2] = "var")
<1>. SUFFICES ASSUME Tail(s) # << >>, Tail(s)[1].do = "alloc", Tail(s)[1].tag[2] = "var"
              PROVE  FALSE
  OBVIOUS
<1>1. s \in Steps
  BY DEF TodoOK
<1>2. 1 \in DOMAIN Tail(s)
  BY <1>1, TailAt
<1>3. 1 + 1 \in DOMAIN s /\ Tail(s)[1] = s[1 + 1] /\ 1 + 1 > 1
  BY <1>1, <1>2, TailAt
<1>4. s[(1 + 1) - 1].do = "label"
  BY <1>3 DEF TodoOK, After
<1>. QED  BY <1>4

LEMMA ErrorsNeutral ==
  ASSUME NEW c, NEW d, NEW s, NEW k, TodoOK(s, k), s # << >>, s[1].do # "label",
         NEW n, NEW m, Errors(c, s, n), Grows(c, d),
         \A i \in DOMAIN d : i \in DOMAIN c \/ Neutral(d[i], i)
  PROVE  Errors(d, Tail(s), m)
<1>. DEFINE t == Tail(s)
<1>1. \A tag : Named(t, tag) <=> Named(s, tag)
  BY NamedOther DEF TodoOK
<1>2. ~ (t # << >> /\ t[1].do = "alloc" /\ t[1].tag[2] = "var")
  BY NoErrorNext
<1>. HIDE DEF t
<1>3. "label" \notin Jumps /\ "onscopefail" \notin Jumps
  BY DEF Jumps
<1>4. ASSUME NEW i \in DOMAIN d, IsRegister(d[i]), d[i].tag[2] = "var"
      PROVE  /\ ~ Named(t, << d[i].tag[1], "start" >>)
             /\ \A j \in DOMAIN d :
                  d[j].op = "label" /\ d[j].tag = << d[i].tag[1], "start" >> => d[i].lvid = d[j].label + 1
  <2>1. i \in DOMAIN c /\ IsRegister(c[i]) /\ c[i].tag = d[i].tag /\ c[i].lvid = d[i].lvid
    BY <1>4 DEF Grows, Neutral, IsRegister
  <2>2. ASSUME NEW j \in DOMAIN d, d[j].op = "label", d[j].tag = << d[i].tag[1], "start" >>
        PROVE  j \in DOMAIN c /\ c[j].op = "label" /\ c[j].tag = d[j].tag /\ c[j].label = d[j].label
    BY <1>3, <2>2 DEF Grows, Neutral
  <2>. QED  BY <1>1, <1>4, <2>1, <2>2 DEF Errors
<1>5. ASSUME NEW i \in DOMAIN d, d[i].op = "onscopefail", d[i].lvid # 0, d[i].label # 0
      PROVE  d[i].lvid = d[i].label + 1
  BY <1>3, <1>5 DEF Errors, Grows, Neutral
<1>6. Errors(d, t, m)
  BY <1>2, <1>4, <1>5 DEF Errors
<1>. QED  BY <1>6 DEF t

(* The instruction x is added.                                             *)
Adds(c, d, z, x) ==
  /\ Grows(c, d) /\ z \in DOMAIN d /\ d[z] = x
  /\ \A i \in DOMAIN d : i \in DOMAIN c \/ i = z
  /\ \A i \in DOMAIN c : i \in Nat /\ z \in Nat /\ i < z

(* The label x is added, the registers that wait for it take its number.   *)
AddsLabel(c, d, z, x) ==
  /\ \A i \in DOMAIN c :
       /\ i \in DOMAIN d /\ d[i].op = c[i].op /\ d[i].tag = c[i].tag
       /\ d[i].lvid = IF IsRegister(c[i]) /\ c[i].tag = x.tag THEN x.label + 1 ELSE c[i].lvid
       /\ d[i].op \notin Jumps => d[i].label = c[i].label
  /\ z \in DOMAIN d /\ d[z] = x /\ x.op = "label"
  /\ \A i \in DOMAIN d : i \in DOMAIN c \/ i = z
  /\ \A i \in DOMAIN c : i \in Nat /\ z \in Nat /\ i < z

(* A label is emitted.                                                     *)
LEMMA SettledLabel ==
  ASSUME NEW s, NEW n \in Nat, TodoOK(s, n), s # << >>, s[1].do = "label",
         NEW c, NEW d, NEW z, NEW x, x.tag = s[1].tag, AddsLabel(c, d, z, x), Settled(c, s)
  PROVE  Settled(d, Tail(s))
<1>. DEFINE t == Tail(s)
<1>1. s \in Steps /\ \A k \in DOMAIN t : k + 1 \in DOMAIN s /\ t[k] = s[k + 1]
  BY TailAt DEF TodoOK
<1>2. \A tag : Named(t, tag) => Named(s, tag)
  BY <1>1, NamedTail
<1>3. ~ Named(t, x.tag)
  BY <1>1, OnceTail DEF TodoOK
<1>. HIDE DEF t
<1>4. ~ IsRegister(x)
  BY DEF AddsLabel, IsRegister, Allocs
<1>5. ASSUME NEW i \in DOMAIN d, d[i].op = "label"
      PROVE  ~ Named(t, d[i].tag)
  BY <1>2, <1>3, <1>5 DEF Settled, AddsLabel
<1>6. ASSUME NEW i \in DOMAIN d, IsRegister(d[i])
      PROVE  /\ d[i].tag[2] \in {"", "var", "sc"}
             /\ \A k \in DOMAIN t : t[k].do = "alloc later" => t[k].tag # d[i].tag
  <2>1. i \in DOMAIN c /\ IsRegister(c[i]) /\ d[i].tag = c[i].tag
    BY <1>4, <1>6 DEF AddsLabel, IsRegister
  <2>. QED  BY <1>1, <2>1 DEF Settled
<1>7. Settled(d, t)
  BY <1>5, <1>6 DEF Settled
<1>. QED  BY <1>7 DEF t

(* The register of a short circuit that waits for a label is the only one, *)
(* and gets the number that the next step reserves.                        *)
LEMMA DistinctLabel ==
  ASSUME NEW s, NEW k \in Nat, TodoOK(s, k), s # << >>, s[1].do = "label",
         NEW c \in Seq(Instr), NEW d, NEW z, NEW x, x.tag = s[1].tag, AddsLabel(c, d, z, x),
         NEW n \in Nat, x.label = n + 1, Settled(c, s), Distinct(c, s, n)
  PROVE  Distinct(d, Tail(s), n + 1)
<1>. DEFINE t == Tail(s)
            tag == x.tag
            b == Bound(t, n + 1)
<1>1. s \in Steps /\ 1 \in DOMAIN s
  BY TailAt DEF TodoOK
<1>2. /\ \A other : other # tag => (Named(t, other) <=> Named(s, other))
      /\ ~ Named(t, tag) /\ Named(s, tag)
  <2>1. ~ Named(t, tag)
    BY <1>1, OnceTail DEF TodoOK
  <2>2. Named(s, tag)
    BY <1>1 DEF Named
  <2>. QED  BY <1>1, <2>1, <2>2, NamedTail
<1>3. b \in Nat /\ n + 1 <= b /\ Bound(s, n) = n /\ (tag[2] = "sc" => b = n + 2)
  <2>1. tag[2] = "sc" => t # << >> /\ t[1].do = "reserve"
    <3>. SUFFICES ASSUME tag[2] = "sc" PROVE t # << >> /\ t[1].do = "reserve"
      OBVIOUS
    <3>1. 1 + 3 <= Len(s) /\ s[1 + 1] = Do("reserve")
      BY <1>1 DEF TodoOK, Reserves
    <3>2. Len(t) # 0 /\ 1 \in DOMAIN t /\ t[1] = s[1 + 1]
      BY <1>1, <3>1, TailAt
    <3>3. t # << >>
      BY <3>2, NonEmpty
    <3>4. Do("reserve").do = "reserve"
      BY DEF Do
    <3>. QED  BY <3>1, <3>2, <3>3, <3>4
  <2>. HIDE DEF t, tag
  <2>. QED  BY <2>1 DEF Bound, b
<1>4. ~ IsRegister(x)
  BY DEF AddsLabel, IsRegister, Allocs
<1>5. \A i \in DOMAIN d :
        IsRegister(d[i]) =>
          /\ i \in DOMAIN c /\ IsRegister(c[i]) /\ d[i].tag = c[i].tag
          /\ d[i].lvid = IF c[i].tag = tag THEN n + 2 ELSE c[i].lvid
          /\ c[i].tag = tag => tag[2] = "sc"
  <2>. SUFFICES ASSUME NEW i \in DOMAIN d, IsRegister(d[i])
                PROVE  /\ i \in DOMAIN c /\ IsRegister(c[i]) /\ d[i].tag = c[i].tag
                       /\ d[i].lvid = IF c[i].tag = tag THEN n + 2 ELSE c[i].lvid
                       /\ c[i].tag = tag => tag[2] = "sc"
    OBVIOUS
  <2>1. i \in DOMAIN c /\ IsRegister(c[i]) /\ d[i].tag = c[i].tag
    BY <1>4 DEF AddsLabel, IsRegister
  <2>2. d[i].lvid = IF c[i].tag = tag THEN n + 2 ELSE c[i].lvid
    <3>1. d[i].lvid = IF c[i].tag = tag THEN x.label + 1 ELSE c[i].lvid
      BY <2>1 DEF AddsLabel
    <3>2. x.label + 1 = n + 2
      OBVIOUS
    <3>. QED  BY <3>1, <3>2
  <2>3. tag[2] \notin {"", "var", "exit"}
    BY <1>1 DEF TodoOK, Kind
  <2>4. c[i].tag[2] \in {"", "var", "sc"}
    BY <2>1 DEF Settled
  <2>. HIDE DEF tag
  <2>. QED  BY <2>1, <2>2, <2>3, <2>4
<1>6. \A i \in DOMAIN c : c[i].lvid \in Nat
  <2>1. \A i \in DOMAIN c : c[i] \in Instr
    OBVIOUS
  <2>2. \A y \in Instr : y.lvid \in Nat
    BY DEF Instr
  <2>. QED  BY <2>1, <2>2
<1>. HIDE DEF t, tag, b
<1>7. ASSUME NEW i \in DOMAIN d, IsRegister(d[i])
      PROVE  IF Named(t, d[i].tag) THEN d[i].lvid = 0 ELSE 1 <= d[i].lvid /\ d[i].lvid <= b
  <2>1. CASE c[i].tag = tag
    BY <1>2, <1>3, <1>5, <1>7, <2>1
  <2>2. CASE c[i].tag # tag
    <3>1. i \in DOMAIN c /\ IsRegister(c[i]) /\ d[i].tag = c[i].tag /\ d[i].lvid = c[i].lvid
      BY <1>5, <1>7, <2>2
    <3>2. IF Named(s, c[i].tag) THEN c[i].lvid = 0 ELSE 1 <= c[i].lvid /\ c[i].lvid <= n
      BY <1>3, <3>1 DEF Distinct
    <3>3. c[i].lvid <= n => c[i].lvid <= b
      BY <1>3, <1>6, <3>1
    <3>. QED  BY <1>2, <2>2, <3>1, <3>2, <3>3
  <2>. QED  BY <2>1, <2>2
<1>8. ASSUME NEW i \in DOMAIN d, NEW j \in DOMAIN d, IsRegister(d[i]), IsRegister(d[j]), i # j
      PROVE  IF Named(t, d[i].tag) THEN d[i].tag # d[j].tag ELSE d[i].lvid # d[j].lvid
  <2>1. /\ i \in DOMAIN c /\ IsRegister(c[i]) /\ d[i].tag = c[i].tag
        /\ j \in DOMAIN c /\ IsRegister(c[j]) /\ d[j].tag = c[j].tag
        /\ d[i].lvid = IF c[i].tag = tag THEN n + 2 ELSE c[i].lvid
        /\ d[j].lvid = IF c[j].tag = tag THEN n + 2 ELSE c[j].lvid
    BY <1>5, <1>8
  <2>2. IF Named(s, c[i].tag) THEN c[i].tag # c[j].tag ELSE c[i].lvid # c[j].lvid
    BY <1>8, <2>1 DEF Distinct
  <2>3. /\ c[i].lvid \in Nat /\ c[j].lvid \in Nat
        /\ c[i].lvid <= n /\ c[j].lvid <= n
    BY <1>3, <1>6, <2>1 DEF Distinct
  <2>4. CASE c[i].tag = tag
    BY <1>2, <2>1, <2>2, <2>3, <2>4
  <2>5. CASE c[i].tag # tag
    BY <1>2, <2>1, <2>2, <2>3, <2>5
  <2>. QED  BY <2>4, <2>5
<1>9. Distinct(d, t, n + 1)
  BY <1>7, <1>8 DEF Distinct, b
<1>. QED  BY <1>9 DEF t

LEMMA NotPending ==
  ASSUME NEW s, s[1].do \notin {"reserve", "emit", "alloc"}, NEW label, NEW n
  PROVE  ~ Pending(s, label, n)
<1>1. Do("reserve").do = "reserve" /\ ScopeEnd.do = "emit" /\ Alloc.do = "alloc"
  BY DEF Do, ScopeEnd, Emit, Alloc
<1>. QED  BY <1>1 DEF Pending

LEMMA CircuitsLabel ==
  ASSUME NEW s, NEW k \in Nat, TodoOK(s, k), s # << >>, s[1].do = "label",
         NEW c \in Seq(Instr), NEW d, NEW z, NEW x, x.tag = s[1].tag, AddsLabel(c, d, z, x),
         NEW n \in Nat, x.label = n + 1, Distinct(c, s, n), Circuits(c, s, n)
  PROVE  Circuits(d, Tail(s), n + 1)
<1>. DEFINE t == Tail(s)
<1>1. /\ s \in Steps /\ t \in Steps /\ 1 \in DOMAIN s
      /\ \A q \in DOMAIN t : q + 1 \in DOMAIN s /\ t[q] = s[q + 1]
      /\ \A q \in DOMAIN s : q = 1 \/ (q - 1 \in DOMAIN t /\ s[q] = t[q - 1])
      /\ Len(t) = Len(s) - 1 /\ Len(s) \in Nat
  BY TailAt DEF TodoOK
<1>2. Named(s, x.tag)
  BY <1>1 DEF Named
<1>. HIDE DEF t
<1>3. "label" \notin Jumps
  BY DEF Jumps
<1>4. \A i \in DOMAIN c : c[i].label \in Nat
  BY LabelNat
<1>5. ASSUME NEW j \in DOMAIN c, IsRegister(c[j]), c[j].lvid # 0
      PROVE  j \in DOMAIN d /\ IsRegister(d[j]) /\ d[j].lvid = c[j].lvid
  <2>1. c[j].tag # x.tag
    BY <1>2, <1>5 DEF Distinct
  <2>. QED  BY <1>5, <2>1 DEF AddsLabel, IsRegister
<1>6. ASSUME NEW q \in DOMAIN t, t[q].do = "label", t[q].tag[2] = "sc"
      PROVE  \/ \E i \in DOMAIN d : IsRegister(d[i]) /\ d[i].tag = t[q].tag
             \/ \E j \in DOMAIN t : j < q /\ t[j].do = "alloc later" /\ t[j].tag = t[q].tag
  <2>1. q + 1 \in DOMAIN s /\ s[q + 1] = t[q]
    BY <1>1
  <2>2. s[q + 1].do = "label" /\ s[q + 1].tag[2] = "sc"
    BY <1>6, <2>1
  <2>3. \/ \E i \in DOMAIN c : IsRegister(c[i]) /\ c[i].tag = s[q + 1].tag
        \/ \E j \in DOMAIN s : j < q + 1 /\ s[j].do = "alloc later" /\ s[j].tag = s[q + 1].tag
    BY <2>1, <2>2 DEF Circuits
  <2>4. CASE \E i \in DOMAIN c : IsRegister(c[i]) /\ c[i].tag = s[q + 1].tag
    BY <2>1, <2>4 DEF AddsLabel, IsRegister
  <2>5. ASSUME NEW j \in DOMAIN s, j < q + 1, s[j].do = "alloc later", s[j].tag = s[q + 1].tag
        PROVE  \E h \in DOMAIN t : h < q /\ t[h].do = "alloc later" /\ t[h].tag = t[q].tag
    <3>1. j # 1
      BY <2>5
    <3>2. j - 1 \in DOMAIN t /\ t[j - 1] = s[j]
      BY <1>1, <3>1
    <3>3. j \in Nat /\ q \in Nat
      BY <1>1, Positions
    <3>4. j - 1 < q
      BY <2>5, <3>3, Before
    <3>. QED  BY <2>1, <2>5, <3>2, <3>4
  <2>. QED  BY <2>3, <2>4, <2>5
<1>7. ASSUME NEW i \in DOMAIN d, d[i].op = "label", d[i].tag[2] = "sc"
      PROVE  /\ \E j \in DOMAIN d : j < i /\ IsRegister(d[j]) /\ d[j].lvid = d[i].label + 1
             /\ \/ \E j \in DOMAIN d : j > i /\ IsRegister(d[j]) /\ d[j].lvid = d[i].label + 2
                \/ Pending(t, d[i].label, n + 1)
  <2>1. CASE i \in DOMAIN c
    <3>1. c[i].op = "label" /\ c[i].tag[2] = "sc" /\ d[i].label = c[i].label
      BY <1>3, <1>7, <2>1 DEF AddsLabel
    <3>2. /\ \E j \in DOMAIN c : j < i /\ IsRegister(c[j]) /\ c[j].lvid = c[i].label + 1
          /\ \/ \E j \in DOMAIN c : j > i /\ IsRegister(c[j]) /\ c[j].lvid = c[i].label + 2
             \/ Pending(s, c[i].label, n)
      BY <2>1, <3>1 DEF Circuits
    <3>3. ~ Pending(s, c[i].label, n)
      BY NotPending
    <3>4. c[i].label + 1 # 0 /\ c[i].label + 2 # 0
      BY <1>4, <2>1
    <3>5. \E j \in DOMAIN d : j < i /\ IsRegister(d[j]) /\ d[j].lvid = d[i].label + 1
      <4>1. PICK j \in DOMAIN c : j < i /\ IsRegister(c[j]) /\ c[j].lvid = c[i].label + 1
        BY <3>2
      <4>. QED  BY <1>5, <3>1, <3>4, <4>1
    <3>6. \E j \in DOMAIN d : j > i /\ IsRegister(d[j]) /\ d[j].lvid = d[i].label + 2
      <4>1. PICK j \in DOMAIN c : j > i /\ IsRegister(c[j]) /\ c[j].lvid = c[i].label + 2
        BY <3>2, <3>3
      <4>. QED  BY <1>5, <3>1, <3>4, <4>1
    <3>. QED  BY <3>5, <3>6
  <2>2. CASE i = z
    <3>1. d[i] = x /\ s[1].tag[2] = "sc"
      BY <1>7, <2>2 DEF AddsLabel
    <3>2. ~ \E j \in DOMAIN s : j < 1 /\ s[j].do = "alloc later" /\ s[j].tag = s[1].tag
      <4>1. \A j \in DOMAIN s : j \in Nat /\ 1 <= j
        BY <1>1, Positions
      <4>2. \A j \in DOMAIN s : ~ (j < 1)
        BY <4>1
      <4>. QED  BY <4>2
    <3>3. PICK r \in DOMAIN c : IsRegister(c[r]) /\ c[r].tag = x.tag
      <4>1. \/ \E r \in DOMAIN c : IsRegister(c[r]) /\ c[r].tag = s[1].tag
            \/ \E j \in DOMAIN s : j < 1 /\ s[j].do = "alloc later" /\ s[j].tag = s[1].tag
        BY <1>1, <3>1 DEF Circuits
      <4>. QED  BY <3>2, <4>1
    <3>4. r \in DOMAIN d /\ r < i /\ IsRegister(d[r]) /\ d[r].lvid = d[i].label + 1
      BY <2>2, <3>1, <3>3 DEF AddsLabel, IsRegister
    <3>5. Pending(t, n + 1, n + 1)
      <4>1. /\ 1 + 3 <= Len(s) /\ s[1 + 1] = Do("reserve") /\ s[1 + 2] = ScopeEnd
            /\ s[1 + 3] = Alloc
        BY <1>1, <3>1 DEF TodoOK, Reserves
      <4>2. 3 <= Len(t) /\ 1 \in DOMAIN t /\ 2 \in DOMAIN t /\ 3 \in DOMAIN t
        BY <1>1, <4>1, Positions
      <4>3. t[1] = s[1 + 1] /\ t[2] = s[2 + 1] /\ t[3] = s[3 + 1]
        BY <1>1, <4>2
      <4>4. 1 + 2 = 2 + 1 /\ 1 + 3 = 3 + 1
        OBVIOUS
      <4>5. t[1] = Do("reserve") /\ t[2] = ScopeEnd /\ t[3] = Alloc
        BY <4>1, <4>3, <4>4
      <4>6. Len(t) >= 3
        BY <1>1, <4>1
      <4>. QED  BY <4>5, <4>6 DEF Pending
    <3>. QED  BY <3>1, <3>4, <3>5
  <2>. QED  BY <2>1, <2>2 DEF AddsLabel
<1>8. Circuits(d, t, n + 1)
  BY <1>6, <1>7 DEF Circuits
<1>. QED  BY <1>8 DEF t

LEMMA ErrorsLabel ==
  ASSUME NEW s, NEW k \in Nat, TodoOK(s, k), s # << >>, s[1].do = "label",
         NEW c, NEW d, NEW z, NEW x, x.tag = s[1].tag, AddsLabel(c, d, z, x),
         NEW n, x.label = n + 1, Settled(c, s), Errors(c, s, n)
  PROVE  Errors(d, Tail(s), n + 1)
<1>. DEFINE t == Tail(s)
<1>1. /\ s \in Steps /\ 1 \in DOMAIN s /\ x.tag[2] \notin {"", "var", "exit"}
      /\ \A tag : Named(t, tag) => Named(s, tag)
  BY TailAt, NamedTail DEF TodoOK, Kind
<1>2. Named(s, x.tag) /\ ~ Named(t, x.tag)
  <2>1. Named(s, x.tag)
    BY <1>1 DEF Named
  <2>2. ~ Named(t, x.tag)
    BY <1>1, OnceTail DEF TodoOK
  <2>. QED  BY <2>1, <2>2
<1>3. t # << >> /\ t[1].do = "alloc" /\ t[1].tag[2] = "var" => x.tag = << t[1].tag[1], "start" >>
  <2>. SUFFICES ASSUME t # << >>, t[1].do = "alloc", t[1].tag[2] = "var"
                PROVE  x.tag = << t[1].tag[1], "start" >>
    OBVIOUS
  <2>1. t \in Steps /\ \A q \in DOMAIN t : q + 1 \in DOMAIN s /\ t[q] = s[q + 1]
    BY <1>1, TailAt
  <2>. HIDE DEF t
  <2>2. 1 + 1 \in DOMAIN s /\ t[1] = s[1 + 1] /\ 1 + 1 > 1
    <3>1. 1 \in DOMAIN t
      BY <2>1, TailAt
    <3>. QED  BY <2>1, <3>1
  <2>3. s[(1 + 1) - 1].tag = << t[1].tag[1], "start" >>
    BY <2>2 DEF TodoOK, After
  <2>. QED  BY <2>3
<1>. HIDE DEF t
<1>4. ~ IsRegister(x)
  BY DEF AddsLabel, IsRegister, Allocs
<1>5. "label" \notin Jumps /\ "onscopefail" \notin Jumps /\ "onscopefail" \notin Allocs
  BY DEF Jumps, Allocs
<1>6. ASSUME NEW i \in DOMAIN d, IsRegister(d[i]), d[i].tag[2] = "var"
      PROVE  /\ ~ Named(t, << d[i].tag[1], "start" >>)
             /\ \A j \in DOMAIN d :
                  d[j].op = "label" /\ d[j].tag = << d[i].tag[1], "start" >> => d[i].lvid = d[j].label + 1
  <2>1. i \in DOMAIN c /\ IsRegister(c[i]) /\ c[i].tag = d[i].tag /\ c[i].lvid = d[i].lvid
    BY <1>1, <1>4, <1>6 DEF AddsLabel, IsRegister
  <2>2. ~ Named(s, << d[i].tag[1], "start" >>)
    BY <1>6, <2>1 DEF Errors
  <2>3. ASSUME NEW j \in DOMAIN d, d[j].op = "label", d[j].tag = << d[i].tag[1], "start" >>
        PROVE  j \in DOMAIN c /\ c[j].op = "label" /\ c[j].tag = d[j].tag /\ c[j].label = d[j].label
    BY <1>2, <1>5, <2>2, <2>3 DEF AddsLabel
  <2>4. ASSUME NEW j \in DOMAIN d, d[j].op = "label", d[j].tag = << d[i].tag[1], "start" >>
        PROVE  d[i].lvid = d[j].label + 1
    <3>1. j \in DOMAIN c /\ c[j].op = "label" /\ c[j].tag = << c[i].tag[1], "start" >>
      BY <2>1, <2>3, <2>4
    <3>2. c[i].lvid = c[j].label + 1
      BY <1>6, <2>1, <3>1 DEF Errors
    <3>. QED  BY <2>1, <2>3, <2>4, <3>2
  <2>5. \A j \in DOMAIN d :
           d[j].op = "label" /\ d[j].tag = << d[i].tag[1], "start" >> => d[i].lvid = d[j].label + 1
    BY <2>4
  <2>. QED  BY <1>1, <2>2, <2>5
<1>7. ASSUME t # << >>, t[1].do = "alloc", t[1].tag[2] = "var"
      PROVE  /\ ~ Named(t, << t[1].tag[1], "start" >>)
             /\ \A j \in DOMAIN d :
                  d[j].op = "label" /\ d[j].tag = << t[1].tag[1], "start" >> => d[j].label = n + 1
  <2>1. x.tag = << t[1].tag[1], "start" >>
    BY <1>3, <1>7
  <2>2. ASSUME NEW j \in DOMAIN d, d[j].op = "label", d[j].tag = x.tag
        PROVE  d[j].label = n + 1
    BY <1>2, <2>2, ZenonT(30) DEF AddsLabel, Settled
  <2>. QED  BY <1>2, <2>1, <2>2
<1>8. ASSUME NEW i \in DOMAIN d, d[i].op = "onscopefail", d[i].lvid # 0, d[i].label # 0
      PROVE  d[i].lvid = d[i].label + 1
  <2>1. i \in DOMAIN c /\ c[i].op = "onscopefail" /\ d[i].lvid = c[i].lvid /\ d[i].label = c[i].label
    BY <1>5, <1>8 DEF AddsLabel, IsRegister
  <2>. QED  BY <1>8, <2>1 DEF Errors
<1>9. Errors(d, t, n + 1)
  BY <1>6, <1>7, <1>8 DEF Errors
<1>. QED  BY <1>9 DEF t

(* A register is declared, now or when its label is known.                 *)
LEMMA SettledAdds ==
  ASSUME NEW s, NEW n \in Nat, TodoOK(s, n), s # << >>, s[1].do \in {"alloc", "alloc later"},
         NEW c, NEW d, NEW z, NEW x, Adds(c, d, z, x), IsRegister(x), x.tag = s[1].tag,
         Settled(c, s)
  PROVE  Settled(d, Tail(s))
<1>. DEFINE t == Tail(s)
<1>1. /\ s \in Steps /\ 1 \in DOMAIN s
      /\ \A k \in DOMAIN t : k + 1 \in DOMAIN s /\ t[k] = s[k + 1]
  BY TailAt DEF TodoOK
<1>2. \A tag : Named(t, tag) <=> Named(s, tag)
  BY <1>1, NamedOther
<1>3. x.op # "label"
  BY DEF IsRegister, Allocs
<1>4. /\ x.tag[2] \in {"", "var", "sc"}
      /\ \A k \in DOMAIN t : t[k].do = "alloc later" => t[k].tag # x.tag
  <2>1. CASE s[1].do = "alloc"
    <3>1. x.tag[2] \in {"", "var"}
      BY <1>1, <2>1 DEF TodoOK, Kind
    <3>2. \A k \in DOMAIN t : t[k].do = "alloc later" => t[k].tag[2] = "sc"
      BY <1>1 DEF TodoOK, Kind
    <3>. HIDE DEF t
    <3>. QED  BY <3>1, <3>2
  <2>2. CASE s[1].do = "alloc later"
    <3>1. x.tag[2] = "sc"
      BY <1>1, <2>2 DEF TodoOK, Kind
    <3>2. \A k \in DOMAIN t : ~ (t[k].do = "alloc later" /\ t[k].tag = s[1].tag)
      BY <1>1, <2>2, OnceTail DEF TodoOK
    <3>. QED  BY <3>1, <3>2
  <2>. QED  BY <2>1, <2>2
<1>. HIDE DEF t
<1>5. ASSUME NEW i \in DOMAIN d, d[i].op = "label"
      PROVE  ~ Named(t, d[i].tag)
  BY <1>2, <1>3, <1>5 DEF Settled, Adds, Grows
<1>6. ASSUME NEW i \in DOMAIN d, IsRegister(d[i])
      PROVE  /\ d[i].tag[2] \in {"", "var", "sc"}
             /\ \A k \in DOMAIN t : t[k].do = "alloc later" => t[k].tag # d[i].tag
  <2>1. CASE i = z
    BY <1>4, <2>1 DEF Adds
  <2>2. CASE i \in DOMAIN c
    <3>1. IsRegister(c[i]) /\ d[i].tag = c[i].tag
      BY <1>6, <2>2 DEF Adds, Grows, IsRegister
    <3>. QED  BY <1>1, <2>2, <3>1 DEF Settled
  <2>. QED  BY <2>1, <2>2 DEF Adds
<1>7. Settled(d, t)
  BY <1>5, <1>6 DEF Settled
<1>. QED  BY <1>7 DEF t

(* The register x is the next one, or waits for its label.                 *)
Numbered(c, x, t, n, m) ==
  /\ Named(t, x.tag) => x.lvid = 0 /\ \A i \in DOMAIN c : IsRegister(c[i]) => c[i].tag # x.tag
  /\ ~ Named(t, x.tag) => x.lvid = n + 1 /\ n + 1 <= m

LEMMA DistinctAdds ==
  ASSUME NEW s \in Steps, s # << >>, s[1].do # "label", s[1].do # "reserve",
         NEW c \in Seq(Instr), NEW d, NEW z, NEW x, Adds(c, d, z, x), IsRegister(x),
         NEW n \in Nat, NEW m \in Nat, n <= m, Distinct(c, s, n),
         Numbered(c, x, Tail(s), n, m)
  PROVE  Distinct(d, Tail(s), m)
<1>. DEFINE t == Tail(s)
            b == Bound(t, m)
<1>1. \A tag : Named(t, tag) <=> Named(s, tag)
  BY NamedOther
<1>2. b \in Nat /\ m <= b /\ Bound(s, n) = n
  <2>1. b = m \/ b = m + 1
    BY DEF Bound
  <2>2. Bound(s, n) = n
    BY DEF Bound
  <2>. HIDE DEF b
  <2>. QED  BY <2>1, <2>2
<1>3. \A i \in DOMAIN c : c[i].lvid \in Nat
  <2>1. \A i \in DOMAIN c : c[i] \in Instr
    OBVIOUS
  <2>2. \A y \in Instr : y.lvid \in Nat
    BY DEF Instr
  <2>. QED  BY <2>1, <2>2
<1>. HIDE DEF t, b
<1>4. /\ z \in DOMAIN d /\ d[z] = x /\ z \notin DOMAIN c
      /\ \A i \in DOMAIN d : IsRegister(d[i]) =>
           \/ i = z
           \/ i \in DOMAIN c /\ IsRegister(c[i]) /\ d[i].tag = c[i].tag /\ d[i].lvid = c[i].lvid
  <2>1. z \notin DOMAIN c
    <3>1. \A i \in DOMAIN c : i \in Nat /\ i < z
      BY DEF Adds
    <3>. QED  BY <3>1
  <2>. QED  BY <2>1 DEF Adds, Grows, IsRegister
<1>5. /\ Named(t, x.tag) =>
           x.lvid = 0 /\ \A i \in DOMAIN c : IsRegister(c[i]) => c[i].tag # x.tag
      /\ ~ Named(t, x.tag) => x.lvid = n + 1 /\ 1 <= x.lvid /\ x.lvid <= b
  <2>1. n + 1 <= m => n + 1 <= b /\ 1 <= n + 1
    BY <1>2
  <2>. QED  BY <2>1 DEF t, Numbered
<1>6. \A i \in DOMAIN c : IsRegister(c[i]) =>
        /\ Named(t, c[i].tag) => c[i].lvid = 0
        /\ ~ Named(t, c[i].tag) => 1 <= c[i].lvid /\ c[i].lvid <= n
        /\ c[i].lvid <= b /\ c[i].lvid # n + 1
  <2>. SUFFICES ASSUME NEW i \in DOMAIN c, IsRegister(c[i])
                PROVE  /\ Named(t, c[i].tag) => c[i].lvid = 0
                       /\ ~ Named(t, c[i].tag) => 1 <= c[i].lvid /\ c[i].lvid <= n
                       /\ c[i].lvid <= b /\ c[i].lvid # n + 1
    OBVIOUS
  <2>1. /\ Named(t, c[i].tag) => c[i].lvid = 0
        /\ ~ Named(t, c[i].tag) => 1 <= c[i].lvid /\ c[i].lvid <= n
    BY <1>1, <1>2 DEF Distinct
  <2>2. c[i].lvid \in Nat /\ c[i].lvid <= n
    BY <1>3, <2>1
  <2>. QED  BY <1>2, <2>1, <2>2
<1>7. ASSUME NEW i \in DOMAIN d, IsRegister(d[i])
      PROVE  IF Named(t, d[i].tag) THEN d[i].lvid = 0 ELSE 1 <= d[i].lvid /\ d[i].lvid <= b
  BY <1>4, <1>5, <1>6, <1>7
<1>8. ASSUME NEW i \in DOMAIN d, NEW j \in DOMAIN d, IsRegister(d[i]), IsRegister(d[j]), i # j
      PROVE  IF Named(t, d[i].tag) THEN d[i].tag # d[j].tag ELSE d[i].lvid # d[j].lvid
  <2>1. CASE i = z
    <3>1. j \in DOMAIN c /\ IsRegister(c[j]) /\ d[j].tag = c[j].tag /\ d[j].lvid = c[j].lvid
      BY <1>4, <1>8, <2>1
    <3>. QED  BY <1>4, <1>5, <1>6, <2>1, <3>1
  <2>2. CASE j = z
    <3>1. i \in DOMAIN c /\ IsRegister(c[i]) /\ d[i].tag = c[i].tag /\ d[i].lvid = c[i].lvid
      BY <1>4, <1>8, <2>2
    <3>. QED  BY <1>4, <1>5, <1>6, <2>2, <3>1
  <2>3. CASE i # z /\ j # z
    <3>1. /\ i \in DOMAIN c /\ IsRegister(c[i]) /\ d[i].tag = c[i].tag /\ d[i].lvid = c[i].lvid
          /\ j \in DOMAIN c /\ IsRegister(c[j]) /\ d[j].tag = c[j].tag /\ d[j].lvid = c[j].lvid
      BY <1>4, <1>8, <2>3
    <3>2. IF Named(s, c[i].tag) THEN c[i].tag # c[j].tag ELSE c[i].lvid # c[j].lvid
      BY <1>8, <3>1 DEF Distinct
    <3>. QED  BY <1>1, <3>1, <3>2
  <2>. QED  BY <2>1, <2>2, <2>3
<1>9. Distinct(d, t, m)
  BY <1>7, <1>8 DEF Distinct, b
<1>. QED  BY <1>9 DEF t

LEMMA CircuitsAdds ==
  ASSUME NEW s \in Steps, s # << >>, s[1].do \in {"alloc", "alloc later"},
         NEW c \in Seq(Instr), NEW d, NEW z, NEW x, Adds(c, d, z, x), IsRegister(x),
         x.tag = s[1].tag, NEW n \in Nat, NEW m, s[1].do = "alloc" => x.lvid = n + 1,
         Circuits(c, s, n)
  PROVE  Circuits(d, Tail(s), m)
<1>. DEFINE t == Tail(s)
<1>1. /\ t \in Steps /\ 1 \in DOMAIN s
      /\ \A q \in DOMAIN t : q + 1 \in DOMAIN s /\ t[q] = s[q + 1]
      /\ \A q \in DOMAIN s : q = 1 \/ (q - 1 \in DOMAIN t /\ s[q] = t[q - 1])
  BY TailAt
<1>. HIDE DEF t
<1>2. "label" \notin Jumps /\ x.op # "label"
  BY DEF Jumps, IsRegister, Allocs
<1>3. \A i \in DOMAIN c : c[i].label \in Nat
  BY LabelNat
<1>4. ASSUME NEW j \in DOMAIN c, IsRegister(c[j])
      PROVE  j \in DOMAIN d /\ IsRegister(d[j]) /\ d[j].tag = c[j].tag /\ d[j].lvid = c[j].lvid
  BY <1>4 DEF Adds, Grows, IsRegister
<1>5. ASSUME NEW q \in DOMAIN t, t[q].do = "label", t[q].tag[2] = "sc"
      PROVE  \/ \E i \in DOMAIN d : IsRegister(d[i]) /\ d[i].tag = t[q].tag
             \/ \E j \in DOMAIN t : j < q /\ t[j].do = "alloc later" /\ t[j].tag = t[q].tag
  <2>1. q + 1 \in DOMAIN s /\ s[q + 1] = t[q]
    BY <1>1
  <2>2. s[q + 1].do = "label" /\ s[q + 1].tag[2] = "sc"
    BY <1>5, <2>1
  <2>3. \/ \E i \in DOMAIN c : IsRegister(c[i]) /\ c[i].tag = s[q + 1].tag
        \/ \E j \in DOMAIN s : j < q + 1 /\ s[j].do = "alloc later" /\ s[j].tag = s[q + 1].tag
    BY <2>1, <2>2 DEF Circuits
  <2>4. CASE \E i \in DOMAIN c : IsRegister(c[i]) /\ c[i].tag = s[q + 1].tag
    BY <1>4, <2>1, <2>4
  <2>5. ASSUME NEW j \in DOMAIN s, j < q + 1, s[j].do = "alloc later", s[j].tag = s[q + 1].tag
        PROVE  \/ \E i \in DOMAIN d : IsRegister(d[i]) /\ d[i].tag = t[q].tag
               \/ \E h \in DOMAIN t : h < q /\ t[h].do = "alloc later" /\ t[h].tag = t[q].tag
    <3>1. CASE j = 1
      <4>1. z \in DOMAIN d /\ d[z] = x
        BY DEF Adds
      <4>. QED  BY <2>1, <2>5, <3>1, <4>1
    <3>2. CASE j # 1
      <4>1. j - 1 \in DOMAIN t /\ t[j - 1] = s[j]
        BY <1>1, <3>2
      <4>2. j \in Nat /\ q \in Nat
        BY <1>1, Positions
      <4>3. j - 1 < q
        BY <2>5, <4>2, Before
      <4>. QED  BY <2>1, <2>5, <4>1, <4>3
    <3>. QED  BY <3>1, <3>2
  <2>. QED  BY <2>3, <2>4, <2>5
<1>6. ASSUME NEW i \in DOMAIN d, d[i].op = "label", d[i].tag[2] = "sc"
      PROVE  /\ \E j \in DOMAIN d : j < i /\ IsRegister(d[j]) /\ d[j].lvid = d[i].label + 1
             /\ \/ \E j \in DOMAIN d : j > i /\ IsRegister(d[j]) /\ d[j].lvid = d[i].label + 2
                \/ Pending(t, d[i].label, m)
  <2>1. i \in DOMAIN c /\ c[i].op = "label" /\ c[i].tag[2] = "sc" /\ d[i].label = c[i].label
    BY <1>2, <1>6 DEF Adds, Grows
  <2>2. /\ \E j \in DOMAIN c : j < i /\ IsRegister(c[j]) /\ c[j].lvid = c[i].label + 1
        /\ \/ \E j \in DOMAIN c : j > i /\ IsRegister(c[j]) /\ c[j].lvid = c[i].label + 2
           \/ Pending(s, c[i].label, n)
    BY <2>1 DEF Circuits
  <2>3. \E j \in DOMAIN d : j < i /\ IsRegister(d[j]) /\ d[j].lvid = d[i].label + 1
    <3>1. PICK j \in DOMAIN c : j < i /\ IsRegister(c[j]) /\ c[j].lvid = c[i].label + 1
      BY <2>2
    <3>. QED  BY <1>4, <2>1, <3>1
  <2>4. CASE \E j \in DOMAIN c : j > i /\ IsRegister(c[j]) /\ c[j].lvid = c[i].label + 2
    <3>1. PICK j \in DOMAIN c : j > i /\ IsRegister(c[j]) /\ c[j].lvid = c[i].label + 2
      BY <2>4
    <3>. QED  BY <1>4, <2>1, <2>3, <3>1
  <2>5. CASE Pending(s, c[i].label, n)
    <3>1. s[1].do = "alloc"
      BY <2>5, NotPending
    <3>2. Do("reserve").do = "reserve" /\ ScopeEnd.do = "emit"
      BY DEF Do, ScopeEnd, Emit
    <3>3. c[i].label + 1 = n
      BY <2>5, <3>1, <3>2 DEF Pending
    <3>4. c[i].label \in Nat
      BY <1>3, <2>1
    <3>5. x.lvid = d[i].label + 2
      BY <2>1, <3>1, <3>3, <3>4
    <3>6. z \in DOMAIN d /\ d[z] = x /\ z > i
      BY <2>1 DEF Adds
    <3>. QED  BY <2>3, <3>5, <3>6
  <2>. QED  BY <2>2, <2>3, <2>4, <2>5
<1>7. Circuits(d, t, m)
  BY <1>5, <1>6 DEF Circuits
<1>. QED  BY <1>7 DEF t

LEMMA ErrorsAdds ==
  ASSUME NEW s, NEW k \in Nat, TodoOK(s, k), s # << >>, s[1].do \in {"alloc", "alloc later"},
         NEW c, NEW d, NEW z, NEW x, Adds(c, d, z, x), IsRegister(x),
         x.tag = s[1].tag, NEW n \in Nat, NEW m, s[1].do = "alloc" => x.lvid = n + 1,
         Errors(c, s, n)
  PROVE  Errors(d, Tail(s), m)
<1>. DEFINE t == Tail(s)
<1>1. s \in Steps /\ 1 \in DOMAIN s
  BY TailAt DEF TodoOK
<1>2. \A tag : Named(t, tag) <=> Named(s, tag)
  BY <1>1, NamedOther
<1>3. ~ (t # << >> /\ t[1].do = "alloc" /\ t[1].tag[2] = "var")
  BY NoErrorNext
<1>. HIDE DEF t
<1>4. x.op # "label" /\ x.op # "onscopefail" /\ "label" \notin Jumps /\ "onscopefail" \notin Jumps
  BY DEF Jumps, IsRegister, Allocs
<1>5. ASSUME NEW j \in DOMAIN d, d[j].op = "label" \/ d[j].op = "onscopefail"
      PROVE  /\ j \in DOMAIN c /\ c[j].op = d[j].op /\ c[j].tag = d[j].tag /\ c[j].label = d[j].label
             /\ c[j].lvid = d[j].lvid
  BY <1>4, <1>5 DEF Adds, Grows
<1>6. ASSUME NEW i \in DOMAIN d, IsRegister(d[i]), d[i].tag[2] = "var"
      PROVE  /\ ~ Named(t, << d[i].tag[1], "start" >>)
             /\ \A j \in DOMAIN d :
                  d[j].op = "label" /\ d[j].tag = << d[i].tag[1], "start" >> => d[i].lvid = d[j].label + 1
  <2>1. CASE i \in DOMAIN c
    <3>1. IsRegister(c[i]) /\ c[i].tag = d[i].tag /\ c[i].lvid = d[i].lvid
      BY <1>6, <2>1 DEF Adds, Grows, IsRegister
    <3>. QED  BY <1>2, <1>5, <1>6, <2>1, <3>1, ZenonT(30) DEF Errors
  <2>2. CASE i = z
    <3>1. d[i] = x /\ s[1].tag[2] = "var"
      BY <1>6, <2>2 DEF Adds
    <3>2. s[1].do = "alloc"
      BY <1>1, <3>1 DEF TodoOK, Kind
    <3>3. /\ ~ Named(s, << s[1].tag[1], "start" >>)
          /\ \A j \in DOMAIN c :
               c[j].op = "label" /\ c[j].tag = << s[1].tag[1], "start" >> => c[j].label = n
      BY <3>1, <3>2 DEF Errors
    <3>. QED  BY <1>2, <1>5, <3>1, <3>2, <3>3
  <2>. QED  BY <2>1, <2>2 DEF Adds
<1>7. ASSUME NEW i \in DOMAIN d, d[i].op = "onscopefail", d[i].lvid # 0, d[i].label # 0
      PROVE  d[i].lvid = d[i].label + 1
  BY <1>5, <1>7 DEF Errors
<1>8. Errors(d, t, m)
  BY <1>3, <1>6, <1>7 DEF Errors
<1>. QED  BY <1>8 DEF t

(* The child v is visited, after k instructions.                           *)
Visits(s, v, k) ==
  /\ TodoOK(s, k) /\ s # << >> /\ s[1].do \in {"stmt", "stmts", "expr"} /\ Visitor(v, k)

LEMMA VisitFacts ==
  ASSUME NEW s, NEW k \in Nat, NEW v, Visits(s, v, k)
  PROVE  /\ TodoOK(v \o Tail(s), k) /\ s \in Steps /\ v \in Steps /\ v \o Tail(s) \in Steps
         /\ ~ (s[1].do = "reserve") /\ s[1].do \notin {"reserve", "emit", "alloc"}
         /\ s[1].do # "alloc later" /\ s[1].do # "label" /\ s # << >>
         /\ \A tag : Named(s, tag) => Named(v \o Tail(s), tag)
         /\ \A tag : Named(v \o Tail(s), tag) => Named(s, tag) \/ tag[1] = k
<1>1. s \in Steps /\ v \in Steps /\ s # << >> /\ TodoOK(s, k) /\ Visitor(v, k)
      /\ s[1].do \in {"stmt", "stmts", "expr"}
  BY DEF Visits, TodoOK, Visitor
<1>2. TodoOK(v \o Tail(s), k)
  BY <1>1, TodoVisit
<1>3. Tail(s) \in Steps /\ v \o Tail(s) \in Steps
  BY <1>1, <1>2, TailAt DEF TodoOK
<1>4. ASSUME NEW tag, Named(v, tag) PROVE tag[1] = k
  <2>1. PICK q \in DOMAIN v : v[q].do = "label" /\ v[q].tag = tag
    BY <1>4 DEF Named
  <2>2. Kind(v[q]) /\ (v[q].tag = NoTag \/ v[q].tag[1] = k)
    BY <1>1 DEF Visitor
  <2>3. v[q].tag[2] # ""
    BY <2>1, <2>2 DEF Kind
  <2>4. NoTag[2] = ""
    BY DEF NoTag
  <2>. QED  BY <2>1, <2>2, <2>3, <2>4
<1>5. ASSUME NEW tag PROVE Named(Tail(s), tag) <=> Named(s, tag)
  BY <1>1, NamedTail
<1>6. ASSUME NEW tag PROVE Named(v \o Tail(s), tag) <=> Named(v, tag) \/ Named(Tail(s), tag)
  BY <1>1, <1>3, NamedConcat
<1>7. /\ s[1].do \notin {"reserve", "emit", "alloc"}
      /\ s[1].do # "alloc later" /\ s[1].do # "label" /\ s[1].do # "reserve"
  BY <1>1
<1>. QED  BY <1>1, <1>2, <1>3, <1>4, <1>5, <1>6, <1>7

LEMMA SettledVisit ==
  ASSUME NEW s, NEW k \in Nat, NEW v, Visits(s, v, k),
         NEW c \in Seq(Instr), Len(c) = k, Dated(c), Settled(c, s)
  PROVE  Settled(c, v \o Tail(s))
<1>. DEFINE u == v \o Tail(s)
<1>1. /\ TodoOK(u, k)
      /\ \A tag : Named(u, tag) => Named(s, tag) \/ tag[1] = k
  BY VisitFacts
<1>2. \A q \in DOMAIN u :
        \/ q \in DOMAIN v /\ u[q] = v[q]
        \/ q - Len(v) + 1 \in DOMAIN s /\ u[q] = s[q - Len(v) + 1]
  BY TodoVisit DEF Visits
<1>. HIDE DEF u
<1>3. \A i \in DOMAIN c : c[i].tag[2] # "exit" => c[i].tag[1] # k
  <2>1. \A i \in DOMAIN c : i \in Nat /\ i <= k
    OBVIOUS
  <2>. QED  BY <2>1 DEF Dated
<1>4. ASSUME NEW i \in DOMAIN c, c[i].op = "label" PROVE ~ Named(u, c[i].tag)
  <2>1. CASE c[i].tag[2] = "exit"
    BY <1>1, <2>1 DEF TodoOK, Kind, Named
  <2>2. CASE c[i].tag[2] # "exit"
    BY <1>1, <1>3, <1>4, <2>2 DEF Settled
  <2>. QED  BY <2>1, <2>2
<1>5. ASSUME NEW i \in DOMAIN c, IsRegister(c[i]), NEW q \in DOMAIN u, u[q].do = "alloc later"
      PROVE  u[q].tag # c[i].tag
  <2>1. c[i].tag[1] # k
    BY <1>3, <1>5 DEF Settled
  <2>2. CASE q \in DOMAIN v /\ u[q] = v[q]
    <3>1. Kind(v[q]) /\ (v[q].tag = NoTag \/ v[q].tag[1] = k)
      BY <2>2 DEF Visits, Visitor
    <3>2. v[q].tag[2] = "sc"
      BY <1>5, <2>2, <3>1 DEF Kind
    <3>3. NoTag[2] = ""
      BY DEF NoTag
    <3>. QED  BY <2>1, <2>2, <3>1, <3>2, <3>3
  <2>3. CASE q - Len(v) + 1 \in DOMAIN s /\ u[q] = s[q - Len(v) + 1]
    BY <1>5, <2>3 DEF Settled
  <2>. QED  BY <1>2, <2>2, <2>3
<1>6. Settled(c, u)
  BY <1>4, <1>5 DEF Settled
<1>. QED  BY <1>6 DEF u

LEMMA DistinctVisit ==
  ASSUME NEW s, NEW k \in Nat, NEW v, Visits(s, v, k),
         NEW c \in Seq(Instr), Len(c) = k, Dated(c), Settled(c, s),
         NEW n \in Nat, Distinct(c, s, n)
  PROVE  Distinct(c, v \o Tail(s), n)
<1>. DEFINE u == v \o Tail(s)
            b == Bound(u, n)
<1>1. /\ \A tag : Named(u, tag) => Named(s, tag) \/ tag[1] = k
      /\ \A tag : Named(s, tag) => Named(u, tag)
  BY VisitFacts
<1>2. \A i \in DOMAIN c : IsRegister(c[i]) => c[i].tag[1] # k
  <2>1. \A i \in DOMAIN c : i \in Nat /\ i <= k
    OBVIOUS
  <2>2. \A i \in DOMAIN c : c[i].tag[2] # "exit" => c[i].tag[1] # k
    BY <2>1 DEF Dated
  <2>. QED  BY <2>2 DEF Settled
<1>3. Bound(s, n) = n
  BY VisitFacts DEF Bound
<1>4. b = n \/ b = n + 1
  BY DEF Bound
<1>. HIDE DEF u, b
<1>5. \A i \in DOMAIN c : IsRegister(c[i]) => (Named(u, c[i].tag) <=> Named(s, c[i].tag))
  BY <1>1, <1>2
<1>6. \A i \in DOMAIN c : c[i].lvid \in Nat
  <2>1. \A i \in DOMAIN c : c[i] \in Instr
    OBVIOUS
  <2>2. \A y \in Instr : y.lvid \in Nat
    BY DEF Instr
  <2>. QED  BY <2>1, <2>2
<1>7. \A i \in DOMAIN c : c[i].lvid <= n => c[i].lvid <= b
  BY <1>4, <1>6
<1>8. Distinct(c, u, n)
  BY <1>3, <1>5, <1>7 DEF Distinct, b
<1>. QED  BY <1>8 DEF u

LEMMA Shifted ==
  ASSUME NEW q \in Nat, NEW j \in Nat, NEW h \in Nat
  PROVE  j < q - h + 1 => j - 1 + h < q
OBVIOUS

LEMMA CircuitsVisit ==
  ASSUME NEW s, NEW k \in Nat, NEW v, Visits(s, v, k),
         NEW c, NEW n, Circuits(c, s, n)
  PROVE  Circuits(c, v \o Tail(s), n)
<1>. DEFINE u == v \o Tail(s)
<1>1. /\ s \in Steps /\ v \in Steps /\ u \in Steps
      /\ s[1].do # "alloc later" /\ s[1].do \notin {"reserve", "emit", "alloc"}
  BY VisitFacts
<1>2. /\ \A q \in DOMAIN u :
           \/ q \in DOMAIN v /\ u[q] = v[q]
           \/ q - Len(v) + 1 \in DOMAIN s /\ u[q] = s[q - Len(v) + 1]
      /\ \A q \in DOMAIN v : q \in DOMAIN u /\ u[q] = v[q]
      /\ \A q \in DOMAIN s :
           q > 1 => q - 1 + Len(v) \in DOMAIN u /\ u[q - 1 + Len(v)] = s[q]
  BY TodoVisit DEF Visits
<1>3. ASSUME NEW label PROVE ~ Pending(s, label, n)
  BY <1>1, NotPending
<1>. HIDE DEF u
<1>4. ASSUME NEW q \in DOMAIN u, u[q].do = "label", u[q].tag[2] = "sc"
      PROVE  \/ \E i \in DOMAIN c : IsRegister(c[i]) /\ c[i].tag = u[q].tag
             \/ \E j \in DOMAIN u : j < q /\ u[j].do = "alloc later" /\ u[j].tag = u[q].tag
  <2>1. CASE q \in DOMAIN v /\ u[q] = v[q]
    <3>1. PICK j \in DOMAIN v : j < q /\ v[j].do = "alloc later" /\ v[j].tag = v[q].tag
      BY <1>4, <2>1 DEF Visits, Visitor
    <3>. QED  BY <1>2, <2>1, <3>1
  <2>2. CASE q - Len(v) + 1 \in DOMAIN s /\ u[q] = s[q - Len(v) + 1]
    <3>. DEFINE p == q - Len(v) + 1
    <3>1. p \in DOMAIN s /\ s[p] = u[q]
      BY <2>2
    <3>. HIDE DEF p
    <3>2. s[p].do = "label" /\ s[p].tag[2] = "sc"
      BY <1>4, <3>1
    <3>3. \/ \E i \in DOMAIN c : IsRegister(c[i]) /\ c[i].tag = s[p].tag
          \/ \E j \in DOMAIN s : j < p /\ s[j].do = "alloc later" /\ s[j].tag = s[p].tag
      BY <3>1, <3>2 DEF Circuits
    <3>4. ASSUME NEW j \in DOMAIN s, j < p, s[j].do = "alloc later", s[j].tag = s[p].tag
          PROVE  \E h \in DOMAIN u : h < q /\ u[h].do = "alloc later" /\ u[h].tag = u[q].tag
      <4>1. j # 1
        BY <1>1, <3>4
      <4>2. j \in Nat /\ 1 <= j /\ q \in Nat /\ Len(v) \in Nat
        BY <1>1, Positions
      <4>3. j > 1
        BY <4>1, <4>2
      <4>4. j - 1 + Len(v) \in DOMAIN u /\ u[j - 1 + Len(v)] = s[j]
        BY <1>2, <4>3
      <4>5. j - 1 + Len(v) < q
        BY <3>4, <4>2, Shifted DEF p
      <4>. QED  BY <3>1, <3>4, <4>4, <4>5
    <3>. QED  BY <3>1, <3>3, <3>4
  <2>. QED  BY <1>2, <2>1, <2>2
<1>5. Circuits(c, u, n)
  BY <1>3, <1>4 DEF Circuits
<1>. QED  BY <1>5 DEF u

LEMMA ErrorsVisit ==
  ASSUME NEW s, NEW k \in Nat, NEW v, Visits(s, v, k),
         NEW c \in Seq(Instr), Len(c) = k, Dated(c),
         NEW n, Errors(c, s, n)
  PROVE  Errors(c, v \o Tail(s), n)
<1>. DEFINE u == v \o Tail(s)
<1>1. /\ u \in Steps
      /\ \A tag : Named(u, tag) => Named(s, tag) \/ tag[1] = k
  BY VisitFacts
<1>2. \A q \in DOMAIN u : After(u, q)
  BY TodoVisit DEF Visits
<1>. HIDE DEF u
<1>3. ~ (u # << >> /\ u[1].do = "alloc" /\ u[1].tag[2] = "var")
  <2>. SUFFICES ASSUME u # << >>, u[1].do = "alloc", u[1].tag[2] = "var" PROVE FALSE
    OBVIOUS
  <2>1. 1 \in DOMAIN u
    BY <1>1, TailAt
  <2>. QED  BY <1>2, <2>1 DEF After
<1>4. \A i \in DOMAIN c : c[i].tag[2] # "exit" => c[i].tag[1] # k
  <2>1. \A i \in DOMAIN c : i \in Nat /\ i <= k
    OBVIOUS
  <2>. QED  BY <2>1 DEF Dated
<1>5. ASSUME NEW i \in DOMAIN c, IsRegister(c[i]), c[i].tag[2] = "var"
      PROVE  ~ Named(u, << c[i].tag[1], "start" >>)
  <2>1. ~ Named(s, << c[i].tag[1], "start" >>)
    BY <1>5 DEF Errors
  <2>2. << c[i].tag[1], "start" >>[1] # k
    BY <1>4, <1>5
  <2>. QED  BY <1>1, <2>1, <2>2
<1>6. Errors(c, u, n)
  BY <1>3, <1>5 DEF Errors
<1>. QED  BY <1>6 DEF u

(* What the steps left say of a short circuit whose label is emitted.      *)
LEMMA PendingReserve ==
  ASSUME NEW s \in Steps, s # << >>, s[1].do = "reserve", NEW n \in Nat, NEW label,
         Pending(s, label, n)
  PROVE  Pending(Tail(s), label, n + 1)
<1>. DEFINE t == Tail(s)
<1>1. /\ t \in Steps /\ Len(t) = Len(s) - 1 /\ Len(s) \in Nat
      /\ \A q \in DOMAIN t : t[q] = s[q + 1]
  BY TailAt
<1>. HIDE DEF t
<1>2. ScopeEnd.do = "emit" /\ Alloc.do = "alloc"
  BY DEF ScopeEnd, Emit, Alloc
<1>3. label = n /\ Len(s) >= 3 /\ s[2] = ScopeEnd /\ s[3] = Alloc
  BY <1>2 DEF Pending
<1>4. Len(t) >= 2 /\ 1 <= Len(t) /\ 2 <= Len(t)
  BY <1>1, <1>3
<1>5. 1 \in DOMAIN t /\ 2 \in DOMAIN t
  BY <1>1, <1>4, Positions
<1>6. t[1] = s[1 + 1] /\ t[2] = s[2 + 1]
  BY <1>1, <1>5
<1>7. t[1] = ScopeEnd /\ t[2] = Alloc
  BY <1>3, <1>6
<1>. QED  BY <1>3, <1>4, <1>7 DEF Pending, t

LEMMA PendingEnd ==
  ASSUME NEW s \in Steps, s # << >>, s[1].do = "emit", NEW n \in Nat, NEW label,
         Pending(s, label, n)
  PROVE  Pending(Tail(s), label, n)
<1>. DEFINE t == Tail(s)
<1>1. /\ t \in Steps /\ Len(t) = Len(s) - 1 /\ Len(s) \in Nat
      /\ \A q \in DOMAIN t : t[q] = s[q + 1]
  BY TailAt
<1>. HIDE DEF t
<1>2. Do("reserve").do = "reserve" /\ Alloc.do = "alloc"
  BY DEF Do, Alloc
<1>3. label + 1 = n /\ Len(s) >= 2 /\ s[2] = Alloc
  BY <1>2 DEF Pending
<1>4. Len(t) >= 1 /\ 1 <= Len(t)
  BY <1>1, <1>3
<1>5. 1 \in DOMAIN t
  BY <1>1, <1>4, Positions
<1>6. t[1] = s[1 + 1]
  BY <1>1, <1>5
<1>7. t[1] = Alloc
  BY <1>3, <1>6
<1>. QED  BY <1>3, <1>4, <1>7 DEF Pending, t

LEMMA AppendAdds ==
  ASSUME NEW c \in Seq(Instr), NEW x \in Instr
  PROVE  Adds(c, Append(c, x), Len(c) + 1, x) /\ Grows(c, Append(c, x))
<1>. DEFINE d == Append(c, x)
            z == Len(c) + 1
<1>1. /\ Len(c) \in Nat /\ z \in DOMAIN d /\ d[z] = x /\ z \in Nat
      /\ \A i \in DOMAIN c : i \in DOMAIN d /\ d[i] = c[i] /\ i \in Nat /\ i < z
      /\ \A i \in DOMAIN d : i \in DOMAIN c \/ i = z
  BY AppendAt
<1>. HIDE DEF d, z
<1>2. Grows(c, d)
  BY <1>1 DEF Grows
<1>3. Adds(c, d, z, x)
  BY <1>1, <1>2 DEF Adds
<1>. QED  BY <1>2, <1>3 DEF d, z

LEMMA SoundNeutral ==
  ASSUME NEW c \in Seq(Instr), NEW s, NEW k \in Nat, TodoOK(s, k), s # << >>,
         s[1].do # "label", s[1].do # "alloc later",
         NEW n \in Nat, NEW m \in Nat, Bound(s, n) <= Bound(Tail(s), m),
         \A label : Pending(s, label, n) => Pending(Tail(s), label, m),
         Sound(c, s, n), NEW d, Grows(c, d), \A i \in DOMAIN d : i \in DOMAIN c \/ Neutral(d[i], i)
  PROVE  Sound(d, Tail(s), m)
<1>1. s \in Steps
  BY DEF TodoOK
<1>2. \A i \in DOMAIN d : \/ i \in DOMAIN c /\ d[i].tag = c[i].tag
                          \/ d[i].tag[2] # "exit" => d[i].tag[1] < i
  BY DEF Grows, Neutral
<1>3. \A i \in DOMAIN d : i \in DOMAIN c \/ ~ IsRegister(d[i])
  BY DEF Neutral
<1>4. \A i \in DOMAIN d : i \in DOMAIN c \/ (d[i].op = "label" => d[i].tag[2] = "exit")
  BY DEF Neutral
<1>5. Dated(d)
  BY <1>2, DatedMore DEF Sound
<1>6. Settled(d, Tail(s))
  BY SettledNeutral DEF Sound
<1>7. Distinct(d, Tail(s), m)
  BY <1>1, <1>3, DistinctNeutral DEF Sound
<1>8. Circuits(d, Tail(s), m)
  BY <1>1, <1>4, CircuitsNeutral DEF Sound
<1>9. Errors(d, Tail(s), m)
  BY ErrorsNeutral DEF Sound
<1>. QED  BY <1>5, <1>6, <1>7, <1>8, <1>9 DEF Sound

LEMMA BoundMono ==
  ASSUME NEW s, NEW t, s = << >> \/ s[1].do # "reserve",
         NEW n \in Nat, NEW m \in Nat, n <= m
  PROVE  Bound(s, n) <= Bound(t, m)
<1>1. Bound(s, n) = n
  BY DEF Bound
<1>2. Bound(t, m) = m \/ Bound(t, m) = m + 1
  BY DEF Bound
<1>. QED  BY <1>1, <1>2

(* Most steps are no part of a short circuit.                              *)
LEMMA SoundOther ==
  ASSUME NEW c \in Seq(Instr), NEW s, NEW k \in Nat, TodoOK(s, k), s # << >>,
         s[1].do \notin {"label", "alloc later", "reserve", "emit", "alloc"},
         NEW n \in Nat, NEW m \in Nat, n <= m,
         Sound(c, s, n), NEW d, Grows(c, d), \A i \in DOMAIN d : i \in DOMAIN c \/ Neutral(d[i], i)
  PROVE  Sound(d, Tail(s), m)
<1>1. \A label : ~ Pending(s, label, n)
  BY NotPending
<1>4. s[1].do # "reserve"
  OBVIOUS
<1>2. Bound(s, n) <= Bound(Tail(s), m)
  BY <1>4, BoundMono
<1>3. s[1].do # "label" /\ s[1].do # "alloc later"
  OBVIOUS
<1>. QED  BY <1>1, <1>2, <1>3, SoundNeutral

LEMMA SoundVisit ==
  ASSUME NEW c \in Seq(Instr), NEW s, NEW v, Visits(s, v, Len(c)),
         NEW n \in Nat, Sound(c, s, n)
  PROVE  Sound(c, v \o Tail(s), n)
<1>1. Len(c) \in Nat
  OBVIOUS
<1>. QED  BY <1>1, SettledVisit, DistinctVisit, CircuitsVisit, ErrorsVisit DEF Sound

LEMMA SoundLabel ==
  ASSUME NEW c \in Seq(Instr), NEW s, NEW k \in Nat, TodoOK(s, k), s # << >>, s[1].do = "label",
         NEW d, NEW z, NEW x, x.tag = s[1].tag, AddsLabel(c, d, z, x), x.tag[1] < z,
         NEW n \in Nat, x.label = n + 1, Sound(c, s, n)
  PROVE  Sound(d, Tail(s), n + 1)
<1>1. \A i \in DOMAIN d : \/ i \in DOMAIN c /\ d[i].tag = c[i].tag
                          \/ d[i].tag[2] # "exit" => d[i].tag[1] < i
  BY DEF AddsLabel
<1>2. Dated(d)
  BY <1>1, DatedMore DEF Sound
<1>3. Settled(d, Tail(s))
  BY SettledLabel DEF Sound
<1>4. Distinct(d, Tail(s), n + 1)
  BY DistinctLabel DEF Sound
<1>5. Circuits(d, Tail(s), n + 1)
  BY CircuitsLabel DEF Sound
<1>6. Errors(d, Tail(s), n + 1)
  BY ErrorsLabel DEF Sound
<1>. QED  BY <1>2, <1>3, <1>4, <1>5, <1>6 DEF Sound

LEMMA SoundAdds ==
  ASSUME NEW c \in Seq(Instr), NEW s, NEW k \in Nat, TodoOK(s, k), s # << >>,
         s[1].do = "alloc" \/ s[1].do = "alloc later",
         NEW d, NEW z, NEW x, x.tag = s[1].tag, Adds(c, d, z, x), IsRegister(x), x.tag[1] < z,
         NEW n \in Nat, NEW m \in Nat, n <= m, Numbered(c, x, Tail(s), n, m),
         s[1].do = "alloc" => x.lvid = n + 1, Sound(c, s, n)
  PROVE  Sound(d, Tail(s), m)
<1>1. \A i \in DOMAIN d : \/ i \in DOMAIN c /\ d[i].tag = c[i].tag
                          \/ d[i].tag[2] # "exit" => d[i].tag[1] < i
  BY DEF Adds, Grows
<1>2. Dated(d)
  BY <1>1, DatedMore DEF Sound
<1>3. /\ s \in Steps /\ s[1].do \in {"alloc", "alloc later"}
      /\ s[1].do # "label" /\ s[1].do # "reserve"
  BY DEF TodoOK
<1>4. Settled(d, Tail(s))
  BY <1>3, SettledAdds DEF Sound
<1>5. Distinct(d, Tail(s), m)
  BY <1>3, DistinctAdds DEF Sound
<1>6. Circuits(d, Tail(s), m)
  BY <1>3, CircuitsAdds DEF Sound
<1>7. Errors(d, Tail(s), m)
  BY <1>3, ErrorsAdds DEF Sound
<1>. QED  BY <1>2, <1>4, <1>5, <1>6, <1>7 DEF Sound

(* What the invariants say of the state.                                   *)
LEMMA StateFacts ==
  ASSUME IInv
  PROVE  /\ ircode \in Seq(Instr) /\ todo \in Steps /\ TypeOK /\ NoHandler
         /\ Top.nextVarID \in Nat /\ nextvar = Top.nextVarID + 1 /\ nextvar \in Nat
         /\ opcodeCount = Len(ircode) /\ opcodeCount \in Nat
         /\ todo # << >> => Head(todo) = todo[1] /\ todo[1] \in Step /\ 1 \in DOMAIN todo
<1>1. /\ ircode \in Seq(Instr) /\ todo \in Steps /\ TypeOK /\ NoHandler
      /\ Top.nextVarID \in Nat /\ nextvar = Top.nextVarID + 1 /\ nextvar \in Nat
  BY TopScope DEF IInv, TypeOK, Steps
<1>2. opcodeCount = Len(ircode) /\ opcodeCount \in Nat
  BY <1>1 DEF opcodeCount
<1>3. todo # << >> => Head(todo) = todo[1] /\ todo[1] \in Step /\ 1 \in DOMAIN todo
  BY <1>1, TailAt
<1>. QED  BY <1>1, <1>2, <1>3

LEMMA TagBefore ==
  ASSUME NEW n \in Nat, NEW s, TodoOK(s, n), s # << >>
  PROVE  s[1].tag \in Tag /\ s[1].tag[1] \in Nat /\ s[1].tag[1] < n + 1
<1>1. s[1] \in Step /\ 1 \in DOMAIN s
  BY TailAt DEF TodoOK
<1>2. s[1].tag \in Tag
  BY <1>1, StepKinds
<1>3. s[1].tag = NoTag \/ s[1].tag[1] < n \/ s[1].tag[1] = n
  BY <1>1 DEF TodoOK
<1>4. NoTag[1] = 0
  BY DEF NoTag
<1>5. s[1].tag[1] \in Nat
  BY <1>2 DEF Tag
<1>. QED  BY <1>2, <1>3, <1>4, <1>5

(* An instruction that is neither a label nor a register, at the end.      *)
LEMMA SoundAppend ==
  ASSUME NEW c \in Seq(Instr), NEW s, TodoOK(s, Len(c)), s # << >>,
         s[1].do \notin {"label", "alloc later", "reserve", "emit", "alloc"},
         NEW x \in Instr, Neutral(x, Len(c) + 1),
         NEW n \in Nat, NEW m \in Nat, n <= m, Sound(c, s, n)
  PROVE  Sound(Append(c, x), Tail(s), m)
<1>. DEFINE d == Append(c, x)
<1>1. Adds(c, d, Len(c) + 1, x) /\ Grows(c, d)
  BY AppendAdds
<1>4. Len(c) \in Nat
  BY AppendAt
<1>. HIDE DEF d
<1>2. \A i \in DOMAIN d : i \in DOMAIN c \/ Neutral(d[i], i)
  BY <1>1 DEF Adds
<1>3. Sound(d, Tail(s), m)
  BY <1>1, <1>2, <1>4, SoundOther
<1>. QED  BY <1>3 DEF d

LEMMA PlainSound ==
  ASSUME IInv, TodoOK(todo, opcodeCount), Sound(ircode, todo, Top.nextVarID), EmitPlain
  PROVE  Sound(ircode', todo', Top'.nextVarID)
<1>. DEFINE x == Instruction(todo[1].op, 0, 0, NoTag)
            n == Top.nextVarID
            d == Append(ircode, x)
<1>1. /\ todo # << >> /\ todo[1].do = "emit" /\ ircode' = d /\ todo' = Tail(todo)
      /\ Top' = Top
  BY StateFacts DEF EmitPlain, AtStep, Top
<1>2. ircode \in Seq(Instr) /\ n \in Nat /\ opcodeCount \in Nat /\ todo \in Steps /\ todo[1] \in Step
      /\ opcodeCount = Len(ircode)
  BY <1>1, StateFacts
<1>3. todo[1].op \in {"scope", "end", "raise", "ret"}
  BY <1>1, <1>2, StepKinds
<1>4. x \in Instr /\ x.op = todo[1].op /\ x.tag = NoTag
  BY <1>3, InstructionType, NoTagType DEF Instruction
<1>5. x.op # "label" /\ x.op # "onscopefail" /\ x.op \notin Allocs
  BY <1>3, <1>4 DEF Allocs
<1>6. Neutral(x, Len(ircode) + 1)
  <2>1. NoTag[1] < Len(ircode) + 1
    BY <1>2 DEF NoTag
  <2>. HIDE DEF x
  <2>. QED  BY <1>4, <1>5, <2>1 DEF Neutral, IsRegister
<1>. HIDE DEF x
<1>7. Adds(ircode, d, Len(ircode) + 1, x) /\ Grows(ircode, d)
  BY <1>2, <1>4, AppendAdds
<1>. HIDE DEF d
<1>8. \A i \in DOMAIN d : i \in DOMAIN ircode \/ Neutral(d[i], i)
  BY <1>6, <1>7 DEF Adds
<1>9. \A label : Pending(todo, label, n) => Pending(Tail(todo), label, n)
  BY <1>1, <1>2, PendingEnd
<1>10. Bound(todo, n) <= Bound(Tail(todo), n)
  <2>1. n <= n /\ todo[1].do # "reserve"
    BY <1>1, <1>2
  <2>. QED  BY <1>2, <2>1, BoundMono
<1>11. todo[1].do # "label" /\ todo[1].do # "alloc later"
  BY <1>1
<1>12. Sound(d, Tail(todo), n)
  BY <1>1, <1>2, <1>7, <1>8, <1>9, <1>10, <1>11, SoundNeutral
<1>. QED  BY <1>1, <1>12

LEMMA ReserveSound ==
  ASSUME IInv, TodoOK(todo, opcodeCount), Sound(ircode, todo, Top.nextVarID), Reserve
  PROVE  Sound(ircode', todo', Top'.nextVarID)
<1>. DEFINE n == Top.nextVarID
<1>1. /\ todo # << >> /\ todo[1].do = "reserve" /\ ircode' = ircode /\ todo' = Tail(todo) /\ Took
  BY StateFacts DEF Reserve, AtStep
<1>2. ircode \in Seq(Instr) /\ n \in Nat /\ opcodeCount \in Nat /\ todo \in Steps /\ n + 1 \in Nat
  BY StateFacts
<1>3. Top'.nextVarID = n + 1
  BY <1>1, StateFacts, TookScopes
<1>4. Grows(ircode, ircode)
  <2>1. \A i, j \in DOMAIN ircode : i \in DOMAIN ircode \/ j < i
    OBVIOUS
  <2>. QED  BY <2>1 DEF Grows
<1>5. \A label : Pending(todo, label, n) => Pending(Tail(todo), label, n + 1)
  BY <1>1, <1>2, PendingReserve
<1>6. Bound(todo, n) <= Bound(Tail(todo), n + 1)
  <2>1. Bound(todo, n) = n + 1
    BY <1>1 DEF Bound
  <2>2. Bound(Tail(todo), n + 1) = n + 1 \/ Bound(Tail(todo), n + 1) = n + 1 + 1
    BY DEF Bound
  <2>. QED  BY <1>2, <2>1, <2>2
<1>7. todo[1].do # "label" /\ todo[1].do # "alloc later"
  BY <1>1
<1>8. Sound(ircode, Tail(todo), n + 1)
  <2>1. \A i \in DOMAIN ircode : i \in DOMAIN ircode \/ Neutral(ircode[i], i)
    OBVIOUS
  <2>. QED  BY <1>1, <1>2, <1>4, <1>5, <1>6, <1>7, <2>1, SoundNeutral
<1>. QED  BY <1>1, <1>3, <1>8

LEMMA AllocSound ==
  ASSUME IInv, TodoOK(todo, opcodeCount), Sound(ircode, todo, Top.nextVarID), EmitAlloc
  PROVE  Sound(ircode', todo', Top'.nextVarID)
<1>. DEFINE x == Instruction(todo[1].op, nextvar, 0, todo[1].tag)
            n == Top.nextVarID
<1>1. /\ todo # << >> /\ todo[1].do = "alloc" /\ ircode' = Append(ircode, x) /\ todo' = Tail(todo)
      /\ Took
  BY StateFacts DEF EmitAlloc, AtStep
<1>2. /\ ircode \in Seq(Instr) /\ n \in Nat /\ opcodeCount \in Nat /\ todo \in Steps
      /\ todo[1] \in Step /\ 1 \in DOMAIN todo /\ opcodeCount = Len(ircode) /\ nextvar = n + 1
      /\ n + 1 \in Nat /\ nextvar \in Nat
  BY <1>1, StateFacts
<1>3. Top'.nextVarID = n + 1
  BY <1>1, StateFacts, TookScopes
<1>4. todo[1].op \in Allocs /\ todo[1].tag \in Tag
  BY <1>1, <1>2, StepKinds
<1>5. x \in Instr /\ x.op = todo[1].op /\ x.tag = todo[1].tag /\ x.lvid = n + 1
  BY <1>2, <1>4, InstructionType DEF Instruction
<1>. HIDE DEF x
<1>6. Adds(ircode, Append(ircode, x), Len(ircode) + 1, x)
  BY <1>2, <1>5, AppendAdds
<1>7. IsRegister(x)
  BY <1>4, <1>5 DEF IsRegister
<1>8. x.tag[1] < Len(ircode) + 1
  BY <1>1, <1>2, <1>5, TagBefore
<1>9. Numbered(ircode, x, Tail(todo), n, n + 1)
  <2>1. todo[1].tag[2] \in {"", "var", "exit"}
    BY <1>1, <1>2 DEF TodoOK, Kind
  <2>2. ~ Named(todo, todo[1].tag)
    BY <2>1 DEF TodoOK, Kind, Named
  <2>3. ~ Named(Tail(todo), x.tag)
    BY <1>1, <1>2, <1>5, <2>2, NamedTail
  <2>4. n + 1 <= n + 1
    BY <1>2
  <2>. QED  BY <1>5, <2>3, <2>4 DEF Numbered
<1>10. n <= n + 1
  BY <1>2
<1>11. Sound(Append(ircode, x), Tail(todo), n + 1)
  BY <1>1, <1>2, <1>5, <1>6, <1>7, <1>8, <1>9, <1>10, SoundAdds
<1>. QED  BY <1>1, <1>3, <1>11

LEMMA AllocLaterSound ==
  ASSUME IInv, TodoOK(todo, opcodeCount), Sound(ircode, todo, Top.nextVarID), EmitAllocLater
  PROVE  Sound(ircode', todo', Top'.nextVarID)
<1>. DEFINE x == Instruction(todo[1].op, 0, 0, todo[1].tag)
            n == Top.nextVarID
<1>1. /\ todo # << >> /\ todo[1].do = "alloc later" /\ ircode' = Append(ircode, x)
      /\ todo' = Tail(todo) /\ Top' = Top
  BY StateFacts DEF EmitAllocLater, AtStep, Top
<1>2. /\ ircode \in Seq(Instr) /\ n \in Nat /\ opcodeCount \in Nat /\ todo \in Steps
      /\ todo[1] \in Step /\ 1 \in DOMAIN todo /\ opcodeCount = Len(ircode)
  BY <1>1, StateFacts
<1>3. todo[1].op \in Allocs /\ todo[1].tag \in Tag
  BY <1>1, <1>2, StepKinds
<1>4. x \in Instr /\ x.op = todo[1].op /\ x.tag = todo[1].tag /\ x.lvid = 0
  BY <1>2, <1>3, InstructionType DEF Instruction
<1>. HIDE DEF x
<1>5. Adds(ircode, Append(ircode, x), Len(ircode) + 1, x)
  BY <1>2, <1>4, AppendAdds
<1>6. IsRegister(x)
  BY <1>3, <1>4 DEF IsRegister
<1>7. x.tag[1] < Len(ircode) + 1
  BY <1>1, <1>2, <1>4, TagBefore
<1>8. Numbered(ircode, x, Tail(todo), n, n)
  <2>1. Named(Tail(todo), x.tag)
    <3>1. PICK m \in DOMAIN todo : m > 1 /\ todo[m].do = "label" /\ todo[m].tag = todo[1].tag
      BY <1>1, <1>2 DEF TodoOK, Awaited
    <3>2. Named(todo, todo[1].tag)
      BY <3>1 DEF Named
    <3>. QED  BY <1>1, <1>2, <1>4, <3>2, NamedTail
  <2>2. ASSUME NEW i \in DOMAIN ircode, IsRegister(ircode[i]) PROVE ircode[i].tag # x.tag
    BY <1>1, <1>2, <1>4, <2>2 DEF Sound, Settled
  <2>. QED  BY <1>4, <2>1, <2>2 DEF Numbered
<1>9. n <= n
  BY <1>2
<1>11. todo[1].do # "alloc"
  BY <1>1
<1>10. Sound(Append(ircode, x), Tail(todo), n)
  BY <1>1, <1>2, <1>4, <1>5, <1>6, <1>7, <1>8, <1>9, <1>11, SoundAdds
<1>. QED  BY <1>1, <1>10

LEMMA LabelSound ==
  ASSUME IInv, TodoOK(todo, opcodeCount), Sound(ircode, todo, Top.nextVarID), EmitLabel
  PROVE  Sound(ircode', todo', Top'.nextVarID)
<1>. DEFINE x == Instruction("label", 0, nextvar, todo[1].tag)
            p == Patched(todo[1].tag, nextvar)
            n == Top.nextVarID
            d == Append(p, x)
            z == Len(ircode) + 1
<1>1. /\ todo # << >> /\ todo[1].do = "label" /\ ircode' = d /\ todo' = Tail(todo) /\ Took
  BY StateFacts DEF EmitLabel, AtStep
<1>2. /\ ircode \in Seq(Instr) /\ n \in Nat /\ opcodeCount \in Nat /\ todo \in Steps
      /\ todo[1] \in Step /\ opcodeCount = Len(ircode) /\ nextvar = n + 1 /\ nextvar \in Nat
  BY <1>1, StateFacts
<1>3. Top'.nextVarID = n + 1
  BY <1>1, StateFacts, TookScopes
<1>4. x \in Instr /\ x.op = "label" /\ x.tag = todo[1].tag /\ x.label = n + 1
  BY <1>2, StepKinds, LabelType DEF Instruction
<1>5. /\ p \in Seq(Instr) /\ Len(p) = Len(ircode) /\ DOMAIN p = DOMAIN ircode
      /\ \A i \in DOMAIN ircode :
           /\ p[i].op = ircode[i].op /\ p[i].tag = ircode[i].tag
           /\ p[i].label = IF ircode[i].op \in Jumps /\ ircode[i].tag = todo[1].tag
                           THEN nextvar ELSE ircode[i].label
           /\ p[i].lvid = IF ircode[i].op \in Allocs /\ ircode[i].tag = todo[1].tag
                          THEN nextvar + 1 ELSE ircode[i].lvid
  BY <1>2, PatchedAt
<1>. HIDE DEF x, p
<1>6. /\ z \in DOMAIN d /\ d[z] = x
      /\ \A i \in DOMAIN p : i \in DOMAIN d /\ d[i] = p[i] /\ i \in Nat /\ i < z
      /\ \A i \in DOMAIN d : i \in DOMAIN p \/ i = z
      /\ z \in Nat
  BY <1>2, <1>4, <1>5, AppendAt
<1>. HIDE DEF d, z
<1>7. AddsLabel(ircode, d, z, x)
  <2>1. ASSUME NEW i \in DOMAIN ircode
        PROVE  /\ i \in DOMAIN d /\ d[i].op = ircode[i].op /\ d[i].tag = ircode[i].tag
               /\ d[i].lvid = IF IsRegister(ircode[i]) /\ ircode[i].tag = x.tag
                              THEN x.label + 1 ELSE ircode[i].lvid
               /\ d[i].op \notin Jumps => d[i].label = ircode[i].label
    BY <1>2, <1>4, <1>5, <1>6 DEF IsRegister
  <2>2. \A i \in DOMAIN ircode : i \in Nat /\ z \in Nat /\ i < z
    BY <1>5, <1>6
  <2>3. \A i \in DOMAIN d : i \in DOMAIN ircode \/ i = z
    BY <1>5, <1>6
  <2>. QED  BY <1>4, <1>6, <2>1, <2>2, <2>3 DEF AddsLabel
<1>8. x.tag[1] < z
  BY <1>1, <1>2, <1>4, TagBefore DEF z
<1>9. Sound(d, Tail(todo), n + 1)
  BY <1>1, <1>2, <1>4, <1>7, <1>8, SoundLabel
<1>. QED  BY <1>1, <1>3, <1>9

LEMMA JumpSound ==
  ASSUME IInv, TodoOK(todo, opcodeCount), Sound(ircode, todo, Top.nextVarID), EmitJump
  PROVE  Sound(ircode', todo', Top'.nextVarID)
<1>. DEFINE x == Instruction(todo[1].op, 0, LabelAt(todo[1].tag), todo[1].tag)
            n == Top.nextVarID
<1>1. /\ todo # << >> /\ todo[1].do = "jump" /\ ircode' = Append(ircode, x) /\ todo' = Tail(todo)
      /\ Top' = Top
  BY StateFacts DEF EmitJump, AtStep, Top
<1>2. /\ ircode \in Seq(Instr) /\ n \in Nat /\ opcodeCount \in Nat /\ todo[1] \in Step
      /\ opcodeCount = Len(ircode) /\ TypeOK
  BY <1>1, StateFacts
<1>3. todo[1].op \in Jumps /\ todo[1].tag \in Tag /\ LabelAt(todo[1].tag) \in Nat
  BY <1>1, <1>2, StepKinds, OperandsKnown
<1>4. x \in Instr /\ x.op \in Jumps /\ x.tag = todo[1].tag
  BY <1>3, InstructionType DEF Instruction
<1>5. x.tag[1] < Len(ircode) + 1
  BY <1>1, <1>2, <1>4, TagBefore
<1>. HIDE DEF x
<1>6. Neutral(x, Len(ircode) + 1)
  BY <1>4, <1>5 DEF Neutral, IsRegister, Jumps, Allocs
<1>7. n <= n
  BY <1>2
<1>8. todo[1].do \notin {"label", "alloc later", "reserve", "emit", "alloc"}
  BY <1>1
<1>9. Sound(Append(ircode, x), Tail(todo), n)
  BY <1>1, <1>2, <1>4, <1>6, <1>7, <1>8, SoundAppend
<1>. QED  BY <1>1, <1>9

LEMMA JzraiseSound ==
  ASSUME IInv, TodoOK(todo, opcodeCount), Sound(ircode, todo, Top.nextVarID), EmitJzraise
  PROVE  Sound(ircode', todo', Top'.nextVarID)
<1>. DEFINE x == Instruction("jzraise", 0, nextvar, NoTag)
            n == Top.nextVarID
<1>1. /\ todo # << >> /\ todo[1].do = "jzraise" /\ ircode' = Append(ircode, x)
      /\ todo' = Tail(todo) /\ Took
  BY StateFacts DEF EmitJzraise, AtStep
<1>2. /\ ircode \in Seq(Instr) /\ n \in Nat /\ opcodeCount \in Nat
      /\ opcodeCount = Len(ircode) /\ nextvar = n + 1 /\ nextvar \in Nat
  BY StateFacts
<1>3. Top'.nextVarID = n + 1
  BY <1>1, StateFacts, TookScopes
<1>4. x \in Instr /\ x.op = "jzraise" /\ x.tag = NoTag
  BY <1>2, NoTagType, LabelType DEF Instruction
<1>5. NoTag[1] < Len(ircode) + 1
  BY <1>2 DEF NoTag
<1>. HIDE DEF x
<1>6. Neutral(x, Len(ircode) + 1)
  BY <1>4, <1>5 DEF Neutral, IsRegister, Allocs
<1>7. n <= n + 1 /\ n + 1 \in Nat
  BY <1>2
<1>8. todo[1].do \notin {"label", "alloc later", "reserve", "emit", "alloc"}
  BY <1>1
<1>9. Sound(Append(ircode, x), Tail(todo), n + 1)
  BY <1>1, <1>2, <1>4, <1>6, <1>7, <1>8, SoundAppend
<1>. QED  BY <1>1, <1>3, <1>9

LEMMA FinishSound ==
  ASSUME IInv, TodoOK(todo, opcodeCount), Sound(ircode, todo, Top.nextVarID), FinishFunc
  PROVE  Sound(ircode', todo', Top'.nextVarID)
<1>. DEFINE x == Instruction("end", 0, 0, NoTag)
            n == Top.nextVarID
<1>1. /\ todo # << >> /\ todo[1].do = "finish" /\ ircode' = Append(ircode, x)
      /\ todo' = Tail(todo) /\ Top' = Top
  BY StateFacts DEF FinishFunc, AtStep, Top
<1>2. /\ ircode \in Seq(Instr) /\ n \in Nat /\ opcodeCount \in Nat /\ opcodeCount = Len(ircode)
  BY StateFacts
<1>4. x \in Instr /\ x.op = "end" /\ x.tag = NoTag
  BY NoTagType, OtherType DEF Instruction
<1>5. NoTag[1] < Len(ircode) + 1
  BY <1>2 DEF NoTag
<1>. HIDE DEF x
<1>6. Neutral(x, Len(ircode) + 1)
  BY <1>4, <1>5 DEF Neutral, IsRegister, Allocs
<1>7. n <= n
  BY <1>2
<1>8. todo[1].do \notin {"label", "alloc later", "reserve", "emit", "alloc"}
  BY <1>1
<1>9. Sound(Append(ircode, x), Tail(todo), n)
  BY <1>1, <1>2, <1>4, <1>6, <1>7, <1>8, SoundAppend
<1>. QED  BY <1>1, <1>9

LEMMA Pair ==
  ASSUME NEW A, NEW B, NEW t \in A \X B
  PROVE  t = << t[1], t[2] >>
OBVIOUS

(* The operands of a handler: its error, if it has one, is in the register *)
(* right after its label.                                                  *)
LEMMA HandlerOperands ==
  ASSUME NEW s, NEW n, Errors(ircode, s, n), NEW kind, NEW start \in Tag, start[2] = "start",
         ErrorLvid(kind, start[1]) # 0, LabelAt(start) # 0
  PROVE  ErrorLvid(kind, start[1]) = LabelAt(start) + 1
<1>. DEFINE regs == Tagged(Allocs, << start[1], "var" >>)
            labels == Tagged({"label"}, start)
<1>1. regs # {} /\ ErrorLvid(kind, start[1]) = ircode[CHOOSE i \in regs : TRUE].lvid
  BY DEF ErrorLvid
<1>2. labels # {} /\ LabelAt(start) = ircode[CHOOSE i \in labels : TRUE].label
  BY DEF LabelAt
<1>3. PICK i \in regs : ErrorLvid(kind, start[1]) = ircode[i].lvid
  BY <1>1
<1>4. PICK j \in labels : LabelAt(start) = ircode[j].label
  BY <1>2
<1>5. i \in DOMAIN ircode /\ ircode[i].op \in Allocs /\ ircode[i].tag = << start[1], "var" >>
  BY DEF Tagged
<1>6. j \in DOMAIN ircode /\ ircode[j].op = "label" /\ ircode[j].tag = start
  BY DEF Tagged
<1>7. start = << start[1], "start" >>
  <2>1. start = << start[1], start[2] >>
    BY Pair DEF Tag
  <2>. QED  BY <2>1
<1>8. IsRegister(ircode[i]) /\ ircode[i].tag[2] = "var" /\ ircode[i].tag[1] = start[1]
  BY <1>5 DEF IsRegister
<1>9. ircode[j].tag = << ircode[i].tag[1], "start" >>
  BY <1>6, <1>7, <1>8
<1>10. ircode[i].lvid = ircode[j].label + 1
  BY <1>5, <1>6, <1>8, <1>9 DEF Errors
<1>. QED  BY <1>3, <1>4, <1>10

LEMMA RegisterSound ==
  ASSUME IInv, TodoOK(todo, opcodeCount), Sound(ircode, todo, Top.nextVarID), RegisterHandler
  PROVE  Sound(ircode', todo', Top'.nextVarID)
<1>. DEFINE start == todo[1].tag
            var == ErrorLvid(todo[1].op, start[1])
            x == Instruction("onscopefail", var, LabelAt(start), start)
            n == Top.nextVarID
<1>1. /\ todo # << >> /\ todo[1].do = "register" /\ ircode' = Append(ircode, x)
      /\ todo' = Tail(todo) /\ Top' = Top
  BY StateFacts DEF RegisterHandler, AtStep, Top
<1>2. /\ ircode \in Seq(Instr) /\ n \in Nat /\ opcodeCount \in Nat /\ todo[1] \in Step
      /\ 1 \in DOMAIN todo /\ opcodeCount = Len(ircode) /\ TypeOK
  BY <1>1, StateFacts
<1>3. start \in Tag /\ LabelAt(start) \in Nat /\ var \in Nat
  BY <1>1, <1>2, StepKinds, OperandsKnown
<1>4. start[2] = "start"
  BY <1>1, <1>2 DEF TodoOK, Kind
<1>5. var # 0 /\ LabelAt(start) # 0 => var = LabelAt(start) + 1
  BY <1>3, <1>4, HandlerOperands DEF Sound
<1>6. start[1] < Len(ircode) + 1
  BY <1>1, <1>2, TagBefore
<1>. HIDE DEF var, start
<1>7. x \in Instr
  BY <1>3, OtherType
<1>8. Neutral(x, Len(ircode) + 1)
  BY <1>4, <1>5, <1>6 DEF Neutral, IsRegister, Allocs, Instruction
<1>. HIDE DEF x
<1>9. n <= n
  BY <1>2
<1>10. todo[1].do \notin {"label", "alloc later", "reserve", "emit", "alloc"}
  BY <1>1
<1>11. Sound(Append(ircode, x), Tail(todo), n)
  BY <1>1, <1>2, <1>7, <1>8, <1>9, <1>10, SoundAppend
<1>. QED  BY <1>1, <1>11

LEMMA ExitSound ==
  ASSUME IInv, TodoOK(todo, opcodeCount), Sound(ircode, todo, Top.nextVarID), ExitHandler
  PROVE  Sound(ircode', todo', Top'.nextVarID)
<1>. DEFINE x == Instruction("jmp", 0, 0, << Top.at, "exit" >>)
            n == Top.nextVarID
            exits == Append(Top.onScopeFailExitLabels, ErrorLvid(Head(todo).op, Head(todo).tag[1]))
<1>1. /\ todo # << >> /\ todo[1].do = "exit" /\ ircode' = Append(ircode, x) /\ todo' = Tail(todo)
  BY StateFacts DEF ExitHandler, AtStep
<1>2. /\ ircode \in Seq(Instr) /\ n \in Nat /\ opcodeCount \in Nat /\ opcodeCount = Len(ircode)
      /\ TypeOK
  BY StateFacts
<1>3. Top'.nextVarID = n
  <2>1. scopes' = [scopes EXCEPT ![Len(scopes)] = [Top EXCEPT !.onScopeFailExitLabels = exits]]
    BY DEF ExitHandler, Top
  <2>. HIDE DEF exits
  <2>2. scopes \in Seq(Scope) /\ Len(scopes) \in Nat \ {0} /\ Top \in Scope
        /\ DOMAIN scopes = 1 .. Len(scopes)
    BY <1>2, TopScope DEF TypeOK
  <2>3. [Top EXCEPT !.onScopeFailExitLabels = exits].nextVarID = n
    BY <2>2 DEF Scope
  <2>4. Len(scopes') = Len(scopes)
    BY <2>1, <2>2
  <2>5. Top' = [Top EXCEPT !.onScopeFailExitLabels = exits]
    BY <2>1, <2>2, <2>4 DEF Top
  <2>. QED  BY <2>3, <2>5
<1>4. x \in Instr /\ x.op = "jmp" /\ x.tag[2] = "exit"
  <2>1. << Top.at, "exit" >> \in Tag
    BY <1>2, TopScope DEF Tag
  <2>2. x \in Instr
    BY <2>1, InstructionType DEF Jumps
  <2>. QED  BY <2>2 DEF Instruction
<1>. HIDE DEF x
<1>5. Neutral(x, Len(ircode) + 1)
  BY <1>4 DEF Neutral, IsRegister, Allocs
<1>6. n <= n
  BY <1>2
<1>7. todo[1].do \notin {"label", "alloc later", "reserve", "emit", "alloc"}
  BY <1>1
<1>8. Sound(Append(ircode, x), Tail(todo), n)
  BY <1>1, <1>2, <1>4, <1>5, <1>6, <1>7, SoundAppend
<1>. QED  BY <1>1, <1>3, <1>8

(* ~Scope, where handlers are left: the exit label, and what unregisters   *)
(* them.                                                                   *)
LEMMA LeftCode ==
  ASSUME IInv, Settled(ircode, todo)
  PROVE  /\ Grows(ircode, updateOnScopeFailExitLabels)
         /\ \A i \in DOMAIN updateOnScopeFailExitLabels :
              i \in DOMAIN ircode \/ Neutral(updateOnScopeFailExitLabels[i], i)
<1>. DEFINE exit == << Top.at, "exit" >>
            vs == Reverse(Top.onScopeFailExitLabels)
            q == Patched(exit, nextvar)
            x == Instruction("label", 0, nextvar, exit)
            a == Append(q, x)
            u == Unregistered(vs)
            d == a \o u
            z == Len(ircode) + 1
<1>1. ircode \in Seq(Instr) /\ TypeOK /\ nextvar \in Nat /\ Len(ircode) \in Nat
  BY StateFacts
<1>2. exit \in Tag /\ exit[2] = "exit"
  BY <1>1, TopScope DEF Tag
<1>3. vs \in Seq(Nat) /\ Len(vs) \in Nat
  <2>1. Top.onScopeFailExitLabels \in Seq(Nat)
    BY <1>1, TopScope
  <2>. QED  BY <2>1 DEF Reverse
<1>4. x \in Instr /\ x.op = "label" /\ x.tag = exit
  BY <1>1, <1>2, LabelType DEF Instruction
<1>5. /\ q \in Seq(Instr) /\ Len(q) = Len(ircode) /\ DOMAIN q = DOMAIN ircode
      /\ \A i \in DOMAIN ircode :
           /\ q[i].op = ircode[i].op /\ q[i].tag = ircode[i].tag
           /\ q[i].label = IF ircode[i].op \in Jumps /\ ircode[i].tag = exit
                           THEN nextvar ELSE ircode[i].label
           /\ q[i].lvid = IF ircode[i].op \in Allocs /\ ircode[i].tag = exit
                          THEN nextvar + 1 ELSE ircode[i].lvid
  <2>. HIDE DEF exit
  <2>. QED  BY <1>1, PatchedAt
<1>6. \A i \in DOMAIN ircode : ircode[i].op \in Allocs => ircode[i].tag # exit
  BY <1>2 DEF Settled, IsRegister
<1>7. /\ DOMAIN u = 1 .. 2 * Len(vs) /\ u \in Seq(Range(u)) /\ Len(u) = 2 * Len(vs)
      /\ \A i \in DOMAIN u : Neutral(u[i], Len(a) + i)
  <2>1. DOMAIN u = 1 .. 2 * Len(vs) /\ u = [i \in 1 .. 2 * Len(vs) |-> u[i]]
    BY DEF Unregistered
  <2>2. \A i \in DOMAIN u : /\ u[i].op = "end" \/ u[i].op = "onscopefail"
                            /\ u[i].label = 0 /\ u[i].tag = NoTag
    BY <2>1 DEF Unregistered, Instruction
  <2>3. 2 * Len(vs) \in Nat
    BY <1>3
  <2>4. Len(a) \in Nat
    BY <1>4, <1>5
  <2>5. NoTag[1] = 0
    BY DEF NoTag
  <2>. HIDE DEF u, a
  <2>6. u \in Seq(Range(u)) /\ Len(u) = 2 * Len(vs)
    BY <2>1, <2>3 DEF Range
  <2>7. \A i \in DOMAIN u : NoTag[1] < Len(a) + i
    BY <2>1, <2>4, <2>5
  <2>8. \A i \in DOMAIN u : Neutral(u[i], Len(a) + i)
    BY <2>2, <2>7 DEF Neutral, IsRegister, Allocs
  <2>. QED  BY <2>1, <2>6, <2>8
<1>. HIDE DEF q, x, u, vs
<1>8. /\ a \in Seq(Instr) /\ Len(a) = z /\ z \in DOMAIN a /\ a[z] = x
      /\ \A i \in DOMAIN ircode : i \in DOMAIN a /\ a[i] = q[i] /\ i \in Nat /\ 1 <= i /\ i < z
      /\ \A i \in DOMAIN a : i \in DOMAIN ircode \/ i = z
  <2>1. Len(a) = Len(q) + 1
    BY <1>4, <1>5
  <2>. QED  BY <1>4, <1>5, <2>1, AppendAt
<1>. HIDE DEF a
<1>9. /\ \A i \in DOMAIN a : i \in DOMAIN d /\ d[i] = a[i]
      /\ \A i \in DOMAIN d : i \in DOMAIN a \/ (i - Len(a) \in DOMAIN u /\ d[i] = u[i - Len(a)])
      /\ \A i \in DOMAIN d : i \in Nat
      /\ \A i \in DOMAIN d : i \in DOMAIN a \/ i > Len(a)
  <2>. DEFINE S == Instr \cup Range(u)
  <2>1. a \in Seq(S) /\ u \in Seq(S)
    BY <1>7, <1>8
  <2>. HIDE DEF S
  <2>. QED  BY <2>1
<1>. HIDE DEF d, z
<1>10. ASSUME NEW i \in DOMAIN ircode
       PROVE  /\ i \in DOMAIN d /\ d[i].op = ircode[i].op /\ d[i].tag = ircode[i].tag
              /\ d[i].lvid = ircode[i].lvid
              /\ d[i].op \notin Jumps => d[i].label = ircode[i].label
  BY <1>5, <1>6, <1>8, <1>9
<1>11. ASSUME NEW i \in DOMAIN d, i \notin DOMAIN ircode
       PROVE  Neutral(d[i], i) /\ \A j \in DOMAIN ircode : j < i
  <2>1. CASE i \in DOMAIN a
    <3>1. i = z /\ d[i] = x
      BY <1>8, <1>9, <1>11, <2>1
    <3>2. Neutral(x, i)
      BY <1>2, <1>4 DEF Neutral, IsRegister, Allocs
    <3>. QED  BY <1>8, <3>1, <3>2
  <2>2. CASE i \notin DOMAIN a
    <3>1. i - Len(a) \in DOMAIN u /\ d[i] = u[i - Len(a)] /\ i > Len(a) /\ i \in Nat
      BY <1>9, <2>2
    <3>2. Len(a) \in Nat
      BY <1>8
    <3>3. Len(a) + (i - Len(a)) = i
      BY <3>1, <3>2
    <3>4. Neutral(d[i], i)
      BY <1>7, <3>1, <3>3
    <3>. QED  BY <1>8, <3>1, <3>2, <3>4
  <2>. QED  BY <2>1, <2>2
<1>12. Grows(ircode, d)
  BY <1>10, <1>11 DEF Grows
<1>13. updateOnScopeFailExitLabels = d
  BY DEF updateOnScopeFailExitLabels, d, a, u, q, x, vs
<1>. QED  BY <1>11, <1>12, <1>13

LEMMA ScopeSound ==
  ASSUME IInv, TodoOK(todo, opcodeCount), Sound(ircode, todo, Top.nextVarID),
         EnterScope \/ LeaveScope
  PROVE  Sound(ircode', todo', Top'.nextVarID)
<1>. DEFINE n == Top.nextVarID
<1>1. /\ todo # << >> /\ (todo[1].do = "enter" \/ todo[1].do = "leave")
      /\ todo' = Tail(todo)
  BY StateFacts DEF EnterScope, LeaveScope, AtStep
<1>2. /\ ircode \in Seq(Instr) /\ n \in Nat /\ opcodeCount \in Nat /\ opcodeCount = Len(ircode)
  BY StateFacts
<1>3. Top'.nextVarID = n
  <2>1. CASE EnterScope
    BY <2>1, StateFacts DEF EnterScope, TypeOK, Top
  <2>2. CASE LeaveScope
    BY <2>2, LeftScopes
  <2>. QED  BY <2>1, <2>2
<1>4. Grows(ircode, ircode')
      /\ \A i \in DOMAIN ircode' : i \in DOMAIN ircode \/ Neutral(ircode'[i], i)
  <2>1. CASE ircode' = ircode
    <3>1. \A i, j \in DOMAIN ircode : i \in DOMAIN ircode \/ j < i
      OBVIOUS
    <3>. QED  BY <2>1, <3>1 DEF Grows
  <2>2. CASE ircode' # ircode
    <3>1. ircode' = updateOnScopeFailExitLabels
      BY <2>2 DEF EnterScope, LeaveScope
    <3>. QED  BY <3>1, LeftCode DEF Sound
  <2>. QED  BY <2>1, <2>2
<1>5. n <= n
  BY <1>2
<1>6. todo[1].do \notin {"label", "alloc later", "reserve", "emit", "alloc"}
  BY <1>1
<1>7. Sound(ircode', Tail(todo), n)
  BY <1>1, <1>2, <1>4, <1>5, <1>6, SoundOther
<1>. QED  BY <1>1, <1>3, <1>7

(* Every step keeps it.                                                    *)
LEMMA SoundStep ==
  ASSUME IInv, TodoOK(todo, opcodeCount), Sound(ircode, todo, Top.nextVarID), [Next]_vars
  PROVE  Sound(ircode', todo', Top'.nextVarID)
<1>1. CASE UNCHANGED vars
  BY <1>1 DEF vars, Top
<1>2. CASE /\ todo # << >> /\ todo[1].do \in {"stmt", "stmts", "expr"}
           /\ \E v : Visitor(v, opcodeCount) /\ todo' = v \o Tail(todo)
           /\ UNCHANGED << ircode, scopes, stacksize >>
  <2>1. PICK v : Visitor(v, opcodeCount) /\ todo' = v \o Tail(todo)
    BY <1>2
  <2>2. Visits(todo, v, Len(ircode))
    BY <1>2, <2>1, StateFacts DEF Visits
  <2>3. Top' = Top
    BY <1>2 DEF Top
  <2>4. ircode \in Seq(Instr) /\ Top.nextVarID \in Nat
    BY StateFacts
  <2>5. Sound(ircode, v \o Tail(todo), Top.nextVarID)
    BY <2>2, <2>4, SoundVisit
  <2>. QED  BY <1>2, <2>1, <2>3, <2>5
<1>3. CASE ~ UNCHANGED vars /\ ~ (VisitStmt \/ VisitExpr \/ VisitStmts)
  <2>1. \/ EmitPlain \/ EmitAlloc \/ EmitAllocLater \/ Reserve
        \/ EmitLabel \/ EmitJump \/ EmitJzraise
        \/ EnterScope \/ LeaveScope \/ RegisterHandler \/ ExitHandler \/ FinishFunc
    BY <1>3 DEF Next, Finished
  <2>. QED  BY <2>1, PlainSound, AllocSound, AllocLaterSound, ReserveSound, LabelSound, JumpSound,
               JzraiseSound, ScopeSound, RegisterSound, ExitSound, FinishSound
<1>4. VisitStmt \/ VisitExpr \/ VisitStmts => todo # << >> /\ todo[1].do \in {"stmt", "stmts", "expr"}
  BY StateFacts DEF VisitStmt, VisitExpr, VisitStmts, Visit, AtStep
<1>. QED  BY <1>1, <1>2, <1>3, <1>4, Moves

LEMMA SoundInit ==
  ASSUME Init
  PROVE  Sound(ircode, todo, Top.nextVarID)
<1>1. todo = Func /\ ircode = << >>
  BY DEF Init
<1>2. /\ \A k \in DOMAIN todo : todo[k].do # "label"
      /\ todo # << >> => ~ (todo[1].do = "alloc" /\ todo[1].tag[2] = "var")
  <2>1. Do("finish").do = "finish" /\ NoTag[2] = ""
    BY DEF Do, NoTag
  <2>2. todo \in Steps /\ \A k \in DOMAIN todo : Ordinary(todo[k]) \/ todo[k] = Do("finish")
    BY <1>1, FuncSteps DEF TodoOK
  <2>3. \A k \in DOMAIN todo : /\ todo[k].do # "label"
                               /\ ~ (todo[k].do = "alloc" /\ todo[k].tag[2] = "var")
    BY <2>1, <2>2 DEF Ordinary
  <2>4. todo # << >> => 1 \in DOMAIN todo
    BY <2>2, TailAt
  <2>. QED  BY <2>3, <2>4
<1>3. DOMAIN ircode = {}
  BY <1>1
<1>4. Dated(ircode) /\ Settled(ircode, todo) /\ Distinct(ircode, todo, Top.nextVarID)
  BY <1>3 DEF Dated, Settled, Distinct
<1>5. Circuits(ircode, todo, Top.nextVarID)
  BY <1>2, <1>3 DEF Circuits
<1>6. Errors(ircode, todo, Top.nextVarID)
  BY <1>2, <1>3 DEF Errors
<1>. QED  BY <1>4, <1>5, <1>6 DEF Sound

LEMMA SoundInductive == Spec => [](TodoOK(todo, opcodeCount) /\ JInv /\ Sound(ircode, todo, Top.nextVarID))
<1>. DEFINE Inv == Sound(ircode, todo, Top.nextVarID)
            Basis == IInv /\ TodoOK(todo, opcodeCount) /\ JInv
<1>1. Init => Inv
  BY SoundInit
<1>2. Basis /\ Inv /\ [Next]_vars => Inv'
  BY SoundStep
<1>3. Spec => []Basis
  BY JInductive
<1>4. Basis => TodoOK(todo, opcodeCount) /\ JInv
  OBVIOUS
<1>. HIDE DEF Inv, Basis
<1>5. Spec => []Inv
  BY <1>1, <1>2, <1>3, PTL DEF Spec
<1>6. Spec => [](TodoOK(todo, opcodeCount) /\ JInv /\ Inv)
  BY <1>3, <1>4, <1>5, PTL
<1>. QED  BY <1>6 DEF Inv

(* When the function is translated nothing is left to do.                  *)
LEMMA Complete ==
  ASSUME TodoOK(todo, opcodeCount), JInv, Translated, NEW label, NEW n
  PROVE  (\A tag : ~ Named(todo, tag)) /\ ~ Pending(todo, label, n)
<1>1. todo = << >>
  BY DEF JInv, Translated
<1>2. \A tag : ~ Named(todo, tag)
  BY <1>1 DEF Named
<1>3. Len(todo) = 0
  BY <1>1
<1>. QED  BY <1>2, <1>3 DEF Pending

(* No two declarations of a function share a register, at any depth of     *)
(* scopes: the counter each Scope copies is given back, so that it never   *)
(* falls, and the register of a short circuit takes the number its label   *)
(* reserves.                                                               *)
THEOREM RegistersNotShared == Spec => []RegistersUnique
<1>1. ASSUME TodoOK(todo, opcodeCount), JInv, Sound(ircode, todo, Top.nextVarID)
      PROVE  RegistersUnique
  <2>. SUFFICES ASSUME Translated, NEW i \in Registers, NEW j \in Registers, i # j
                PROVE  ircode[i].lvid # ircode[j].lvid
    BY DEF RegistersUnique
  <2>1. ~ Named(todo, ircode[i].tag)
    BY <1>1, Complete
  <2>2. i \in DOMAIN ircode /\ j \in DOMAIN ircode /\ IsRegister(ircode[i]) /\ IsRegister(ircode[j])
    BY DEF Registers, IsRegister
  <2>. QED  BY <1>1, <2>1, <2>2 DEF Sound, Distinct
<1>. QED  BY <1>1, SoundInductive, PTL

(* The registers other passes compute from a label are declared for that:  *)
(* the error of a handler is in the one after its label, and a short       *)
(* circuit has the two after its label, one declared above it and one      *)
(* below.                                                                  *)
THEOREM SlotsDeclared == Spec => []SlotsReserved
<1>1. ASSUME TodoOK(todo, opcodeCount), JInv, Sound(ircode, todo, Top.nextVarID)
      PROVE  SlotsReserved
  <2>. SUFFICES ASSUME Translated, NEW i \in DOMAIN ircode
                PROVE  /\ (ircode[i].op = "onscopefail" /\ ircode[i].lvid # 0
                            /\ ircode[i].label # 0) => ircode[i].lvid = ircode[i].label + 1
                       /\ (ircode[i].op = "label" /\ ircode[i].tag[2] = "sc") =>
                            /\ \E j \in Registers : j < i /\ ircode[j].lvid = ircode[i].label + 1
                            /\ \E j \in Registers : j > i /\ ircode[j].lvid = ircode[i].label + 2
    BY DEF SlotsReserved
  <2>1. \A j \in DOMAIN ircode : IsRegister(ircode[j]) => j \in Registers
    BY DEF Registers, IsRegister
  <2>2. ~ Pending(todo, ircode[i].label, Top.nextVarID)
    BY <1>1, Complete
  <2>3. ASSUME ircode[i].op = "onscopefail", ircode[i].lvid # 0, ircode[i].label # 0
        PROVE  ircode[i].lvid = ircode[i].label + 1
    BY <1>1, <2>3 DEF Sound, Errors
  <2>4. ASSUME ircode[i].op = "label", ircode[i].tag[2] = "sc"
        PROVE  /\ \E j \in Registers : j < i /\ ircode[j].lvid = ircode[i].label + 1
               /\ \E j \in Registers : j > i /\ ircode[j].lvid = ircode[i].label + 2
    BY <1>1, <2>1, <2>2, <2>4 DEF Sound, Circuits
  <2>. QED  BY <2>3, <2>4
<1>. QED  BY <1>1, SoundInductive, PTL

-----------------------------------------------------------------------------
(* The handlers in force are those of the blocks being translated.         *)

InForce(e) == FlattenSeq(Exits(e))

(* The register of the error, as ErrorLvid finds it in the code c.         *)
Received(c, kind, at) ==
  LET found == {i \in DOMAIN c : c[i].op \in Allocs /\ c[i].tag = << at, "var" >>}
  IN  IF kind = "any" \/ found = {} THEN 0 ELSE c[CHOOSE i \in found : TRUE].lvid

(* A handler about to be registered has a label, in the code or to come.   *)
Started(c, s) ==
  \A k \in DOMAIN s :
    s[k].do = "register" =>
      \/ \E j \in DOMAIN s : j < k /\ s[j].do = "label" /\ s[j].tag = s[k].tag
      \/ \E i \in DOMAIN c : c[i].op = "label" /\ c[i].tag = s[k].tag

(* No label has the number that says a handler is left.                    *)
LabelsNumbered(c) == \A i \in DOMAIN c : c[i].op = "label" => c[i].label # 0

(* Between its registration and the jump that ends it, the last handler is *)
(* not in the list of its Scope yet.                                       *)
Mirror(c, s, e) ==
  HandlersIn(c) = IF s # << >> /\ s[1].do = "exit"
                  THEN Append(InForce(e), Received(c, s[1].op, s[1].tag[1]))
                  ELSE InForce(e)

Mirrored(c, s, e) == Started(c, s) /\ LabelsNumbered(c) /\ Mirror(c, s, e)

(* The labels of c are still there.                                        *)
LabelsKept(c, d) ==
  \A i \in DOMAIN c :
    c[i].op = "label" =>
      i \in DOMAIN d /\ d[i].op = "label" /\ d[i].tag = c[i].tag /\ d[i].label = c[i].label

LEMMA StartedTail ==
  ASSUME NEW s \in Steps, s # << >>, NEW c, NEW d, LabelsKept(c, d), Started(c, s),
         s[1].do = "label" => \E i \in DOMAIN d : d[i].op = "label" /\ d[i].tag = s[1].tag
  PROVE  Started(d, Tail(s))
<1>. DEFINE t == Tail(s)
<1>1. /\ \A k \in DOMAIN t : k + 1 \in DOMAIN s /\ t[k] = s[k + 1] /\ k \in Nat
      /\ \A k \in DOMAIN s : k \in Nat /\ (k = 1 \/ (k - 1 \in DOMAIN t /\ s[k] = t[k - 1]))
  BY TailAt
<1>. HIDE DEF t
<1>2. ASSUME NEW k \in DOMAIN t, t[k].do = "register"
      PROVE  \/ \E j \in DOMAIN t : j < k /\ t[j].do = "label" /\ t[j].tag = t[k].tag
             \/ \E i \in DOMAIN d : d[i].op = "label" /\ d[i].tag = t[k].tag
  <2>1. \/ \E j \in DOMAIN s : j < k + 1 /\ s[j].do = "label" /\ s[j].tag = t[k].tag
        \/ \E i \in DOMAIN c : c[i].op = "label" /\ c[i].tag = t[k].tag
    BY <1>1, <1>2 DEF Started
  <2>2. CASE \E i \in DOMAIN c : c[i].op = "label" /\ c[i].tag = t[k].tag
    BY <2>2 DEF LabelsKept
  <2>3. ASSUME NEW j \in DOMAIN s, j < k + 1, s[j].do = "label", s[j].tag = t[k].tag
        PROVE  \/ \E h \in DOMAIN t : h < k /\ t[h].do = "label" /\ t[h].tag = t[k].tag
               \/ \E i \in DOMAIN d : d[i].op = "label" /\ d[i].tag = t[k].tag
    <3>1. CASE j = 1
      BY <2>3, <3>1
    <3>2. CASE j # 1
      <4>1. j - 1 \in DOMAIN t /\ t[j - 1] = s[j] /\ j \in Nat /\ k \in Nat
        BY <1>1, <3>2
      <4>2. j - 1 < k
        BY <2>3, <4>1, Before
      <4>. QED  BY <2>3, <4>1, <4>2
    <3>. QED  BY <3>1, <3>2
  <2>. QED  BY <2>1, <2>2, <2>3
<1>3. Started(d, t)
  BY <1>2 DEF Started
<1>. QED  BY <1>3 DEF t

LEMMA StartedVisit ==
  ASSUME NEW s, NEW n \in Nat, TodoOK(s, n), s # << >>, s[1].do \in {"stmt", "stmts", "expr"},
         NEW v, Visitor(v, n), NEW c, Started(c, s)
  PROVE  Started(c, v \o Tail(s))
<1>. DEFINE t == v \o Tail(s)
            l == Len(v)
<1>1. /\ \A k \in DOMAIN t : \/ k \in DOMAIN v /\ t[k] = v[k]
                             \/ /\ k - l + 1 \in DOMAIN s /\ t[k] = s[k - l + 1]
                                /\ k - l + 1 > 1 /\ k > l
      /\ \A k \in DOMAIN v : k \in DOMAIN t /\ t[k] = v[k]
      /\ \A k \in DOMAIN s : k > 1 => k - 1 + l \in DOMAIN t /\ t[k - 1 + l] = s[k]
      /\ TodoOK(t, n)
  BY TodoVisit
<1>5. t \in Steps /\ s \in Steps /\ v \in Steps
  <2>. HIDE DEF t
  <2>. QED  BY <1>1 DEF TodoOK, Visitor
<1>2. /\ l \in Nat /\ \A k \in DOMAIN t : k \in Nat
      /\ \A k \in DOMAIN s : k \in Nat /\ 1 <= k
  BY <1>5, Positions
<1>. HIDE DEF t, l
<1>3. ASSUME NEW k \in DOMAIN t, t[k].do = "register"
      PROVE  \/ \E j \in DOMAIN t : j < k /\ t[j].do = "label" /\ t[j].tag = t[k].tag
             \/ \E i \in DOMAIN c : c[i].op = "label" /\ c[i].tag = t[k].tag
  <2>1. CASE k \in DOMAIN v /\ t[k] = v[k]
    <3>1. \E j \in DOMAIN v : j < k /\ v[j].do = "label" /\ v[j].tag = v[k].tag
      BY <1>3, <2>1 DEF Visitor, Begun
    <3>. QED  BY <1>1, <2>1, <3>1
  <2>2. CASE k - l + 1 \in DOMAIN s /\ t[k] = s[k - l + 1] /\ k - l + 1 > 1
    <3>1. \/ \E j \in DOMAIN s : j < k - l + 1 /\ s[j].do = "label" /\ s[j].tag = t[k].tag
          \/ \E i \in DOMAIN c : c[i].op = "label" /\ c[i].tag = t[k].tag
      BY <1>3, <2>2 DEF Started
    <3>2. ASSUME NEW j \in DOMAIN s, j < k - l + 1, s[j].do = "label", s[j].tag = t[k].tag
          PROVE  \E h \in DOMAIN t : h < k /\ t[h].do = "label" /\ t[h].tag = t[k].tag
      <4>1. j # 1 /\ j \in Nat /\ 1 <= j /\ k \in Nat /\ l \in Nat
        BY <1>2, <3>2
      <4>2. j > 1 /\ j - 1 + l < k
        BY <3>2, <4>1
      <4>. QED  BY <1>1, <3>2, <4>2
    <3>. QED  BY <3>1, <3>2
  <2>. QED  BY <1>1, <2>1, <2>2
<1>4. Started(c, t)
  BY <1>3 DEF Started
<1>. QED  BY <1>4 DEF t

LEMMA NoExitNext ==
  ASSUME NEW s, NEW n, TodoOK(s, n), s # << >>, s[1].do # "register"
  PROVE  ~ (Tail(s) # << >> /\ Tail(s)[1].do = "exit")
<1>. SUFFICES ASSUME Tail(s) # << >>, Tail(s)[1].do = "exit"
              PROVE  FALSE
  OBVIOUS
<1>1. s \in Steps
  BY DEF TodoOK
<1>2. 1 \in DOMAIN Tail(s)
  BY <1>1, TailAt
<1>3. 1 + 1 \in DOMAIN s /\ Tail(s)[1] = s[1 + 1] /\ 1 + 1 > 1
  BY <1>1, <1>2, TailAt
<1>4. s[(1 + 1) - 1].do = "register"
  BY <1>3 DEF TodoOK, After
<1>. QED  BY <1>4

(* The lists of the live scopes.                                           *)
LEMMA ExitsType ==
  ASSUME NEW e \in Seq(Scope)
  PROVE  Exits(e) \in Seq(Seq(Nat)) /\ Len(Exits(e)) = Len(e) /\ InForce(e) \in Seq(Nat)
<1>1. \A x \in Scope : x.onScopeFailExitLabels \in Seq(Nat)
  BY DEF Scope
<1>2. Len(e) \in Nat /\ DOMAIN e = 1 .. Len(e) /\ \A i \in DOMAIN e : e[i] \in Scope
  OBVIOUS
<1>3. Exits(e) \in [1 .. Len(e) -> Seq(Nat)]
  BY <1>1, <1>2 DEF Exits
<1>4. Exits(e) \in Seq(Seq(Nat)) /\ Len(Exits(e)) = Len(e)
  <2>. DEFINE S == Seq(Nat)
              x == Exits(e)
  <2>1. x \in [1 .. Len(e) -> S]
    BY <1>3
  <2>. HIDE DEF S, x
  <2>2. x \in Seq(S) /\ Len(x) = Len(e)
    BY <1>2, <2>1
  <2>. QED  BY <2>2 DEF S, x
<1>. QED  BY <1>4, FlattenType DEF InForce

LEMMA SameExits ==
  ASSUME NEW e, NEW f, DOMAIN e = DOMAIN f,
         \A i \in DOMAIN e : e[i].onScopeFailExitLabels = f[i].onScopeFailExitLabels
  PROVE  Exits(e) = Exits(f)
BY DEF Exits

LEMMA ExitsAppend ==
  ASSUME NEW e \in Seq(Scope), NEW x \in Scope
  PROVE  InForce(Append(e, x)) = InForce(e) \o x.onScopeFailExitLabels
<1>. DEFINE f == Append(e, x)
            y == x.onScopeFailExitLabels
            g == Exits(e)
            S == Seq(Nat)
<1>1. /\ f \in Seq(Scope) /\ Len(f) = Len(e) + 1 /\ f[Len(e) + 1] = x
      /\ \A i \in 1 .. Len(e) : f[i] = e[i]
      /\ DOMAIN f = 1 .. Len(e) + 1 /\ DOMAIN e = 1 .. Len(e) /\ Len(e) \in Nat
  OBVIOUS
<1>2. y \in S
  BY DEF Scope
<1>3. g \in Seq(S) /\ Len(g) = Len(e)
  BY ExitsType
<1>4. Exits(f) = Append(g, y)
  <2>1. ASSUME NEW i \in 1 .. Len(e) + 1
        PROVE  f[i].onScopeFailExitLabels = Append(g, y)[i]
    <3>1. CASE i = Len(e) + 1
      <4>. HIDE DEF f, g, y, S
      <4>1. Append(g, y)[Len(e) + 1] = y
        BY <1>2, <1>3
      <4>. QED  BY <1>1, <3>1, <4>1 DEF y
    <3>2. CASE i \in 1 .. Len(e)
      <4>1. g[i] = e[i].onScopeFailExitLabels
        BY <1>1, <3>2 DEF Exits
      <4>. HIDE DEF f, g, y, S
      <4>2. Append(g, y)[i] = g[i]
        BY <1>2, <1>3, <3>2
      <4>3. f[i] = e[i]
        BY <1>1, <3>2
      <4>. QED  BY <4>1, <4>2, <4>3
    <3>3. i = Len(e) + 1 \/ i \in 1 .. Len(e)
      <4>1. Len(e) \in Nat
        OBVIOUS
      <4>. QED  BY <4>1
    <3>. HIDE DEF f, g, y, S
    <3>. QED  BY <3>1, <3>2, <3>3
  <2>. HIDE DEF f, g, y, S
  <2>2. Append(g, y) = [i \in 1 .. Len(e) + 1 |-> Append(g, y)[i]]
    <3>. DEFINE a == Append(g, y)
    <3>1. a \in Seq(S) /\ Len(a) = Len(e) + 1
      BY <1>2, <1>3
    <3>. HIDE DEF a
    <3>2. DOMAIN a = 1 .. Len(e) + 1 /\ a = [i \in DOMAIN a |-> a[i]]
      BY <3>1
    <3>. QED  BY <3>2 DEF a
  <2>3. Exits(f) = [i \in 1 .. Len(e) + 1 |-> f[i].onScopeFailExitLabels]
    BY <1>1 DEF Exits
  <2>. QED  BY <2>1, <2>2, <2>3
<1>5. FlattenSeq(Append(g, y)) = FlattenSeq(g) \o y
  BY <1>2, <1>3, FlattenOne
<1>. QED  BY <1>4, <1>5 DEF InForce

LEMMA ExitsFront ==
  ASSUME NEW e \in Seq(Scope), e # << >>
  PROVE  /\ Front(e) \in Seq(Scope)
         /\ InForce(e) = InForce(Front(e)) \o e[Len(e)].onScopeFailExitLabels
<1>. DEFINE f == Front(e)
            x == e[Len(e)]
<1>1. /\ f \in Seq(Scope) /\ x \in Scope /\ e = Append(f, x)
  <2>1. Len(e) \in Nat \ {0} /\ e \in [1 .. Len(e) -> Scope]
    OBVIOUS
  <2>2. f \in Seq(Scope) /\ Len(f) = Len(e) - 1 /\ \A i \in 1 .. Len(e) - 1 : f[i] = e[i]
    BY <2>1 DEF Front
  <2>3. x \in Scope
    BY <2>1
  <2>. HIDE DEF f, x
  <2>4. Append(f, x) \in Seq(Scope) /\ Len(Append(f, x)) = Len(e)
        /\ \A i \in 1 .. Len(e) : Append(f, x)[i] = e[i]
    <3>1. Append(f, x) \in Seq(Scope) /\ Len(Append(f, x)) = Len(f) + 1
          /\ Append(f, x)[Len(f) + 1] = x /\ \A i \in 1 .. Len(f) : Append(f, x)[i] = f[i]
      BY <2>2, <2>3
    <3>2. Len(f) + 1 = Len(e) /\ \A i \in 1 .. Len(e) : i = Len(e) \/ i \in 1 .. Len(f)
      <4>. DEFINE m == Len(e)
                  k == Len(f)
      <4>1. m \in Nat \ {0} /\ k = m - 1
        BY <2>1, <2>2
      <4>. HIDE DEF m, k
      <4>2. k + 1 = m /\ \A i \in 1 .. m : i = m \/ i \in 1 .. k
        BY <4>1
      <4>. QED  BY <4>2 DEF m, k
    <3>. QED  BY <2>2, <3>1, <3>2 DEF x
  <2>5. e = Append(f, x)
    BY <2>1, <2>4, SeqEqual
  <2>. QED  BY <2>2, <2>3, <2>5
<1>. HIDE DEF f, x
<1>2. InForce(Append(f, x)) = InForce(f) \o x.onScopeFailExitLabels
  BY <1>1, ExitsAppend
<1>3. InForce(e) = InForce(f) \o x.onScopeFailExitLabels
  BY <1>1, <1>2
<1>. QED  BY <1>1, <1>3 DEF f, x

LEMMA ConcatAppend ==
  ASSUME NEW a \in Seq(Nat), NEW b \in Seq(Nat), NEW x \in Nat
  PROVE  a \o Append(b, x) = Append(a \o b, x) /\ a \o << >> = a
<1>1. a \o Append(b, x) \in Seq(Nat) /\ Append(a \o b, x) \in Seq(Nat)
  OBVIOUS
<1>2. Len(a \o Append(b, x)) = Len(a) + Len(b) + 1 /\ Len(Append(a \o b, x)) = Len(a) + Len(b) + 1
      /\ Len(a) \in Nat /\ Len(b) \in Nat
  OBVIOUS
<1>3. ASSUME NEW i \in 1 .. Len(a) + Len(b) + 1
      PROVE  (a \o Append(b, x))[i] = Append(a \o b, x)[i]
  OBVIOUS
<1>. QED  BY <1>1, <1>2, <1>3, SeqEqual

(* An instruction that is neither a label nor about handlers.              *)
LEMMA MirroredAppend ==
  ASSUME NEW c \in Seq(Instr), NEW s, NEW n, TodoOK(s, n), s # << >>,
         s[1].do \notin {"register", "exit", "label"}, NEW e, Mirrored(c, s, e),
         NEW d, d = c \/ \E x : d = Append(c, x) /\ x.op \notin {"label", "onscopefail"},
         NEW f, InForce(f) = InForce(e)
  PROVE  Mirrored(d, Tail(s), f)
<1>1. HandlersIn(c) = InForce(e) /\ Started(c, s) /\ LabelsNumbered(c) /\ s \in Steps
  BY DEF Mirrored, Mirror, TodoOK
<1>2. LabelsKept(c, d) /\ LabelsNumbered(d) /\ HandlersIn(d) = HandlersIn(c)
  <2>1. CASE d = c
    BY <1>1, <2>1 DEF LabelsKept
  <2>2. ASSUME NEW x, d = Append(c, x), x.op \notin {"label", "onscopefail"}
        PROVE  LabelsKept(c, d) /\ LabelsNumbered(d) /\ HandlersIn(d) = HandlersIn(c)
    <3>1. /\ DOMAIN d = 1 .. Len(c) + 1 /\ DOMAIN c = 1 .. Len(c) /\ d[Len(c) + 1] = x
          /\ \A i \in 1 .. Len(c) : d[i] = c[i] /\ Len(c) \in Nat
      BY <2>2
    <3>2. LabelsKept(c, d)
      BY <3>1 DEF LabelsKept
    <3>3. LabelsNumbered(d)
      <4>1. \A i \in DOMAIN d : i = Len(c) + 1 \/ i \in DOMAIN c
        BY <3>1
      <4>. QED  BY <1>1, <2>2, <3>1, <4>1 DEF LabelsNumbered
    <3>4. HandlersIn(d) = Handled(HandlersIn(c), x)
      BY <2>2, ReadOne
    <3>. QED  BY <2>2, <3>2, <3>3, <3>4 DEF Handled
  <2>. QED  BY <2>1, <2>2
<1>3. Started(d, Tail(s))
  BY <1>1, <1>2, StartedTail
<1>4. Mirror(d, Tail(s), f)
  <2>1. ~ (Tail(s) # << >> /\ Tail(s)[1].do = "exit")
    BY NoExitNext
  <2>. QED  BY <1>1, <1>2, <2>1 DEF Mirror
<1>. QED  BY <1>2, <1>3, <1>4 DEF Mirrored

LEMMA TookExits ==
  ASSUME TypeOK, Took
  PROVE  InForce(scopes') = InForce(scopes)
<1>1. scopes \in Seq(Scope) /\ Len(scopes) \in Nat \ {0} /\ DOMAIN scopes = 1 .. Len(scopes)
      /\ Top \in Scope
  BY TopScope DEF TypeOK
<1>2. scopes' = [scopes EXCEPT ![Len(scopes)] = [Top EXCEPT !.nextVarID = nextvar]]
  BY DEF Took, Top
<1>3. [Top EXCEPT !.nextVarID = nextvar].onScopeFailExitLabels = Top.onScopeFailExitLabels
  BY <1>1 DEF Scope
<1>4. DOMAIN scopes' = DOMAIN scopes
      /\ \A i \in DOMAIN scopes : scopes'[i].onScopeFailExitLabels = scopes[i].onScopeFailExitLabels
  BY <1>1, <1>2, <1>3 DEF Top
<1>5. Exits(scopes') = Exits(scopes)
  BY <1>4, SameExits
<1>. QED  BY <1>5 DEF InForce

(* The steps that emit such an instruction, or none.                       *)
LEMMA MirroredOther ==
  ASSUME IInv, TodoOK(todo, opcodeCount), Mirrored(ircode, todo, scopes),
         \/ EmitPlain \/ EmitAlloc \/ EmitAllocLater \/ Reserve
         \/ EmitJump \/ EmitJzraise \/ EnterScope \/ FinishFunc
  PROVE  Mirrored(ircode', todo', scopes')
<1>1. ircode \in Seq(Instr) /\ TypeOK
  BY StateFacts
<1>2. todo # << >> /\ todo' = Tail(todo) /\ Head(todo) = todo[1] /\ todo[1] \in Step
  <2>1. todo # << >> /\ todo' = Tail(todo)
    BY DEF EmitPlain, EmitAlloc, EmitAllocLater, Reserve, EmitJump, EmitJzraise, EnterScope,
           FinishFunc, AtStep
  <2>. QED  BY <2>1, StateFacts
<1>3. todo[1].do \in {"emit", "alloc", "alloc later", "reserve", "jump", "jzraise", "enter", "finish"}
  BY <1>2 DEF EmitPlain, EmitAlloc, EmitAllocLater, Reserve, EmitJump, EmitJzraise, EnterScope,
              FinishFunc, AtStep
<1>4. \/ ircode' = ircode
      \/ \E x : ircode' = Append(ircode, x) /\ x.op \notin {"label", "onscopefail"}
  <2>1. ASSUME NEW x, ircode' = Append(ircode, x), x.op \notin {"label", "onscopefail"}
        PROVE  \E y : ircode' = Append(ircode, y) /\ y.op \notin {"label", "onscopefail"}
    BY <2>1
  <2>2. \A op, lvid, label, tag : Instruction(op, lvid, label, tag).op = op
    BY DEF Instruction
  <2>3. CASE EmitPlain
    <3>1. Head(todo).op \notin {"label", "onscopefail"}
      BY <1>2, <2>3, StepKinds DEF EmitPlain, AtStep
    <3>. QED  BY <2>1, <2>2, <2>3, <3>1 DEF EmitPlain
  <2>4. CASE EmitAlloc
    <3>1. Head(todo).op \notin {"label", "onscopefail"}
      <4>1. Head(todo).do = "alloc"
        BY <2>4 DEF EmitAlloc, AtStep
      <4>2. Head(todo).op \in Allocs
        BY <1>2, <4>1, StepKinds
      <4>. QED  BY <4>2 DEF Allocs
    <3>. QED  BY <2>1, <2>2, <2>4, <3>1 DEF EmitAlloc
  <2>5. CASE EmitAllocLater
    <3>1. Head(todo).op \notin {"label", "onscopefail"}
      <4>1. Head(todo).do = "alloc later"
        BY <2>5 DEF EmitAllocLater, AtStep
      <4>2. Head(todo).op \in Allocs
        BY <1>2, <4>1, StepKinds
      <4>. QED  BY <4>2 DEF Allocs
    <3>2. ircode' = Append(ircode, Instruction(Head(todo).op, 0, 0, Head(todo).tag))
      BY <2>5 DEF EmitAllocLater
    <3>. QED  BY <2>1, <2>2, <3>1, <3>2
  <2>6. CASE EmitJump
    <3>1. Head(todo).op \notin {"label", "onscopefail"}
      BY <1>2, <2>6, StepKinds DEF EmitJump, AtStep, Jumps
    <3>. QED  BY <2>1, <2>2, <2>6, <3>1 DEF EmitJump
  <2>7. CASE EmitJzraise \/ FinishFunc
    BY <2>1, <2>2, <2>7 DEF EmitJzraise, FinishFunc
  <2>8. CASE Reserve \/ EnterScope
    BY <2>8 DEF Reserve, EnterScope
  <2>. QED  BY <2>3, <2>4, <2>5, <2>6, <2>7, <2>8
<1>5. InForce(scopes') = InForce(scopes)
  <2>1. CASE UNCHANGED scopes
    BY <2>1
  <2>2. CASE Took
    BY <1>1, <1>2, <2>2, TookExits
  <2>3. CASE EnterScope
    <3>. DEFINE x == [nextVarID |-> Top.nextVarID, at |-> opcodeCount,
                      onScopeFailExitLabels |-> << >>]
    <3>1. scopes \in Seq(Scope) /\ opcodeCount \in Nat /\ Top.nextVarID \in Nat
      BY StateFacts DEF TypeOK
    <3>2. x \in Scope /\ x.onScopeFailExitLabels = << >>
      BY <3>1 DEF Scope
    <3>3. scopes' = Append(scopes, x)
      BY <2>3 DEF EnterScope
    <3>. HIDE DEF x
    <3>4. InForce(scopes') = InForce(scopes) \o << >>
      BY <3>1, <3>2, <3>3, ExitsAppend
    <3>5. InForce(scopes) \in Seq(Nat)
      BY <3>1, ExitsType
    <3>. QED  BY <3>4, <3>5
  <2>. QED  BY <2>1, <2>2, <2>3 DEF EmitPlain, EmitAlloc, EmitAllocLater, Reserve, EmitJump,
                                    EmitJzraise, EnterScope, FinishFunc
<1>. HIDE DEF InForce
<1>6. ircode \in Seq(Instr)
  BY StateFacts
<1>7. todo[1].do \notin {"register", "exit", "label"}
  BY <1>3
<1>8. Mirrored(ircode', Tail(todo), scopes')
  BY <1>2, <1>4, <1>5, <1>6, <1>7, MirroredAppend
<1>. QED  BY <1>2, <1>8

(* Patching and a label change nothing the analyzer reads of the handlers. *)
LEMMA ReadLabel ==
  ASSUME IInv, LabelsNumbered(ircode), NEW tag \in Tag
  PROVE  LET a == Append(Patched(tag, nextvar), Instruction("label", 0, nextvar, tag))
         IN  /\ a \in Seq(Instr) /\ LabelsNumbered(a) /\ LabelsKept(ircode, a)
             /\ \E i \in DOMAIN a : a[i].op = "label" /\ a[i].tag = tag
             /\ HandlersIn(a) = HandlersIn(ircode)
<1>. DEFINE x == Instruction("label", 0, nextvar, tag)
            p == Patched(tag, nextvar)
            a == Append(p, x)
            z == Len(ircode) + 1
<1>1. ircode \in Seq(Instr) /\ nextvar \in Nat /\ nextvar # 0
  BY StateFacts
<1>2. x \in Instr /\ x.op = "label" /\ x.tag = tag /\ x.label = nextvar
  BY <1>1, LabelType DEF Instruction
<1>3. /\ p \in Seq(Instr) /\ Len(p) = Len(ircode) /\ DOMAIN p = DOMAIN ircode
      /\ \A i \in DOMAIN ircode :
           /\ p[i].op = ircode[i].op /\ p[i].tag = ircode[i].tag
           /\ p[i].label = IF ircode[i].op \in Jumps /\ ircode[i].tag = tag
                           THEN nextvar ELSE ircode[i].label
           /\ p[i].lvid = IF ircode[i].op \in Allocs /\ ircode[i].tag = tag
                          THEN nextvar + 1 ELSE ircode[i].lvid
  BY <1>1, PatchedAt
<1>. HIDE DEF x, p
<1>4. /\ a \in Seq(Instr) /\ z \in DOMAIN a /\ a[z] = x
      /\ \A i \in DOMAIN p : i \in DOMAIN a /\ a[i] = p[i]
      /\ \A i \in DOMAIN a : i \in DOMAIN p \/ i = z
  BY <1>1, <1>2, <1>3, AppendAt
<1>5. HandlersIn(a) = HandlersIn(p)
  <2>1. HandlersIn(a) = Handled(HandlersIn(p), x)
    BY <1>3, ReadOne
  <2>. QED  BY <1>2, <2>1 DEF Handled
<1>. HIDE DEF a, z
<1>6. "label" \notin Jumps /\ "onscopefail" \notin Jumps /\ "onscopefail" \notin Allocs
  BY DEF Jumps, Allocs
<1>7. HandlersIn(p) = HandlersIn(ircode)
  <2>1. \A i \in DOMAIN p : /\ p[i].op = ircode[i].op
                            /\ p[i].op = "onscopefail" =>
                                 p[i].lvid = ircode[i].lvid /\ p[i].label = ircode[i].label
    BY <1>3, <1>6
  <2>. QED  BY <1>1, <1>3, <2>1, ReadSame
<1>8. LabelsKept(ircode, a)
  BY <1>3, <1>4, <1>6 DEF LabelsKept
<1>9. LabelsNumbered(a)
  <2>. SUFFICES ASSUME NEW i \in DOMAIN a, a[i].op = "label" PROVE a[i].label # 0
    BY DEF LabelsNumbered
  <2>1. CASE i = z
    BY <1>1, <1>2, <1>4, <2>1
  <2>2. CASE i \in DOMAIN ircode
    <3>1. a[i] = p[i]
      BY <1>3, <1>4, <2>2
    <3>2. ircode[i].op = "label" /\ p[i].label = ircode[i].label
      BY <1>3, <1>6, <2>2, <3>1
    <3>. QED  BY <2>2, <3>1, <3>2 DEF LabelsNumbered
  <2>. QED  BY <1>3, <1>4, <2>1, <2>2
<1>. QED  BY <1>2, <1>4, <1>5, <1>7, <1>8, <1>9 DEF a, p, x

LEMMA MirroredLabel ==
  ASSUME IInv, TodoOK(todo, opcodeCount), Mirrored(ircode, todo, scopes), EmitLabel
  PROVE  Mirrored(ircode', todo', scopes')
<1>. DEFINE tag == todo[1].tag
            a == Append(Patched(tag, nextvar), Instruction("label", 0, nextvar, tag))
<1>1. /\ todo # << >> /\ todo[1].do = "label" /\ ircode' = a /\ todo' = Tail(todo) /\ Took
      /\ TypeOK /\ todo \in Steps /\ todo[1] \in Step
  BY StateFacts DEF EmitLabel, AtStep
<1>2. tag \in Tag
  BY <1>1, StepKinds
<1>. HIDE DEF tag
<1>3. /\ Started(ircode, todo) /\ LabelsNumbered(ircode) /\ HandlersIn(ircode) = InForce(scopes)
  BY <1>1 DEF Mirrored, Mirror
<1>4. /\ LabelsNumbered(a) /\ LabelsKept(ircode, a) /\ HandlersIn(a) = HandlersIn(ircode)
      /\ \E i \in DOMAIN a : a[i].op = "label" /\ a[i].tag = tag
  BY <1>2, <1>3, ReadLabel
<1>. HIDE DEF a
<1>5. Started(a, Tail(todo))
  BY <1>1, <1>3, <1>4, StartedTail DEF tag
<1>6. InForce(scopes') = InForce(scopes)
  BY <1>1, TookExits
<1>7. ~ (Tail(todo) # << >> /\ Tail(todo)[1].do = "exit")
  BY <1>1, NoExitNext
<1>8. Mirror(a, Tail(todo), scopes')
  BY <1>3, <1>4, <1>6, <1>7 DEF Mirror
<1>. QED  BY <1>1, <1>4, <1>5, <1>8 DEF Mirrored

(* ~Scope: the handlers left are those of the scope that is destroyed.     *)
LEMMA MirroredLeave ==
  ASSUME IInv, TodoOK(todo, opcodeCount), Mirrored(ircode, todo, scopes), LeaveScope
  PROVE  Mirrored(ircode', todo', scopes')
<1>. DEFINE base == InForce(Front(scopes))
            e == Top.onScopeFailExitLabels
            m == Len(scopes) - 1
            f == Front(scopes)
<1>1. /\ todo # << >> /\ todo[1].do = "leave" /\ todo' = Tail(todo) /\ todo \in Steps
      /\ ircode \in Seq(Instr) /\ TypeOK /\ scopes \in Seq(Scope) /\ scopes # << >>
      /\ Top \in Scope /\ e \in Seq(Nat)
  BY StateFacts, TopScope DEF LeaveScope, AtStep, TypeOK
<1>2. f \in Seq(Scope) /\ InForce(scopes) = base \o e /\ base \in Seq(Nat)
  BY <1>1, ExitsFront, ExitsType DEF Top
<1>3. /\ Started(ircode, todo) /\ LabelsNumbered(ircode) /\ HandlersIn(ircode) = base \o e
  BY <1>1, <1>2 DEF Mirrored, Mirror
<1>4. InForce(scopes') = base
  <2>1. f \in Seq(Scope) /\ Len(f) = m /\ m \in Nat
    <3>1. Len(scopes) \in Nat \ {0}
      BY <1>1
    <3>2. f = SubSeq(scopes, 1, m) /\ m \in Nat /\ m <= Len(scopes)
      BY <3>1 DEF Front
    <3>. HIDE DEF m
    <3>. QED  BY <1>1, <1>2, <3>1, <3>2
  <2>2. scopes' = [f EXCEPT ![m].nextVarID = Top.nextVarID]
    BY DEF LeaveScope, GiveCounterBack
  <2>. HIDE DEF f, m
  <2>3. \A i \in DOMAIN f : f[i] \in Scope
    BY <2>1
  <2>4. \A i \in DOMAIN f :
          [f[i] EXCEPT !.nextVarID = Top.nextVarID].onScopeFailExitLabels = f[i].onScopeFailExitLabels
    BY <2>3 DEF Scope
  <2>5. DOMAIN scopes' = DOMAIN f
        /\ \A i \in DOMAIN f : scopes'[i].onScopeFailExitLabels = f[i].onScopeFailExitLabels
    BY <2>2, <2>4
  <2>6. Exits(scopes') = Exits(f)
    BY <2>5, SameExits
  <2>. QED  BY <2>6 DEF InForce, f
<1>5. ~ (Tail(todo) # << >> /\ Tail(todo)[1].do = "exit")
  BY <1>1, NoExitNext
<1>6. LabelsKept(ircode, ircode') /\ LabelsNumbered(ircode') /\ HandlersIn(ircode') = base
  <2>1. CASE e = << >>
    <3>1. ircode' = ircode
      BY <2>1 DEF LeaveScope
    <3>2. base \o << >> = base
      BY <1>2
    <3>. QED  BY <1>3, <2>1, <3>1, <3>2 DEF LabelsKept
  <2>2. CASE e # << >>
    <3>. DEFINE exit == << Top.at, "exit" >>
                a == Append(Patched(exit, nextvar), Instruction("label", 0, nextvar, exit))
                u == Unregistered(Reverse(e))
    <3>1. ircode' = a \o u
      BY <2>2 DEF LeaveScope, updateOnScopeFailExitLabels
    <3>2. exit \in Tag
      BY <1>1, TopScope DEF Tag
    <3>. HIDE DEF exit
    <3>3. /\ a \in Seq(Instr) /\ LabelsNumbered(a) /\ LabelsKept(ircode, a)
          /\ HandlersIn(a) = HandlersIn(ircode)
      BY <1>3, <3>2, ReadLabel
    <3>. HIDE DEF a, base, e
    <3>4. HandlersIn(a \o u) = base
      BY <1>1, <1>2, <1>3, <3>3, ReadLeft, ZenonT(30)
    <3>5. /\ \A i \in DOMAIN a : i \in DOMAIN (a \o u) /\ (a \o u)[i] = a[i]
          /\ \A i \in DOMAIN (a \o u) :
               i \in DOMAIN a \/ (i - Len(a) \in DOMAIN u /\ (a \o u)[i] = u[i - Len(a)])
          /\ \A i \in DOMAIN u : u[i].op # "label"
      <4>1. DOMAIN u = 1 .. 2 * Len(Reverse(e)) /\ Len(Reverse(e)) \in Nat
        <5>1. Reverse(e) \in Seq(Nat)
          BY <1>1 DEF Reverse
        <5>. QED  BY <5>1 DEF Unregistered
      <4>2. \A i \in DOMAIN u : u[i].op # "label"
        BY <4>1 DEF Unregistered, Instruction
      <4>3. u = [i \in 1 .. 2 * Len(Reverse(e)) |-> u[i]]
        BY DEF Unregistered
      <4>. HIDE DEF u
      <4>. DEFINE S == Instr \cup Range(u)
      <4>4. a \in Seq(S) /\ u \in Seq(S)
        <5>1. 2 * Len(Reverse(e)) \in Nat
          BY <4>1
        <5>2. u \in Seq(Range(u))
          BY <4>1, <4>3, <5>1 DEF Range
        <5>. QED  BY <3>3, <5>2
      <4>. HIDE DEF S
      <4>5. /\ \A i \in DOMAIN a : i \in DOMAIN (a \o u) /\ (a \o u)[i] = a[i]
            /\ \A i \in DOMAIN (a \o u) :
                 i \in DOMAIN a \/ (i - Len(a) \in DOMAIN u /\ (a \o u)[i] = u[i - Len(a)])
        BY <4>4
      <4>. QED  BY <4>2, <4>5
    <3>. HIDE DEF u
    <3>6. LabelsKept(ircode, a \o u) /\ LabelsNumbered(a \o u)
      BY <3>3, <3>5 DEF LabelsKept, LabelsNumbered
    <3>. QED  BY <3>1, <3>4, <3>6
  <2>. QED  BY <2>1, <2>2
<1>. HIDE DEF base, e, f, m
<1>7. Started(ircode', Tail(todo))
  BY <1>1, <1>3, <1>6, StartedTail
<1>8. Mirror(ircode', Tail(todo), scopes')
  BY <1>4, <1>5, <1>6 DEF Mirror
<1>. QED  BY <1>1, <1>6, <1>7, <1>8 DEF Mirrored

LEMMA ReceivedIs ==
  ASSUME NEW kind, NEW at
  PROVE  ErrorLvid(kind, at) = Received(ircode, kind, at)
BY DEF ErrorLvid, Received, Tagged

LEMMA ReceivedKept ==
  ASSUME NEW c \in Seq(Instr), NEW x, x.op \notin Allocs, NEW kind, NEW at
  PROVE  Received(Append(c, x), kind, at) = Received(c, kind, at)
<1>. DEFINE d == Append(c, x)
            A == {i \in DOMAIN c : c[i].op \in Allocs /\ c[i].tag = << at, "var" >>}
            B == {i \in DOMAIN d : d[i].op \in Allocs /\ d[i].tag = << at, "var" >>}
            h == CHOOSE i \in A : TRUE
            g == CHOOSE i \in B : TRUE
<1>1. /\ DOMAIN d = 1 .. Len(c) + 1 /\ DOMAIN c = 1 .. Len(c) /\ d[Len(c) + 1] = x /\ Len(c) \in Nat
      /\ \A i \in 1 .. Len(c) : d[i] = c[i]
  OBVIOUS
<1>2. \A i \in DOMAIN d : i = Len(c) + 1 \/ i \in DOMAIN c
  BY <1>1
<1>3. \A i \in DOMAIN c : i \in DOMAIN d
  BY <1>1
<1>. HIDE DEF d
<1>4. B = A
  BY <1>1, <1>2, <1>3
<1>5. Received(c, kind, at) = IF kind = "any" \/ A = {} THEN 0 ELSE c[h].lvid
  BY DEF Received
<1>6. Received(d, kind, at) = IF kind = "any" \/ B = {} THEN 0 ELSE d[g].lvid
  BY DEF Received
<1>7. g = h
  BY <1>4
<1>8. A # {} => h \in DOMAIN c
  OBVIOUS
<1>. HIDE DEF A, B, g, h
<1>9. A # {} => d[h].lvid = c[h].lvid
  BY <1>1, <1>8
<1>10. Received(d, kind, at) = Received(c, kind, at)
  BY <1>4, <1>5, <1>6, <1>7, <1>9
<1>. QED  BY <1>10 DEF d

(* A handler is registered: the last in force, and the next step ends it.  *)
LEMMA MirroredRegister ==
  ASSUME IInv, TodoOK(todo, opcodeCount), Mirrored(ircode, todo, scopes), RegisterHandler
  PROVE  Mirrored(ircode', todo', scopes')
<1>. DEFINE start == todo[1].tag
            var == ErrorLvid(todo[1].op, start[1])
            x == Instruction("onscopefail", var, LabelAt(start), start)
            t == Tail(todo)
            d == Append(ircode, x)
<1>1. /\ todo # << >> /\ todo[1].do = "register" /\ ircode' = d
      /\ todo' = t /\ scopes' = scopes /\ todo \in Steps /\ 1 \in DOMAIN todo
      /\ ircode \in Seq(Instr)
  BY StateFacts DEF RegisterHandler, AtStep
<1>2. Started(ircode, todo) /\ LabelsNumbered(ircode) /\ HandlersIn(ircode) = InForce(scopes)
  BY <1>1 DEF Mirrored, Mirror
<1>3. LabelAt(start) # 0
  <2>1. Tagged({"label"}, start) # {}
    <3>1. \A j \in DOMAIN todo : ~ (j < 1)
      BY <1>1, Positions
    <3>2. \E i \in DOMAIN ircode : ircode[i].op = "label" /\ ircode[i].tag = start
      BY <1>1, <1>2, <3>1 DEF Started
    <3>. QED  BY <3>2 DEF Tagged
  <2>2. \A i \in Tagged({"label"}, start) : ircode[i].label # 0
    BY <1>2 DEF Tagged, LabelsNumbered
  <2>. QED  BY <2>1, <2>2 DEF LabelAt
<1>4. /\ t # << >> /\ t[1].do = "exit" /\ t[1].op = todo[1].op /\ t[1].tag = start
  <2>1. /\ 1 + 1 <= Len(todo) /\ todo[1 + 1].do = "exit"
        /\ todo[1 + 1].op = todo[1].op /\ todo[1 + 1].tag = start
    BY <1>1 DEF TodoOK, LeftNext
  <2>2. Len(t) # 0 /\ 1 \in DOMAIN t /\ t[1] = todo[1 + 1]
    BY <1>1, <2>1, TailAt
  <2>3. t # << >>
    BY <2>2, NonEmpty
  <2>. QED  BY <2>1, <2>2, <2>3
<1>5. x.op = "onscopefail" /\ x.lvid = var /\ x.label # 0
  BY <1>3 DEF Instruction
<1>6. var = Received(d, todo[1].op, start[1])
  <2>. HIDE DEF x, start
  <2>1. x.op \notin Allocs
    BY <1>5 DEF Allocs
  <2>. QED  BY <1>1, <2>1, ReceivedIs, ReceivedKept
<1>. HIDE DEF x, var, start, t
<1>7. HandlersIn(d) = Append(InForce(scopes), var)
  <2>1. HandlersIn(d) = Handled(HandlersIn(ircode), x)
    BY <1>1, ReadOne
  <2>. QED  BY <1>2, <1>5, <2>1 DEF Handled
<1>8. LabelsKept(ircode, d) /\ LabelsNumbered(d)
  <2>1. /\ DOMAIN d = 1 .. Len(ircode) + 1 /\ DOMAIN ircode = 1 .. Len(ircode)
        /\ d[Len(ircode) + 1] = x /\ Len(ircode) \in Nat
        /\ \A i \in 1 .. Len(ircode) : d[i] = ircode[i]
    BY <1>1
  <2>2. \A i \in DOMAIN d : i = Len(ircode) + 1 \/ i \in DOMAIN ircode
    BY <2>1
  <2>. HIDE DEF d
  <2>3. LabelsKept(ircode, d)
    BY <2>1 DEF LabelsKept
  <2>4. LabelsNumbered(d)
    BY <1>2, <1>5, <2>1, <2>2 DEF LabelsNumbered
  <2>. QED  BY <2>3, <2>4
<1>. HIDE DEF d
<1>9. Started(d, t)
  <2>1. todo[1].do # "label"
    BY <1>1
  <2>. QED  BY <1>1, <1>2, <1>8, <2>1, StartedTail DEF t
<1>10. Mirror(d, t, scopes)
  BY <1>4, <1>6, <1>7 DEF Mirror
<1>. QED  BY <1>1, <1>8, <1>9, <1>10 DEF Mirrored

(* Its Scope has it now.                                                   *)
LEMMA MirroredExit ==
  ASSUME IInv, TodoOK(todo, opcodeCount), Mirrored(ircode, todo, scopes), ExitHandler
  PROVE  Mirrored(ircode', todo', scopes')
<1>. DEFINE x == Instruction("jmp", 0, 0, << Top.at, "exit" >>)
            d == Append(ircode, x)
            t == Tail(todo)
            e == Top.onScopeFailExitLabels
            var == ErrorLvid(todo[1].op, todo[1].tag[1])
            top == [Top EXCEPT !.onScopeFailExitLabels = Append(e, var)]
            f == Front(scopes)
<1>1. /\ todo # << >> /\ todo[1].do = "exit" /\ ircode' = d /\ todo' = t /\ todo \in Steps
      /\ ircode \in Seq(Instr) /\ TypeOK /\ scopes \in Seq(Scope) /\ scopes # << >>
      /\ Top \in Scope /\ e \in Seq(Nat) /\ var \in Nat
      /\ Len(scopes) \in Nat \ {0} /\ DOMAIN scopes = 1 .. Len(scopes)
      /\ Head(todo) = todo[1]
  BY StateFacts, TopScope, OperandsKnown DEF ExitHandler, AtStep, TypeOK
<1>2. scopes' = [scopes EXCEPT ![Len(scopes)] = top]
  BY <1>1 DEF ExitHandler, Top
<1>3. Started(ircode, todo) /\ LabelsNumbered(ircode) /\ HandlersIn(ircode) = Append(InForce(scopes), var)
  BY <1>1, ReceivedIs DEF Mirrored, Mirror
<1>4. f \in Seq(Scope) /\ InForce(scopes) = InForce(f) \o e /\ InForce(f) \in Seq(Nat)
  BY <1>1, ExitsFront, ExitsType DEF Top
<1>. HIDE DEF d, t, x, var
<1>5. top \in Scope /\ top.onScopeFailExitLabels = Append(e, var)
  <2>1. Append(e, var) \in Seq(Nat)
    BY <1>1
  <2>. HIDE DEF e
  <2>. QED  BY <1>1, <2>1 DEF Scope
<1>. HIDE DEF top, e
<1>6. /\ scopes' \in Seq(Scope) /\ Len(scopes') = Len(scopes) /\ scopes' # << >>
      /\ scopes'[Len(scopes)] = top
      /\ \A i \in 1 .. Len(scopes) - 1 : scopes'[i] = scopes[i]
  BY <1>1, <1>2, <1>5
<1>7. Front(scopes') = f
  <2>1. Front(scopes) = SubSeq(scopes, 1, Len(scopes) - 1)
    BY DEF Front
  <2>2. Front(scopes') = SubSeq(scopes', 1, Len(scopes) - 1)
    BY <1>6 DEF Front
  <2>3. SubSeq(scopes, 1, Len(scopes) - 1) = SubSeq(scopes', 1, Len(scopes) - 1)
    BY <1>1, <1>6
  <2>. QED  BY <2>1, <2>2, <2>3
<1>8. InForce(scopes') = InForce(f) \o Append(e, var)
  <2>1. InForce(scopes') = InForce(Front(scopes')) \o scopes'[Len(scopes')].onScopeFailExitLabels
    BY <1>6, ExitsFront
  <2>. QED  BY <1>5, <1>6, <1>7, <2>1
<1>. HIDE DEF f
<1>9. InForce(scopes') = Append(InForce(scopes), var)
  <2>1. InForce(f) \o Append(e, var) = Append(InForce(f) \o e, var)
    BY <1>1, <1>4, ConcatAppend, SMTT(30)
  <2>. QED  BY <1>4, <1>8, <2>1
<1>10. x.op = "jmp"
  BY DEF x, Instruction
<1>11. HandlersIn(d) = HandlersIn(ircode)
  <2>1. HandlersIn(d) = Handled(HandlersIn(ircode), x)
    BY <1>1, ReadOne DEF d
  <2>. QED  BY <1>10, <2>1 DEF Handled
<1>12. LabelsKept(ircode, d) /\ LabelsNumbered(d)
  <2>1. /\ DOMAIN d = 1 .. Len(ircode) + 1 /\ DOMAIN ircode = 1 .. Len(ircode)
        /\ d[Len(ircode) + 1] = x /\ Len(ircode) \in Nat
        /\ \A i \in 1 .. Len(ircode) : d[i] = ircode[i]
    BY <1>1 DEF d
  <2>2. \A i \in DOMAIN d : i = Len(ircode) + 1 \/ i \in DOMAIN ircode
    BY <2>1
  <2>3. LabelsKept(ircode, d)
    BY <2>1 DEF LabelsKept
  <2>4. LabelsNumbered(d)
    BY <1>3, <1>10, <2>1, <2>2 DEF LabelsNumbered
  <2>. QED  BY <2>3, <2>4
<1>13. Started(d, t)
  <2>1. todo[1].do # "label"
    BY <1>1
  <2>. QED  BY <1>1, <1>3, <1>12, <2>1, StartedTail DEF t
<1>14. ~ (t # << >> /\ t[1].do = "exit")
  BY <1>1, NoExitNext DEF t
<1>15. Mirror(d, t, scopes')
  BY <1>3, <1>9, <1>11, <1>14 DEF Mirror
<1>. QED  BY <1>1, <1>12, <1>13, <1>15 DEF Mirrored

LEMMA MirroredStep ==
  ASSUME IInv, TodoOK(todo, opcodeCount), Mirrored(ircode, todo, scopes), [Next]_vars
  PROVE  Mirrored(ircode', todo', scopes')
<1>1. CASE UNCHANGED vars
  BY <1>1 DEF vars
<1>2. CASE /\ todo # << >> /\ todo[1].do \in {"stmt", "stmts", "expr"}
           /\ \E v : Visitor(v, opcodeCount) /\ todo' = v \o Tail(todo)
           /\ UNCHANGED << ircode, scopes, stacksize >>
  <2>1. PICK v : Visitor(v, opcodeCount) /\ todo' = v \o Tail(todo)
    BY <1>2
  <2>2. opcodeCount \in Nat
    BY StateFacts
  <2>3. Started(ircode, todo) /\ LabelsNumbered(ircode) /\ HandlersIn(ircode) = InForce(scopes)
    BY <1>2 DEF Mirrored, Mirror
  <2>4. Started(ircode, todo')
    BY <1>2, <2>1, <2>2, <2>3, StartedVisit
  <2>5. TodoOK(todo', opcodeCount) /\ \A k \in DOMAIN todo' : After(todo', k)
    BY <1>2, <2>1, <2>2, TodoVisit
  <2>6. ~ (todo' # << >> /\ todo'[1].do = "exit")
    <3>. SUFFICES ASSUME todo' # << >>, todo'[1].do = "exit" PROVE FALSE
      OBVIOUS
    <3>1. todo' \in Steps
      BY <2>5 DEF TodoOK
    <3>2. 1 \in DOMAIN todo'
      BY <3>1, TailAt
    <3>. QED  BY <2>5, <3>2 DEF After
  <2>7. Mirror(ircode, todo', scopes)
    BY <2>3, <2>6 DEF Mirror
  <2>8. ircode' = ircode /\ scopes' = scopes
    BY <1>2
  <2>. QED  BY <2>3, <2>4, <2>7, <2>8 DEF Mirrored
<1>3. CASE ~ UNCHANGED vars /\ ~ (VisitStmt \/ VisitExpr \/ VisitStmts)
  <2>1. \/ EmitPlain \/ EmitAlloc \/ EmitAllocLater \/ Reserve
        \/ EmitLabel \/ EmitJump \/ EmitJzraise
        \/ EnterScope \/ LeaveScope \/ RegisterHandler \/ ExitHandler \/ FinishFunc
    BY <1>3 DEF Next, Finished
  <2>. QED  BY <2>1, MirroredOther, MirroredLabel, MirroredLeave, MirroredRegister, MirroredExit
<1>4. VisitStmt \/ VisitExpr \/ VisitStmts => todo # << >> /\ todo[1].do \in {"stmt", "stmts", "expr"}
  BY StateFacts DEF VisitStmt, VisitExpr, VisitStmts, Visit, AtStep
<1>. QED  BY <1>1, <1>2, <1>3, <1>4, Moves

LEMMA MirroredInit ==
  ASSUME Init
  PROVE  Mirrored(ircode, todo, scopes)
<1>. DEFINE scope == [nextVarID |-> 0, at |-> 0, onScopeFailExitLabels |-> << >>]
<1>1. todo = Func /\ ircode = << >> /\ scopes = << scope >>
  BY DEF Init
<1>2. \A k \in DOMAIN todo : todo[k].do # "register" /\ todo[k].do # "exit"
  <2>1. Do("finish").do = "finish"
    BY DEF Do
  <2>2. \A k \in DOMAIN todo : Ordinary(todo[k]) \/ todo[k] = Do("finish")
    BY <1>1, FuncSteps
  <2>. QED  BY <2>1, <2>2 DEF Ordinary
<1>3. todo # << >> => 1 \in DOMAIN todo
  BY <1>1, FuncSteps, TailAt DEF TodoOK
<1>4. HandlersIn(ircode) = << >>
  <2>1. PICK h : Reads(h, << >>, 0) /\ HandlersIn(<< >>) = h[0]
    <3>1. Len(<< >>) = 0
      OBVIOUS
    <3>. QED  BY <3>1, HandlersInReads
  <2>. QED  BY <1>1, <2>1, ReadsAt
<1>5. InForce(scopes) = << >>
  <2>1. << >> \in Seq(Scope) /\ scope \in Scope /\ scopes = Append(<< >>, scope)
        /\ scope.onScopeFailExitLabels = << >>
    BY <1>1 DEF Scope
  <2>. HIDE DEF scope
  <2>2. InForce(scopes) = InForce(<< >>) \o << >> /\ InForce(<< >>) \in Seq(Nat)
    BY <2>1, ExitsAppend, ExitsType
  <2>3. Exits(<< >>) = << >>
    BY DEF Exits
  <2>4. InForce(<< >>) = << >>
    BY <2>3 DEF InForce, FlattenSeq
  <2>. QED  BY <2>2, <2>4
<1>6. Started(ircode, todo) /\ LabelsNumbered(ircode)
  BY <1>1, <1>2 DEF Started, LabelsNumbered
<1>7. Mirror(ircode, todo, scopes)
  BY <1>2, <1>3, <1>4, <1>5 DEF Mirror
<1>. QED  BY <1>6, <1>7 DEF Mirrored

(* The handlers the analyzer has in force are those of the blocks being    *)
(* translated, in order, however deep blocks and handlers are nested: a    *)
(* handler is pushed on both sides by neighbouring steps, and ~Scope       *)
(* unregisters its own in the reverse order, so that each is the last one. *)
THEOREM HandlersKept == Spec => []HandlersMirrored
<1>. DEFINE Inv == Mirrored(ircode, todo, scopes)
            Basis == IInv /\ TodoOK(todo, opcodeCount) /\ JInv
<1>1. Init => Inv
  BY MirroredInit
<1>2. Basis /\ Inv /\ [Next]_vars => Inv'
  BY MirroredStep
<1>3. Spec => []Basis
  BY JInductive
<1>4. Basis /\ Inv => HandlersMirrored
  <2>. SUFFICES ASSUME IInv, Inv, todo = << >> \/ Head(todo).do # "exit"
                PROVE  HandlersIn(ircode)
                         = FlattenSeq([i \in DOMAIN scopes |-> scopes[i].onScopeFailExitLabels])
    BY DEF HandlersMirrored
  <2>1. ~ (todo # << >> /\ todo[1].do = "exit")
    BY StateFacts
  <2>. QED  BY <2>1 DEF Mirrored, Mirror, InForce, Exits
<1>. HIDE DEF Inv, Basis
<1>. QED  BY <1>1, <1>2, <1>3, <1>4, PTL DEF Spec

-----------------------------------------------------------------------------
(* The code and the steps left are tidy as one: in a function without      *)
(* handlers no jump leaves an object behind or skips a declaration.        *)

(* The marks of the code and of the steps left.                            *)
Written(x) == Mark(x.op, x.tag)

Word(c, s) ==
  [k \in 1 .. Len(c) + Len(s) |-> IF k <= Len(c) THEN Written(c[k]) ELSE Planned(s[k - Len(c)])]

TidyWord(c, s) == Tidy(Word(c, s), Len(c) + Len(s), FALSE, {})

LEMMA WordAt ==
  ASSUME NEW c \in Seq(Instr), NEW s \in Steps
  PROVE  /\ Len(c) \in Nat /\ Len(s) \in Nat /\ DOMAIN c = 1 .. Len(c) /\ DOMAIN s = 1 .. Len(s)
         /\ \A k \in 1 .. Len(c) : Word(c, s)[k] = Written(c[k])
         /\ \A k \in 1 .. Len(s) : Word(c, s)[Len(c) + k] = Planned(s[k])
         /\ Word(c, s) = [k \in 1 .. Len(c) + Len(s) |-> Word(c, s)[k]]
<1>1. /\ Len(c) \in Nat /\ Len(s) \in Nat /\ DOMAIN c = 1 .. Len(c) /\ DOMAIN s = 1 .. Len(s)
  BY DEF Steps
<1>2. \A k \in 1 .. Len(c) : Word(c, s)[k] = Written(c[k])
  BY <1>1 DEF Word
<1>3. ASSUME NEW k \in 1 .. Len(s) PROVE Word(c, s)[Len(c) + k] = Planned(s[k])
  <2>1. /\ Len(c) + k \in 1 .. Len(c) + Len(s) /\ ~ (Len(c) + k <= Len(c))
        /\ (Len(c) + k) - Len(c) = k
    BY <1>1
  <2>. QED  BY <2>1 DEF Word
<1>4. Word(c, s) = [k \in 1 .. Len(c) + Len(s) |-> Word(c, s)[k]]
  BY DEF Word
<1>. QED  BY <1>1, <1>2, <1>3, <1>4

(* An instruction with the mark of its step.                               *)
LEMMA WordEmit ==
  ASSUME NEW c \in Seq(Instr), NEW s \in Steps, s # << >>, NEW d \in Seq(Instr),
         Len(d) = Len(c) + 1, \A i \in DOMAIN c : Written(d[i]) = Written(c[i]),
         Written(d[Len(c) + 1]) = Planned(s[1]), TidyWord(c, s)
  PROVE  TidyWord(d, Tail(s))
<1>. DEFINE t == Tail(s)
            n == Len(c) + Len(s)
<1>1. /\ t \in Steps /\ Len(t) = Len(s) - 1 /\ Len(s) \in Nat \ {0}
      /\ DOMAIN t = 1 .. Len(s) - 1 /\ \A k \in DOMAIN t : t[k] = s[k + 1]
  BY TailAt
<1>. HIDE DEF t
<1>2. /\ Len(c) \in Nat /\ DOMAIN c = 1 .. Len(c)
      /\ \A k \in 1 .. Len(c) : Word(c, s)[k] = Written(c[k])
      /\ \A k \in 1 .. Len(s) : Word(c, s)[Len(c) + k] = Planned(s[k])
      /\ Word(c, s) = [k \in 1 .. n |-> Word(c, s)[k]]
  BY WordAt
<1>3. /\ \A k \in 1 .. Len(d) : Word(d, t)[k] = Written(d[k])
      /\ \A k \in 1 .. Len(t) : Word(d, t)[Len(d) + k] = Planned(t[k])
      /\ Word(d, t) = [k \in 1 .. Len(d) + Len(t) |-> Word(d, t)[k]]
  BY <1>1, WordAt
<1>4. Len(d) + Len(t) = n
  BY <1>1, <1>2
<1>5. ASSUME NEW k \in 1 .. n PROVE Word(d, t)[k] = Word(c, s)[k]
  <2>1. CASE k <= Len(c)
    <3>1. k \in 1 .. Len(d) /\ k \in DOMAIN c /\ k \in 1 .. Len(c)
      BY <1>2, <2>1
    <3>. QED  BY <1>2, <1>3, <3>1
  <2>2. CASE k = Len(c) + 1
    <3>1. k \in 1 .. Len(d) /\ 1 \in 1 .. Len(s)
      BY <1>1, <1>2, <2>2
    <3>. QED  BY <1>2, <1>3, <2>2, <3>1
  <2>3. CASE k > Len(c) + 1
    <3>0. /\ k \in Nat /\ k <= Len(c) + Len(s) /\ Len(c) \in Nat /\ Len(s) \in Nat
          /\ Len(d) = Len(c) + 1 /\ Len(t) = Len(s) - 1
      BY <1>1, <1>2
    <3>1. PICK j \in 1 .. Len(t) : k = Len(d) + j /\ j + 1 \in 1 .. Len(s) /\ k = Len(c) + (j + 1)
      <4>1. k - Len(d) \in 1 .. Len(t) /\ k = Len(d) + (k - Len(d))
        BY <2>3, <3>0
      <4>2. (k - Len(d)) + 1 \in 1 .. Len(s) /\ k = Len(c) + ((k - Len(d)) + 1)
        BY <2>3, <3>0
      <4>. QED  BY <4>1, <4>2
    <3>2. t[j] = s[j + 1]
      BY <1>1, <3>1
    <3>. QED  BY <1>2, <1>3, <3>1, <3>2
  <2>. QED  BY <1>1, <1>2, <2>1, <2>2, <2>3
<1>6. Word(d, t) = Word(c, s)
  BY <1>2, <1>3, <1>4, <1>5
<1>. QED  BY <1>4, <1>6 DEF TidyWord, t

(* The steps of v in the place of the first.                               *)
LEMMA WordPut ==
  ASSUME NEW c \in Seq(Instr), NEW s \in Steps, s # << >>, NEW v \in Steps
  PROVE  /\ Put(Word(c, s), Len(c) + Len(s), Len(c) + 1, Plan(v), Len(v), Word(c, v \o Tail(s)))
         /\ Len(c) + Len(v \o Tail(s)) = (Len(c) + Len(s)) - 1 + Len(v)
<1>. DEFINE t == Tail(s)
            r == v \o t
            n == Len(c) + Len(s)
            p == Len(c) + 1
            l == Len(v)
            w == Word(c, s)
            u == Word(c, r)
<1>1. /\ t \in Steps /\ Len(t) = Len(s) - 1 /\ Len(s) \in Nat \ {0}
      /\ DOMAIN t = 1 .. Len(s) - 1 /\ \A k \in DOMAIN t : t[k] = s[k + 1]
  BY TailAt
<1>. HIDE DEF t
<1>2. /\ r \in Steps /\ Len(r) = l + Len(t) /\ l \in Nat
      /\ \A k \in 1 .. l : r[k] = v[k]
      /\ \A k \in 1 .. Len(t) : r[l + k] = t[k]
  <2>1. /\ r \in Steps /\ Len(r) = l + Len(t)
        /\ \A k \in 1 .. l : r[k] = v[k]
        /\ \A k \in 1 .. Len(t) : r[l + k] = t[k]
    BY <1>1, ConcatAt
  <2>2. l \in Nat
    BY Lengths
  <2>. QED  BY <2>1, <2>2
<1>. HIDE DEF r
<1>3. /\ Len(c) \in Nat
      /\ \A k \in 1 .. Len(c) : w[k] = Written(c[k])
      /\ \A k \in 1 .. Len(s) : w[Len(c) + k] = Planned(s[k])
  BY WordAt
<1>4. /\ \A k \in 1 .. Len(c) : u[k] = Written(c[k])
      /\ \A k \in 1 .. Len(r) : u[Len(c) + k] = Planned(r[k])
  BY <1>2, WordAt
<1>5. \A k \in 1 .. l : Plan(v)[k] = Planned(v[k])
  BY DEF Plan, Steps
<1>. HIDE DEF w, u
<1>6. ASSUME NEW k \in 1 .. n, k < p PROVE u[k] = w[k]
  <2>1. k \in 1 .. Len(c)
    BY <1>3, <1>6
  <2>. QED  BY <1>3, <1>4, <2>1
<1>7. ASSUME NEW k \in 1 .. l PROVE u[p - 1 + k] = Plan(v)[k]
  <2>1. k \in 1 .. Len(r) /\ p - 1 + k = Len(c) + k
    BY <1>1, <1>2, <1>3
  <2>. QED  BY <1>2, <1>4, <1>5, <2>1
<1>8. ASSUME NEW k \in 1 .. n, k > p PROVE u[k - 1 + l] = w[k]
  <2>. DEFINE j == k - p
  <2>1. /\ j \in 1 .. Len(t) /\ j \in DOMAIN t /\ l + j \in 1 .. Len(r) /\ k - 1 + l = Len(c) + (l + j)
        /\ j + 1 \in 1 .. Len(s) /\ k = Len(c) + (j + 1)
    BY <1>1, <1>2, <1>3, <1>8
  <2>2. u[Len(c) + (l + j)] = Planned(r[l + j]) /\ w[Len(c) + (j + 1)] = Planned(s[j + 1])
    BY <1>3, <1>4, <2>1
  <2>3. r[l + j] = t[j] /\ t[j] = s[j + 1]
    BY <1>1, <1>2, <2>1
  <2>. HIDE DEF j
  <2>. QED  BY <2>1, <2>2, <2>3
<1>9. Put(w, n, p, Plan(v), l, u)
  BY <1>6, <1>7, <1>8 DEF Put
<1>10. Len(c) + Len(r) = n - 1 + l
  BY <1>1, <1>2, <1>3
<1>. QED  BY <1>9, <1>10 DEF w, u, r, t

(* A hole filled, by steps with tags of their own.                         *)
LEMMA WordFilled ==
  ASSUME NEW c \in Seq(Instr), NEW s \in Steps, s # << >>, NEW v \in Steps,
         s[1].do \in {"stmt", "stmts", "expr", "enter", "leave", "reserve"},
         TidyWord(c, s), TidySteps(v, FALSE, {}),
         \A k \in DOMAIN v : v[k].do \in {"jump", "label"} =>
           /\ \A i \in DOMAIN c : c[i].op \in Jumps \cup {"label"} => c[i].tag # v[k].tag
           /\ \A i \in DOMAIN s : i > 1 /\ s[i].do \in {"jump", "label"} => s[i].tag # v[k].tag
  PROVE  TidyWord(c, v \o Tail(s))
<1>. DEFINE n == Len(c) + Len(s)
            p == Len(c) + 1
            l == Len(v)
            w == Word(c, s)
            u == Word(c, v \o Tail(s))
            q == Plan(v)
<1>1. /\ Put(w, n, p, q, l, u) /\ Len(c) + Len(v \o Tail(s)) = n - 1 + l
  BY WordPut
<1>2. /\ Len(c) \in Nat /\ Len(s) \in Nat /\ DOMAIN c = 1 .. Len(c) /\ DOMAIN s = 1 .. Len(s)
      /\ \A k \in 1 .. Len(c) : w[k] = Written(c[k])
      /\ \A k \in 1 .. Len(s) : w[Len(c) + k] = Planned(s[k])
  BY WordAt
<1>3. l \in Nat /\ DOMAIN v = 1 .. l /\ \A k \in 1 .. l : v[k] \in Step /\ q[k] = Planned(v[k])
  BY DEF Plan, Steps
<1>4. 1 \in DOMAIN s /\ Len(s) >= 1 /\ \A k \in DOMAIN s : s[k] \in Step
  BY TailAt DEF Steps
<1>5. n \in Nat /\ p \in 1 .. n /\ w[p] = Planned(s[1])
  BY <1>2, <1>4
<1>6. Tidy(w, n, FALSE, {}) /\ Tidy(q, l, FALSE, {})
  BY DEF TidyWord, TidySteps
<1>. HIDE DEF w, u, q
<1>7. w[p].op = "hole"
  BY <1>4, <1>5, PlannedStep
<1>8. "hole" \notin Allocs \cup {"label", "scope", "end"} \cup Jumps
  BY DEF Allocs, Jumps
<1>9. Apart(w, n, p, q, l)
  <2>. SUFFICES ASSUME NEW i \in 1 .. l, q[i].op \in Jumps \cup {"label"},
                       NEW j \in 1 .. n, j # p, w[j].op \in Jumps \cup {"label"}
                PROVE  w[j].tag # q[i].tag
    BY DEF Apart
  <2>1. i \in DOMAIN v /\ v[i].do \in {"jump", "label"} /\ q[i].tag = v[i].tag
    <3>1. v[i] \in Step /\ q[i] = Planned(v[i])
      BY <1>3
    <3>. QED  BY <1>3, <3>1, PlannedUse
  <2>2. CASE j <= Len(c)
    <3>1. j \in DOMAIN c /\ w[j] = Mark(c[j].op, c[j].tag)
      BY <1>2, <2>2 DEF Written
    <3>2. c[j].op \in Jumps \cup {"label"} /\ w[j].tag = c[j].tag
      BY <3>1 DEF Mark
    <3>. QED  BY <2>1, <3>1, <3>2
  <2>3. CASE j > Len(c)
    <3>. DEFINE m == j - Len(c)
    <3>1. m \in 1 .. Len(s) /\ j = Len(c) + m /\ m > 1
      BY <1>2, <2>3
    <3>2. w[j] = Planned(s[m]) /\ m \in DOMAIN s /\ s[m] \in Step
      BY <1>2, <1>4, <3>1
    <3>. HIDE DEF m
    <3>3. s[m].do \in {"jump", "label"} /\ w[j].tag = s[m].tag
      BY <3>2, PlannedUse
    <3>. QED  BY <2>1, <3>1, <3>2, <3>3
  <2>. QED  BY <1>2, <2>2, <2>3
<1>. HIDE DEF n, p, l
<1>10. Tidy(u, n - 1 + l, FALSE, {})
  BY <1>1, <1>3, <1>5, <1>6, <1>7, <1>8, <1>9, Replaced
<1>. QED  BY <1>1, <1>10 DEF TidyWord, u

(* No handler is written, nor will one be by the steps left.               *)
Handlerless == WithoutHandlers /\ \A k \in DOMAIN todo : todo[k].do # "register"

Ended(s) == s # << >> => s[Len(s)].do = "finish"

(* The code of a function is tidy with the steps left; when none is left,  *)
(* it was before its last instruction.                                     *)
Ready(c, s) ==
  IF s # << >> THEN TidyWord(c, s)
  ELSE \E b \in Seq(Instr), e \in Step :
         /\ c = Append(b, Instruction("end", 0, 0, NoTag))
         /\ e.do = "finish" /\ TidyWord(b, << e >>)

TidyState == Ended(todo) /\ (Handlerless => Ready(ircode, todo))

LEMMA EndedTail ==
  ASSUME NEW s \in Steps, s # << >>, s[1].do # "finish", Ended(s)
  PROVE  Tail(s) # << >> /\ Ended(Tail(s))
<1>. DEFINE t == Tail(s)
<1>1. /\ t \in Steps /\ Len(t) = Len(s) - 1 /\ Len(s) \in Nat \ {0}
      /\ DOMAIN t = 1 .. Len(s) - 1 /\ \A k \in DOMAIN t : t[k] = s[k + 1]
  BY TailAt
<1>. HIDE DEF t
<1>2. Len(s) # 1
  BY DEF Ended
<1>3. Len(t) \in DOMAIN t /\ Len(t) + 1 = Len(s) /\ Len(t) # 0
  BY <1>1, <1>2
<1>4. t[Len(t)] = s[Len(s)]
  BY <1>1, <1>3
<1>5. t # << >> /\ Ended(t)
  BY <1>3, <1>4, NonEmpty DEF Ended
<1>. QED  BY <1>5 DEF t

LEMMA EndedVisit ==
  ASSUME NEW s \in Steps, s # << >>, s[1].do # "finish", Ended(s), NEW v \in Steps
  PROVE  v \o Tail(s) # << >> /\ Ended(v \o Tail(s))
<1>. DEFINE t == Tail(s)
            r == v \o t
<1>1. t \in Steps /\ t # << >> /\ Ended(t)
  BY EndedTail, TailAt
<1>. HIDE DEF t
<1>2. /\ r \in Steps /\ Len(r) = Len(v) + Len(t)
      /\ \A i \in 1 .. Len(t) : r[Len(v) + i] = t[i]
  BY <1>1, ConcatAt
<1>3. Len(v) \in Nat /\ Len(t) \in Nat \ {0}
  BY <1>1, TailAt, Lengths
<1>. HIDE DEF r
<1>4. Len(t) \in 1 .. Len(t) /\ Len(r) # 0
  BY <1>2, <1>3
<1>5. r[Len(r)] = t[Len(t)]
  BY <1>2, <1>4
<1>6. r # << >> /\ Ended(r)
  BY <1>1, <1>4, <1>5, NonEmpty DEF Ended
<1>. QED  BY <1>6 DEF r, t

(* An emission: the instruction is what the step said.                     *)
LEMMA TidyEmit ==
  ASSUME IInv, TidyState, todo # << >>, todo[1].do # "finish", todo[1].do # "register",
         todo' = Tail(todo), ircode' \in Seq(Instr), Len(ircode') = Len(ircode) + 1,
         \A i \in DOMAIN ircode : ircode'[i].op = ircode[i].op /\ ircode'[i].tag = ircode[i].tag,
         Written(ircode'[Len(ircode) + 1]) = Planned(todo[1])
  PROVE  TidyState'
<1>1. ircode \in Seq(Instr) /\ todo \in Steps
  BY StateFacts
<1>2. todo' # << >> /\ Ended(todo')
  BY <1>1, EndedTail DEF TidyState
<1>3. ASSUME Handlerless' PROVE Handlerless
  <2>1. /\ \A i \in DOMAIN ircode' : ircode'[i].op # "onscopefail"
        /\ \A k \in DOMAIN Tail(todo) : Tail(todo)[k].do # "register"
    BY <1>3 DEF Handlerless, WithoutHandlers
  <2>2. DOMAIN ircode \subseteq DOMAIN ircode'
    BY <1>1
  <2>3. \A k \in DOMAIN todo : k = 1 \/ (k - 1 \in DOMAIN Tail(todo) /\ todo[k] = Tail(todo)[k - 1])
    BY <1>1, TailAt
  <2>. QED  BY <2>1, <2>2, <2>3 DEF Handlerless, WithoutHandlers
<1>4. ASSUME Handlerless' PROVE TidyWord(ircode', todo')
  <2>1. TidyWord(ircode, todo)
    BY <1>3, <1>4 DEF TidyState, Ready
  <2>2. \A i \in DOMAIN ircode : Written(ircode'[i]) = Written(ircode[i])
    BY DEF Written
  <2>. QED  BY <1>1, <2>1, <2>2, WordEmit
<1>. QED  BY <1>2, <1>4 DEF TidyState, Ready

(* A visit, or a step that emits nothing.                                  *)
LEMMA TidyFill ==
  ASSUME IInv, TidyState, todo # << >>,
         todo[1].do \in {"stmt", "stmts", "expr", "enter", "leave", "reserve"},
         NEW v \in Steps, todo' = v \o Tail(todo), ircode' = ircode,
         TidySteps(v, FALSE, {}) \/ \E k \in DOMAIN v : v[k].do = "register",
         \A k \in DOMAIN v : v[k].do \in {"jump", "label"} =>
           /\ \A i \in DOMAIN ircode : ircode[i].op \in Jumps \cup {"label"} => ircode[i].tag # v[k].tag
           /\ \A i \in DOMAIN todo : i > 1 /\ todo[i].do \in {"jump", "label"} => todo[i].tag # v[k].tag
  PROVE  TidyState'
<1>1. ircode \in Seq(Instr) /\ todo \in Steps /\ Tail(todo) \in Steps
  BY StateFacts, TailAt
<1>2. todo' # << >> /\ Ended(todo')
  BY <1>1, EndedVisit DEF TidyState
<1>3. ASSUME Handlerless' PROVE Handlerless /\ \A k \in DOMAIN v : v[k].do # "register"
  <2>1. WithoutHandlers
    BY <1>3 DEF Handlerless, WithoutHandlers
  <2>2. \A k \in DOMAIN todo' : todo'[k].do # "register"
    BY <1>3 DEF Handlerless
  <2>3. /\ \A k \in DOMAIN v : k \in DOMAIN todo' /\ todo'[k] = v[k]
        /\ \A k \in DOMAIN Tail(todo) :
             k + Len(v) \in DOMAIN todo' /\ todo'[k + Len(v)] = Tail(todo)[k]
    BY <1>1, Concat
  <2>4. \A k \in DOMAIN todo : k = 1 \/ (k - 1 \in DOMAIN Tail(todo) /\ todo[k] = Tail(todo)[k - 1])
    BY <1>1, TailAt
  <2>5. \A k \in DOMAIN v : v[k].do # "register"
    BY <2>2, <2>3
  <2>6. ASSUME NEW k \in DOMAIN Tail(todo) PROVE Tail(todo)[k].do # "register"
    <3>1. k + Len(v) \in DOMAIN todo' /\ todo'[k + Len(v)] = Tail(todo)[k]
      BY <2>3
    <3>. QED  BY <2>2, <3>1
  <2>7. \A k \in DOMAIN todo : todo[k].do # "register"
    BY <2>4, <2>6
  <2>. QED  BY <2>1, <2>5, <2>7 DEF Handlerless
<1>4. ASSUME Handlerless' PROVE TidyWord(ircode', todo')
  <2>1. TidyWord(ircode, todo) /\ TidySteps(v, FALSE, {})
    BY <1>3, <1>4 DEF TidyState, Ready
  <2>2. TidyWord(ircode, v \o Tail(todo))
    BY <1>1, <2>1, WordFilled
  <2>. QED  BY <2>2
<1>. QED  BY <1>2, <1>4 DEF TidyState, Ready

(* The visitors of the children of a node.                                 *)
LEMMA VisitsAre ==
  ASSUME IInv, VisitStmt \/ VisitExpr \/ VisitStmts
  PROVE  /\ todo # << >> /\ todo[1].do \in {"stmt", "stmts", "expr"} /\ ircode' = ircode
         /\ \E v : /\ todo' = v \o Tail(todo) /\ Visitor(v, opcodeCount)
                   /\ TidySteps(v, FALSE, {}) \/ \E k \in DOMAIN v : v[k].do = "register"
<1>1. opcodeCount \in Nat /\ (todo # << >> => Head(todo) = todo[1])
  BY StateFacts
<1>. DEFINE at == opcodeCount
            Base == Statements(at) \cup Expressions(at) \cup {ExprStmt, Identifier, << >>}
            More == { s \o << Do("stmts") >> : s \in Statements(at) \cup {ExprStmt} }
<1>2. /\ todo # << >> /\ todo[1].do \in {"stmt", "stmts", "expr"} /\ ircode' = ircode
      /\ \E v : todo' = v \o Tail(todo) /\ v \in Base \cup More
  BY <1>1 DEF VisitStmt, VisitExpr, VisitStmts, Visit, AtStep
<1>3. ASSUME NEW v \in Base
      PROVE  /\ Visitor(v, at)
             /\ TidySteps(v, FALSE, {}) \/ \E k \in DOMAIN v : v[k].do = "register"
  <2>1. Visitor(v, at)
    BY <1>1, Visitors
  <2>2. TidySteps(v, FALSE, {}) \/ \E k \in DOMAIN v : v[k].do = "register"
    BY <1>1, VisitorsTidy, PlainTidy
  <2>. QED  BY <2>1, <2>2
<1>4. ASSUME NEW s \in Statements(at) \cup {ExprStmt}
      PROVE  /\ Visitor(s \o << Do("stmts") >>, at)
             /\ \/ TidySteps(s \o << Do("stmts") >>, FALSE, {})
                \/ \E k \in DOMAIN (s \o << Do("stmts") >>) : (s \o << Do("stmts") >>)[k].do = "register"
  <2>0. Visitor(s, at)
    BY <1>1, Visitors
  <2>1. Visitor(s, at) /\ s \in Steps
    BY <2>0 DEF Visitor
  <2>2. Visitor(s \o << Do("stmts") >>, at)
    BY <1>1, <2>1, VisitorAppend, OneStep, OrdinarySteps
  <2>3. CASE TidySteps(s, FALSE, {})
    BY <2>1, <2>2, <2>3, MoreTidy
  <2>4. CASE \E k \in DOMAIN s : s[k].do = "register"
    <3>. DEFINE z == << Do("stmts") >>
    <3>1. z \in Steps
      BY Single, OneStep
    <3>. HIDE DEF z
    <3>2. \A k \in DOMAIN s : k \in DOMAIN (s \o z) /\ (s \o z)[k] = s[k]
      BY <2>1, <3>1, Concat
    <3>3. \E k \in DOMAIN (s \o z) : (s \o z)[k].do = "register"
      BY <2>4, <3>2
    <3>. QED  BY <2>2, <3>3 DEF z
  <2>. QED  BY <1>1, <2>3, <2>4, VisitorsTidy
<1>. QED  BY <1>2, <1>3, <1>4

(* Their labels are new.                                                   *)
LEMMA VisitsTidy ==
  ASSUME IInv, TodoOK(todo, opcodeCount), Dated(ircode), TidyState,
         VisitStmt \/ VisitExpr \/ VisitStmts
  PROVE  TidyState'
<1>1. /\ todo # << >> /\ todo[1].do \in {"stmt", "stmts", "expr"} /\ ircode' = ircode
  BY VisitsAre
<1>2. PICK v : /\ todo' = v \o Tail(todo) /\ Visitor(v, opcodeCount)
               /\ TidySteps(v, FALSE, {}) \/ \E k \in DOMAIN v : v[k].do = "register"
  BY VisitsAre
<1>3. /\ ircode \in Seq(Instr) /\ todo \in Steps /\ v \in Steps
      /\ opcodeCount = Len(ircode) /\ Len(ircode) \in Nat
  BY <1>2, StateFacts DEF Visitor
<1>4. ~ Fresh(todo)
  BY <1>1, <1>3, Positions DEF Fresh
<1>5. ASSUME NEW k \in DOMAIN v, v[k].do \in {"jump", "label"}
      PROVE  v[k].tag # NoTag /\ v[k].tag[1] = Len(ircode) /\ v[k].tag[2] # "exit"
  <2>1. Named(v, v[k].tag)
    BY <1>2, <1>5 DEF Visitor, Named
  <2>2. v[k].tag[2] \notin {"", "var", "exit"}
    BY <1>2, <2>1 DEF Visitor, Named, Kind
  <2>3. NoTag[2] = ""
    BY DEF NoTag
  <2>4. v[k].tag # NoTag
    BY <2>2, <2>3
  <2>. QED  BY <1>2, <1>3, <2>2, <2>4 DEF Visitor
<1>6. ASSUME NEW k \in DOMAIN v, v[k].do \in {"jump", "label"},
             NEW i \in DOMAIN ircode
      PROVE  ircode[i].tag # v[k].tag
  <2>1. ircode[i].tag[2] # "exit" => ircode[i].tag[1] < i
    BY DEF Dated
  <2>2. i \in Nat /\ i <= Len(ircode)
    BY <1>3
  <2>. QED  BY <1>3, <1>5, <1>6, <2>1, <2>2
<1>7. ASSUME NEW k \in DOMAIN v, v[k].do \in {"jump", "label"},
             NEW i \in DOMAIN todo
      PROVE  todo[i].tag # v[k].tag
  <2>1. todo[i].tag = NoTag \/ todo[i].tag[1] < Len(ircode)
    BY <1>3, <1>4 DEF TodoOK
  <2>. QED  BY <1>3, <1>5, <1>7, <2>1
<1>. QED  BY <1>1, <1>2, <1>3, <1>6, <1>7, TidyFill

LEMMA OneLeft ==
  ASSUME NEW S, NEW s \in Seq(S), Len(s) = 1
  PROVE  s = << s[1] >> /\ Tail(s) = << >>
<1>1. Tail(s) \in Seq(S) /\ Len(Tail(s)) = 0
  OBVIOUS
<1>2. Tail(s) = << >>
  <2>. DEFINE t == Tail(s)
  <2>1. t \in Seq(S) /\ Len(t) = 0
    BY <1>1
  <2>. HIDE DEF t
  <2>2. t = << >>
    BY <2>1
  <2>. QED  BY <2>2 DEF t
<1>3. s = [k \in 1 .. 1 |-> s[k]]
  OBVIOUS
<1>4. \A k \in 1 .. 1 : k = 1
  OBVIOUS
<1>5. s = << s[1] >>
  BY <1>3, <1>4
<1>. QED  BY <1>2, <1>5

LEMMA TidyStep ==
  ASSUME IInv, TodoOK(todo, opcodeCount), JInv, Dated(ircode), TidyState, [Next]_vars
  PROVE  TidyState'
<1>1. /\ ircode \in Seq(Instr) /\ Len(ircode) \in Nat /\ DOMAIN ircode = 1 .. Len(ircode)
      /\ nextvar \in Nat /\ opcodeCount = Len(ircode) /\ TypeOK /\ todo \in Steps
  BY StateFacts
<1>2. todo # << >> => Head(todo) = todo[1] /\ todo[1] \in Step
  BY StateFacts
<1>3. ASSUME NEW x \in Instr, ircode' = Append(ircode, x)
      PROVE  /\ ircode' \in Seq(Instr) /\ Len(ircode') = Len(ircode) + 1
             /\ ircode'[Len(ircode) + 1] = x
             /\ \A i \in DOMAIN ircode :
                  ircode'[i].op = ircode[i].op /\ ircode'[i].tag = ircode[i].tag
  BY <1>1, <1>3
<1>4. ASSUME NEW x \in Instr, ircode' = Append(ircode, x), Written(x) = Planned(todo[1]),
             todo # << >>, todo[1].do # "finish", todo[1].do # "register", todo' = Tail(todo)
      PROVE  TidyState'
  BY <1>3, <1>4, TidyEmit
<1>5. CASE UNCHANGED vars
  BY <1>5 DEF vars, TidyState, Handlerless, WithoutHandlers
<1>6. CASE EmitPlain
  <2>. DEFINE x == Instruction(todo[1].op, 0, 0, NoTag)
  <2>1. /\ todo # << >> /\ todo[1].do = "emit" /\ ircode' = Append(ircode, x) /\ todo' = Tail(todo)
    BY <1>2, <1>6 DEF EmitPlain, AtStep
  <2>2. todo[1].op \in {"scope", "end", "raise", "ret"}
    BY <1>2, <2>1, StepKinds
  <2>3. x \in Instr /\ x.op = todo[1].op
    BY <2>2, InstructionType, NoTagType DEF Instruction
  <2>4. Written(x) = Planned(todo[1])
    BY <2>1, <2>2, <2>3 DEF Written, Planned, Mark, Jumps
  <2>. HIDE DEF x
  <2>. QED  BY <1>4, <2>1, <2>3, <2>4
<1>7. CASE EmitAlloc \/ EmitAllocLater
  <2>1. PICK n \in Nat :
        /\ todo # << >> /\ todo[1].do \in {"alloc", "alloc later"} /\ todo' = Tail(todo)
        /\ ircode' = Append(ircode, Instruction(todo[1].op, n, 0, todo[1].tag))
    <3>1. 0 \in Nat
      OBVIOUS
    <3>. QED  BY <1>1, <1>2, <1>7, <3>1 DEF EmitAlloc, EmitAllocLater, AtStep
  <2>. DEFINE x == Instruction(todo[1].op, n, 0, todo[1].tag)
  <2>2. todo[1].op \in Allocs /\ todo[1].tag \in Tag
    BY <1>2, <2>1, StepKinds
  <2>3. x \in Instr /\ x.op = todo[1].op
    BY <2>2, InstructionType DEF Instruction
  <2>4. Written(x) = Planned(todo[1])
    BY <2>1, <2>2, <2>3 DEF Written, Planned, Mark, Jumps, Allocs
  <2>. HIDE DEF x
  <2>5. ircode' = Append(ircode, x)
    BY <2>1 DEF x
  <2>. QED  BY <1>4, <2>1, <2>3, <2>4, <2>5
<1>8. CASE EmitJump
  <2>. DEFINE x == Instruction(todo[1].op, 0, LabelAt(todo[1].tag), todo[1].tag)
  <2>1. /\ todo # << >> /\ todo[1].do = "jump" /\ todo' = Tail(todo) /\ ircode' = Append(ircode, x)
    BY <1>2, <1>8 DEF EmitJump, AtStep
  <2>2. todo[1].op \in Jumps /\ todo[1].tag \in Tag /\ LabelAt(todo[1].tag) \in Nat
    BY <1>1, <1>2, <2>1, StepKinds, OperandsKnown
  <2>3. x \in Instr /\ x.op = todo[1].op /\ x.tag = todo[1].tag
    BY <2>2, InstructionType DEF Instruction
  <2>4. Written(x) = Planned(todo[1])
    BY <2>1, <2>3 DEF Written, Planned
  <2>. HIDE DEF x
  <2>. QED  BY <1>4, <2>1, <2>3, <2>4
<1>9. CASE EmitJzraise
  <2>. DEFINE x == Instruction("jzraise", 0, nextvar, NoTag)
  <2>1. /\ todo # << >> /\ todo[1].do = "jzraise" /\ todo' = Tail(todo) /\ ircode' = Append(ircode, x)
    BY <1>2, <1>9 DEF EmitJzraise, AtStep
  <2>2. x \in Instr /\ x.op = "jzraise"
    BY <1>1, NoTagType, LabelType DEF Instruction
  <2>3. Written(x) = Planned(todo[1])
    BY <2>1, <2>2 DEF Written, Planned, Mark, Jumps
  <2>. HIDE DEF x
  <2>. QED  BY <1>4, <2>1, <2>2, <2>3
<1>10. CASE EmitLabel
  <2>. DEFINE x == Instruction("label", 0, nextvar, todo[1].tag)
              p == Patched(todo[1].tag, nextvar)
  <2>1. /\ todo # << >> /\ todo[1].do = "label" /\ todo' = Tail(todo) /\ ircode' = Append(p, x)
    BY <1>2, <1>10 DEF EmitLabel, AtStep
  <2>2. x \in Instr /\ x.op = "label" /\ x.tag = todo[1].tag
    BY <1>1, <1>2, <2>1, StepKinds, LabelType DEF Instruction
  <2>3. /\ p \in Seq(Instr) /\ Len(p) = Len(ircode) /\ DOMAIN p = DOMAIN ircode
        /\ \A i \in DOMAIN ircode : p[i].op = ircode[i].op /\ p[i].tag = ircode[i].tag
    BY <1>1, PatchedAt
  <2>4. Written(x) = Planned(todo[1])
    BY <2>1, <2>2 DEF Written, Planned
  <2>. HIDE DEF x, p
  <2>5. /\ ircode' \in Seq(Instr) /\ Len(ircode') = Len(ircode) + 1 /\ ircode'[Len(ircode) + 1] = x
        /\ \A i \in DOMAIN ircode : ircode'[i] = p[i]
    BY <1>1, <2>1, <2>2, <2>3
  <2>6. \A i \in DOMAIN ircode : ircode'[i].op = ircode[i].op /\ ircode'[i].tag = ircode[i].tag
    BY <2>3, <2>5
  <2>. QED  BY <2>1, <2>4, <2>5, <2>6, TidyEmit
<1>11. CASE (Reserve \/ EnterScope \/ LeaveScope) /\ UNCHANGED ircode
  <2>1. /\ todo # << >> /\ todo[1].do \in {"reserve", "enter", "leave"} /\ todo' = Tail(todo)
    BY <1>2, <1>11 DEF Reserve, EnterScope, LeaveScope, AtStep
  <2>2. Tail(todo) \in Seq(Step)
    BY <1>1, <2>1 DEF Steps
  <2>3. << >> \o Tail(todo) = Tail(todo)
    BY <2>2
  <2>4. << >> \in Steps /\ TidySteps(<< >>, FALSE, {}) /\ DOMAIN << >> = {}
    <3>1. << >> \in Steps
      BY DEF Steps
    <3>2. DOMAIN << >> = {}
      OBVIOUS
    <3>. QED  BY PlainTidy, <3>1, <3>2
  <2>5. todo' = << >> \o Tail(todo)
    BY <2>1, <2>3
  <2>6. todo[1].do \in {"stmt", "stmts", "expr", "enter", "leave", "reserve"}
    BY <2>1
  <2>7. ircode' = ircode
    BY <1>11
  <2>. DEFINE v == << >>
  <2>8. v \in Steps /\ TidySteps(v, FALSE, {}) /\ DOMAIN v = {} /\ todo' = v \o Tail(todo)
    BY <2>4, <2>5
  <2>. HIDE DEF v
  <2>. QED  BY <2>1, <2>6, <2>7, <2>8, TidyFill
<1>12. CASE VisitStmt \/ VisitExpr \/ VisitStmts
  BY <1>12, VisitsTidy
<1>13. CASE FinishFunc
  <2>. DEFINE x == Instruction("end", 0, 0, NoTag)
              e == todo[1]
  <2>1. /\ todo # << >> /\ e.do = "finish" /\ ircode' = Append(ircode, x) /\ todo' = Tail(todo)
    BY <1>2, <1>13 DEF FinishFunc, AtStep
  <2>2. e \in Step /\ Len(todo) = 1
    <3>1. 1 \in DOMAIN todo
      BY <1>1, <2>1, TailAt
    <3>. QED  BY <1>2, <2>1, <3>1 DEF TodoOK
  <2>3. todo = << e >> /\ Tail(todo) = << >>
    <3>1. todo \in Seq(Step)
      BY <1>1 DEF Steps
    <3>. QED  BY <2>2, <3>1, OneLeft
  <2>4. x \in Instr /\ x.op = "end"
    BY InstructionType, NoTagType DEF Instruction
  <2>5. ASSUME Handlerless' PROVE Handlerless
    <3>1. \A i \in DOMAIN ircode' : ircode'[i].op # "onscopefail"
      BY <2>5 DEF Handlerless, WithoutHandlers
    <3>2. \A i \in DOMAIN ircode : i \in DOMAIN ircode' /\ ircode'[i] = ircode[i]
      BY <1>1, <2>1, <2>4, AppendAt
    <3>3. \A k \in DOMAIN todo : k = 1
      BY <1>1, <2>2, Lengths
    <3>. QED  BY <2>1, <3>1, <3>2, <3>3 DEF Handlerless, WithoutHandlers
  <2>6. ASSUME Handlerless' PROVE Ready(ircode', todo')
    <3>1. TidyWord(ircode, todo)
      BY <2>1, <2>5, <2>6 DEF TidyState, Ready
    <3>2. TidyWord(ircode, << e >>)
      <4>. HIDE DEF e
      <4>. QED  BY <2>3, <3>1
    <3>. HIDE DEF e
    <3>. QED  BY <1>1, <2>1, <2>2, <2>3, <3>2 DEF Ready
  <2>7. Ended(todo')
    BY <2>1, <2>3 DEF Ended
  <2>. QED  BY <2>6, <2>7 DEF TidyState
<1>14. CASE RegisterHandler \/ ExitHandler \/ (LeaveScope /\ ~ UNCHANGED ircode)
  <2>1. ~ Handlerless'
    BY <1>14, HandlerRegistered, NoneLeft DEF Handlerless
  <2>2. /\ todo # << >> /\ todo[1].do # "finish" /\ todo' = Tail(todo)
    BY <1>2, <1>14 DEF RegisterHandler, ExitHandler, LeaveScope, AtStep
  <2>3. Ended(todo')
    BY <1>1, <2>2, EndedTail DEF TidyState
  <2>. QED  BY <2>1, <2>3 DEF TidyState
<1>. QED  BY <1>5, <1>6, <1>7, <1>8, <1>9, <1>10, <1>11, <1>12, <1>13, <1>14
          DEF Next, Finished, Reserve, EnterScope

LEMMA TidyInit ==
  ASSUME Init
  PROVE  TidyState
<1>1. todo = Func /\ ircode = << >>
  BY DEF Init
<1>2. Func \in Steps /\ Ended(Func) /\ Func # << >>
  <2>1. Func = (<< Alloc >> \o Block) \o << Do("finish") >>
    BY DEF Func
  <2>. DEFINE a == << Alloc >> \o Block
              z == << Do("finish") >>
  <2>2. a \in Steps
    BY OneStep, Single, BlockSteps, ConcatSteps
  <2>3. z \in Steps /\ Len(z) = 1 /\ z[1] = Do("finish")
    BY OneStep, Single
  <2>. HIDE DEF a, z
  <2>4. /\ a \o z \in Steps /\ Len(a \o z) = Len(a) + 1 /\ (a \o z)[Len(a) + 1] = Do("finish")
    <3>1. Len(a \o z) = Len(a) + Len(z) /\ a \o z \in Steps
          /\ \A i \in 1 .. Len(z) : (a \o z)[Len(a) + i] = z[i]
      BY <2>2, <2>3, ConcatAt
    <3>2. 1 \in 1 .. Len(z)
      BY <2>3
    <3>. QED  BY <2>3, <3>1, <3>2
  <2>5. Func \in Steps /\ Func[Len(Func)] = Do("finish")
    <3>1. Func = a \o z
      BY <2>1 DEF a, z
    <3>. HIDE DEF Func
    <3>. QED  BY <2>4, <3>1
  <2>6. Len(Func) # 0
    <3>1. Func = a \o z
      BY <2>1 DEF a, z
    <3>2. Len(a) \in Nat
      BY <2>2, Lengths
    <3>. HIDE DEF Func
    <3>. QED  BY <2>4, <3>1, <3>2
  <2>7. Do("finish").do = "finish"
    BY DEF Do
  <2>. HIDE DEF Func
  <2>. QED  BY <2>5, <2>6, <2>7, NonEmpty DEF Ended
<1>3. TidyWord(<< >>, Func)
  <2>1. Word(<< >>, Func) = Plan(Func)
    <3>1. Len(<< >>) = 0 /\ DOMAIN Func = 1 .. Len(Func) /\ Len(Func) \in Nat
      BY <1>2, Lengths
    <3>. HIDE DEF Func
    <3>2. \A k \in 1 .. Len(Func) : ~ (k <= 0) /\ k - 0 = k
      BY <3>1
    <3>3. 0 + Len(Func) = Len(Func)
      BY <3>1
    <3>. QED  BY <3>1, <3>2, <3>3 DEF Word, Plan
  <2>2. 0 + Len(Func) = Len(Func) /\ Len(<< >>) = 0
    BY <1>2, Lengths
  <2>. HIDE DEF Func
  <2>. QED  BY <2>1, <2>2, FuncTidy DEF TidyWord, TidySteps
<1>. HIDE DEF Func
<1>. QED  BY <1>1, <1>2, <1>3 DEF TidyState, Ready

LEMMA TidyInductive == Spec => [](IInv /\ JInv /\ TidyState)
<1>. DEFINE Basis == IInv /\ TodoOK(todo, opcodeCount) /\ JInv
            Numbers == Sound(ircode, todo, Top.nextVarID)
            State == TidyState
<1>1. Init => State
  BY TidyInit
<1>2. Basis /\ Numbers /\ State /\ [Next]_vars => State'
  BY TidyStep DEF Sound
<1>3. Spec => []Basis
  BY JInductive
<1>4. Spec => [](TodoOK(todo, opcodeCount) /\ JInv /\ Numbers)
  BY SoundInductive
<1>5. TodoOK(todo, opcodeCount) /\ JInv /\ Numbers => Numbers
  OBVIOUS
<1>6. Basis /\ State => IInv /\ JInv /\ TidyState
  OBVIOUS
<1>. HIDE DEF Basis, Numbers, State
<1>. QED  BY <1>1, <1>2, <1>3, <1>4, <1>5, <1>6, PTL DEF Spec

(* The stack of the scopes open, as OpenScopes computes it.                *)
Opened(s, op, i) ==
  CASE op = "scope" -> Append(s, i)
    [] op = "end"   -> Front(s)
    [] OTHER        -> s

Opens(f, code, n) ==
  f = [i \in 0 .. n |-> IF i = 0 THEN << >> ELSE Opened(f[i - 1], code[i].op, i)]

LEMMA OpensAt ==
  ASSUME NEW f, NEW code, NEW n \in Nat, Opens(f, code, n)
  PROVE  /\ DOMAIN f = 0 .. n /\ f[0] = << >>
         /\ \A i \in Nat : i < n => f[i + 1] = Opened(f[i], code[i + 1].op, i + 1)
<1>1. 0 \in 0 .. n
  OBVIOUS
<1>2. f[0] = << >>
  BY <1>1 DEF Opens
<1>3. ASSUME NEW i \in Nat, i < n PROVE f[i + 1] = Opened(f[i], code[i + 1].op, i + 1)
  <2>1. i + 1 \in 0 .. n /\ i + 1 # 0 /\ (i + 1) - 1 = i
    BY <1>3
  <2>2. f[i + 1] = IF i + 1 = 0 THEN << >> ELSE Opened(f[(i + 1) - 1], code[i + 1].op, i + 1)
    BY <2>1 DEF Opens
  <2>. QED  BY <2>1, <2>2
<1>4. DOMAIN f = 0 .. n
  BY DEF Opens
<1>. QED  BY <1>2, <1>3, <1>4

LEMMA OpensExists ==
  ASSUME NEW code, NEW n \in Nat
  PROVE  \E f : Opens(f, code, n)
<1>. DEFINE S == {m \in Nat : \E f : Opens(f, code, m)}
<1>1. 0 \in S
  <2>. DEFINE f == [i \in 0 .. 0 |-> << >>]
  <2>1. Opens(f, code, 0)
    <3>1. \A i \in 0 .. 0 : i = 0
      OBVIOUS
    <3>2. f = [i \in 0 .. 0 |-> IF i = 0 THEN << >> ELSE Opened(f[i - 1], code[i].op, i)]
      BY <3>1
    <3>. QED  BY <3>2 DEF Opens
  <2>. QED  BY <2>1
<1>2. ASSUME NEW m \in Nat, m \in S PROVE m + 1 \in S
  <2>1. PICK f : Opens(f, code, m)
    BY <1>2
  <2>. DEFINE g == [i \in 0 .. m + 1 |-> IF i <= m THEN f[i] ELSE Opened(f[m], code[m + 1].op, m + 1)]
              e(i) == IF i = 0 THEN << >> ELSE Opened(g[i - 1], code[i].op, i)
  <2>2. f[0] = << >> /\ \A i \in Nat : i < m => f[i + 1] = Opened(f[i], code[i + 1].op, i + 1)
    BY <2>1, OpensAt
  <2>3. ASSUME NEW i \in 0 .. m + 1 PROVE g[i] = e(i)
    <3>1. CASE i = 0
      BY <2>2, <3>1
    <3>2. CASE i # 0 /\ i <= m
      <4>1. i - 1 \in Nat /\ i - 1 < m /\ (i - 1) + 1 = i /\ i - 1 \in 0 .. m + 1 /\ i - 1 <= m
        BY <3>2
      <4>2. f[i] = Opened(f[i - 1], code[i].op, i)
        BY <2>2, <4>1
      <4>3. g[i] = f[i] /\ g[i - 1] = f[i - 1]
        BY <3>2, <4>1
      <4>. QED  BY <3>2, <4>2, <4>3
    <3>3. CASE i = m + 1
      <4>1. m \in 0 .. m + 1 /\ m <= m /\ ~ (i <= m) /\ i # 0 /\ i - 1 = m
        BY <3>3
      <4>2. g[m] = f[m] /\ g[i] = Opened(f[m], code[m + 1].op, m + 1)
        BY <4>1
      <4>. QED  BY <3>3, <4>1, <4>2
    <3>4. i = 0 \/ (i # 0 /\ i <= m) \/ i = m + 1
      OBVIOUS
    <3>. QED  BY <3>1, <3>2, <3>3, <3>4
  <2>4. g = [i \in 0 .. m + 1 |-> g[i]]
    OBVIOUS
  <2>5. g = [i \in 0 .. m + 1 |-> e(i)]
    <3>. HIDE DEF g
    <3>. QED  BY <2>3, <2>4
  <2>6. Opens(g, code, m + 1)
    <3>. HIDE DEF g
    <3>. QED  BY <2>5 DEF Opens
  <2>7. m + 1 \in Nat
    OBVIOUS
  <2>. QED  BY <2>6, <2>7
<1>. HIDE DEF S
<1>3. n \in S
  BY <1>1, <1>2, Induct
<1>. QED  BY <1>3 DEF S

LEMMA OpenScopesAre ==
  ASSUME Len(ircode) \in Nat
  PROVE  Opens(OpenScopes, ircode, Len(ircode))
<1>. DEFINE n == Len(ircode)
            h == CHOOSE f : f = [i \in 0 .. n |-> IF i = 0 THEN << >>
                                                  ELSE Opened(f[i - 1], ircode[i].op, i)]
<1>1. \E f : Opens(f, ircode, n)
  BY OpensExists
<1>2. \E f : f = [i \in 0 .. n |-> IF i = 0 THEN << >> ELSE Opened(f[i - 1], ircode[i].op, i)]
  BY <1>1 DEF Opens
<1>3. h = [i \in 0 .. n |-> IF i = 0 THEN << >> ELSE Opened(h[i - 1], ircode[i].op, i)]
  BY <1>2
<1>4. OpenScopes = h
  BY DEF OpenScopes, Opened
<1>5. Opens(h, ircode, n)
  <2>. HIDE DEF h
  <2>. QED  BY <1>3 DEF Opens
<1>. QED  BY <1>4, <1>5

(* Where the h-th scope open after k instructions began: since then the    *)
(* depth is at least h, and it was not before.                             *)
Since(d, k, h, p) ==
  p \in 1 .. k /\ (\A q \in p .. k : h <= d[q]) /\ d[p - 1] < h

Stacked(f, d, k) ==
  /\ f[k] \in Seq(Nat) /\ Len(f[k]) = d[k]
  /\ \A h \in 1 .. d[k] : Since(d, k, h, f[k][h])

(* The depths after the first m instructions of the code.                  *)
Depths(code, m, d) ==
  /\ \A k \in 0 .. m : d[k] \in Nat
  /\ d[0] = 0
  /\ \A i \in 1 .. m :
       /\ code[i].op = "scope" => d[i] = d[i - 1] + 1
       /\ code[i].op = "end" => d[i] = d[i - 1] - 1
       /\ code[i].op \notin {"scope", "end"} => d[i] = d[i - 1]

LEMMA SinceMore ==
  ASSUME NEW d, NEW k \in Nat, NEW h \in Nat, NEW p, Since(d, k, h, p), h <= d[k + 1]
  PROVE  Since(d, k + 1, h, p)
<1>1. p \in 1 .. k /\ d[p - 1] < h /\ \A q \in p .. k : h <= d[q]
  BY DEF Since
<1>2. ASSUME NEW q \in p .. k + 1 PROVE h <= d[q]
  <2>1. q = k + 1 \/ q \in p .. k
    BY <1>1, <1>2
  <2>. QED  BY <1>1, <2>1
<1>3. p \in 1 .. k + 1
  BY <1>1
<1>. QED  BY <1>1, <1>2, <1>3 DEF Since

LEMMA StackedOne ==
  ASSUME NEW code, NEW d, NEW f, NEW m \in Nat, NEW k \in Nat, k < m, Depths(code, m, d),
         Stacked(f, d, k), f[k + 1] = Opened(f[k], code[k + 1].op, k + 1)
  PROVE  Stacked(f, d, k + 1)
<1>. DEFINE j == k + 1
            s == f[k]
            t == f[j]
<1>1. /\ j \in 1 .. m /\ j - 1 = k /\ d[k] \in Nat /\ d[j] \in Nat
      /\ code[j].op = "scope" => d[j] = d[k] + 1
      /\ code[j].op = "end" => d[j] = d[k] - 1
      /\ code[j].op \notin {"scope", "end"} => d[j] = d[k]
  <2>1. j \in 1 .. m /\ j - 1 = k /\ j \in 0 .. m /\ k \in 0 .. m
    OBVIOUS
  <2>. HIDE DEF j
  <2>. QED  BY <2>1 DEF Depths
<1>2. s \in Seq(Nat) /\ Len(s) = d[k] /\ \A h \in 1 .. d[k] : Since(d, k, h, s[h])
  BY DEF Stacked
<1>3. t = Opened(s, code[j].op, j) /\ j \in Nat
  BY <1>1
<1>4. ASSUME NEW h \in 1 .. d[k], h <= d[j] PROVE Since(d, j, h, s[h])
  <2>1. h \in Nat /\ Since(d, k, h, s[h])
    BY <1>1, <1>2
  <2>. QED  BY <1>4, <2>1, SinceMore
<1>. HIDE DEF s, t, j
<1>5. CASE code[j].op = "scope"
  <2>1. t = Append(s, j) /\ d[j] = d[k] + 1
    BY <1>1, <1>3, <1>5 DEF Opened
  <2>2. /\ t \in Seq(Nat) /\ Len(t) = d[j] /\ t[d[j]] = j
        /\ \A h \in 1 .. d[k] : t[h] = s[h]
    BY <1>1, <1>2, <1>3, <2>1, SMTT(30)
  <2>3. Since(d, j, d[j], j)
    <3>1. j \in 1 .. j /\ d[j - 1] < d[j] /\ \A q \in j .. j : q = j
      BY <1>1, <2>1
    <3>. QED  BY <1>1, <3>1 DEF Since
  <2>4. ASSUME NEW h \in 1 .. d[j] PROVE Since(d, j, h, t[h])
    <3>1. h = d[j] \/ (h \in 1 .. d[k] /\ h <= d[j])
      BY <1>1, <2>1
    <3>. QED  BY <1>4, <2>2, <2>3, <3>1
  <2>. QED  BY <2>2, <2>4 DEF Stacked, t, j
<1>6. CASE code[j].op = "end"
  <2>1. t = SubSeq(s, 1, Len(s) - 1) /\ d[j] = d[k] - 1
    BY <1>1, <1>3, <1>6 DEF Opened, Front
  <2>2. /\ t \in Seq(Nat) /\ Len(t) = d[j]
        /\ \A h \in 1 .. d[j] : t[h] = s[h]
    <3>1. s \in Seq(Nat) /\ Len(s) = d[k] /\ d[k] \in Nat /\ d[k] - 1 \in Nat
      BY <1>1, <1>2, <2>1
    <3>2. Len(s) - 1 \in 0 .. Len(s)
      BY <3>1
    <3>3. /\ SubSeq(s, 1, Len(s) - 1) \in Seq(Nat) /\ Len(SubSeq(s, 1, Len(s) - 1)) = Len(s) - 1
          /\ \A h \in 1 .. Len(s) - 1 : SubSeq(s, 1, Len(s) - 1)[h] = s[h]
      <4>1. Len(s) \in Nat /\ Len(s) - 1 \in Nat
        BY <3>1
      <4>. QED  BY <3>1, <3>2, <4>1, SMTT(30)
    <3>. QED  BY <2>1, <3>1, <3>3
  <2>3. ASSUME NEW h \in 1 .. d[j] PROVE Since(d, j, h, t[h])
    <3>1. h \in 1 .. d[k] /\ h <= d[j]
      BY <1>1, <2>1
    <3>. QED  BY <1>4, <2>2, <3>1
  <2>. QED  BY <2>2, <2>3 DEF Stacked, t, j
<1>7. CASE code[j].op \notin {"scope", "end"}
  <2>1. t = s /\ d[j] = d[k]
    BY <1>1, <1>3, <1>7 DEF Opened
  <2>2. ASSUME NEW h \in 1 .. d[j] PROVE Since(d, j, h, t[h])
    <3>1. h \in 1 .. d[k] /\ h <= d[j]
      BY <1>1, <2>1
    <3>. QED  BY <1>4, <2>1, <3>1
  <2>. QED  BY <1>2, <2>1, <2>2 DEF Stacked, t, j
<1>. QED  BY <1>5, <1>6, <1>7

LEMMA StackedAll ==
  ASSUME NEW code, NEW d, NEW f, NEW m \in Nat, Depths(code, m, d),
         NEW n \in Nat, m <= n, Opens(f, code, n), NEW k \in 0 .. m
  PROVE  Stacked(f, d, k)
<1>. DEFINE S == {i \in Nat : i <= m => Stacked(f, d, i)}
<1>1. f[0] = << >> /\ \A i \in Nat : i < n => f[i + 1] = Opened(f[i], code[i + 1].op, i + 1)
  BY OpensAt
<1>2. 0 \in S
  <2>1. d[0] = 0 /\ << >> \in Seq(Nat) /\ Len(<< >>) = 0
    BY DEF Depths
  <2>2. \A h \in 1 .. 0 : FALSE
    OBVIOUS
  <2>3. Stacked(f, d, 0)
    BY <1>1, <2>1, <2>2 DEF Stacked
  <2>. QED  BY <2>3
<1>3. ASSUME NEW i \in Nat, i \in S PROVE i + 1 \in S
  <2>1. ASSUME i + 1 <= m PROVE Stacked(f, d, i + 1)
    <3>1. i < m /\ i < n /\ i <= m
      BY <2>1
    <3>2. Stacked(f, d, i) /\ f[i + 1] = Opened(f[i], code[i + 1].op, i + 1)
      BY <1>1, <1>3, <3>1
    <3>. QED  BY <3>1, <3>2, StackedOne
  <2>. QED  BY <2>1
<1>. HIDE DEF S
<1>4. k \in S
  BY <1>2, <1>3, Induct
<1>5. k <= m /\ k \in Nat
  OBVIOUS
<1>. QED  BY <1>4, <1>5 DEF S

LEMMA PrefixIs ==
  ASSUME NEW s \in Seq(Nat), NEW t \in Seq(Nat)
  PROVE  IsPrefix(s, t) <=> Len(s) <= Len(t) /\ \A h \in 1 .. Len(s) : s[h] = t[h]
<1>1. Len(s) \in Nat /\ Len(t) \in Nat
  OBVIOUS
<1>2. CASE Len(s) <= Len(t)
  <2>. DEFINE a == SubSeq(s, 1, Len(s))
              b == SubSeq(t, 1, Len(s))
  <2>1. /\ a \in Seq(Nat) /\ Len(a) = Len(s) /\ \A h \in 1 .. Len(s) : a[h] = s[h]
        /\ b \in Seq(Nat) /\ Len(b) = Len(s) /\ \A h \in 1 .. Len(s) : b[h] = t[h]
    BY <1>1, <1>2, Shortened
  <2>. HIDE DEF a, b
  <2>2. a = b <=> \A h \in 1 .. Len(s) : s[h] = t[h]
    <3>1. ASSUME a = b, NEW h \in 1 .. Len(s) PROVE s[h] = t[h]
      BY <2>1, <3>1
    <3>2. ASSUME \A h \in 1 .. Len(s) : s[h] = t[h] PROVE a = b
      <4>1. \A h \in 1 .. Len(s) : a[h] = b[h]
        BY <2>1, <3>2
      <4>2. Len(a) = Len(b) /\ \A h \in 1 .. Len(a) : a[h] = b[h]
        BY <2>1, <4>1
      <4>3. a = [h \in 1 .. Len(a) |-> a[h]] /\ b = [h \in 1 .. Len(b) |-> b[h]]
        BY <2>1
      <4>. QED  BY <4>2, <4>3
    <3>. QED  BY <3>1, <3>2
  <2>3. IsPrefix(s, t) <=> a = b
    BY <1>2 DEF IsPrefix, a, b
  <2>. QED  BY <1>2, <2>2, <2>3
<1>3. CASE ~ (Len(s) <= Len(t))
  BY <1>3 DEF IsPrefix
<1>. QED  BY <1>2, <1>3

(* Two instructions are within the same h-th scope if it is not left       *)
(* between them.                                                           *)
LEMMA SameScope ==
  ASSUME NEW d, NEW a \in Nat, NEW b \in Nat, a <= b, \A k \in 0 .. b : d[k] \in Nat,
         NEW h \in Nat, NEW p, Since(d, a, h, p), NEW q, Since(d, b, h, q)
  PROVE  p = q <=> \A k \in a .. b : h <= d[k]
<1>1. /\ p \in 1 .. a /\ d[p - 1] < h /\ \A k \in p .. a : h <= d[k]
      /\ q \in 1 .. b /\ d[q - 1] < h /\ \A k \in q .. b : h <= d[k]
  BY DEF Since
<1>2. ASSUME p = q, NEW k \in a .. b PROVE h <= d[k]
  <2>1. k \in q .. b
    BY <1>1, <1>2
  <2>. QED  BY <1>1, <2>1
<1>3. ASSUME \A k \in a .. b : h <= d[k], p < q PROVE FALSE
  <2>1. q - 1 \in p .. a \/ q - 1 \in a .. b
    BY <1>1, <1>3
  <2>2. h <= d[q - 1]
    BY <1>1, <1>3, <2>1
  <2>3. d[q - 1] \in Nat
    <3>1. q - 1 \in 0 .. b
      BY <1>1
    <3>. QED  BY <3>1
  <2>. QED  BY <1>1, <2>2, <2>3
<1>4. ASSUME q < p PROVE FALSE
  <2>1. p - 1 \in q .. b /\ p - 1 \in 0 .. b
    BY <1>1, <1>4
  <2>2. h <= d[p - 1] /\ d[p - 1] \in Nat
    BY <1>1, <2>1
  <2>. QED  BY <1>1, <2>2
<1>5. p < q \/ q < p \/ p = q
  BY <1>1
<1>. QED  BY <1>2, <1>3, <1>4, <1>5

LEMMA PrefixStays ==
  ASSUME NEW d, NEW f, NEW m \in Nat, \A k \in 0 .. m : d[k] \in Nat,
         \A k \in 0 .. m : Stacked(f, d, k), NEW a \in 0 .. m, NEW b \in 0 .. m
  PROVE  IsPrefix(f[a], f[b]) <=> Stays(d, a, b)
<1>. DEFINE R == (a .. b) \cup (b .. a)
<1>1. /\ f[a] \in Seq(Nat) /\ Len(f[a]) = d[a] /\ \A h \in 1 .. d[a] : Since(d, a, h, f[a][h])
      /\ f[b] \in Seq(Nat) /\ Len(f[b]) = d[b] /\ \A h \in 1 .. d[b] : Since(d, b, h, f[b][h])
  BY DEF Stacked
<1>2. d[a] \in Nat /\ d[b] \in Nat /\ a \in Nat /\ b \in Nat /\ \A k \in R : d[k] \in Nat
  OBVIOUS
<1>3. a \in R /\ b \in R
  OBVIOUS
<1>4. ASSUME NEW h \in 1 .. d[a], h <= d[b]
      PROVE  f[a][h] = f[b][h] <=> \A k \in R : h <= d[k]
  <2>1. h \in Nat /\ Since(d, a, h, f[a][h]) /\ Since(d, b, h, f[b][h])
    <3>1. h \in 1 .. d[b] /\ h \in Nat
      BY <1>2, <1>4
    <3>. QED  BY <1>1, <3>1
  <2>2. CASE a <= b
    <3>1. \A k \in 0 .. b : d[k] \in Nat
      OBVIOUS
    <3>2. f[a][h] = f[b][h] <=> \A k \in a .. b : h <= d[k]
      BY <1>2, <2>1, <2>2, <3>1, SameScope
    <3>3. \A k \in R : k \in a .. b
      BY <1>2, <2>2
    <3>. QED  BY <3>2, <3>3
  <2>3. CASE b <= a
    <3>1. \A k \in 0 .. a : d[k] \in Nat
      OBVIOUS
    <3>2. f[b][h] = f[a][h] <=> \A k \in b .. a : h <= d[k]
      BY <1>2, <2>1, <2>3, <3>1, SameScope
    <3>3. \A k \in R : k \in b .. a
      BY <1>2, <2>3
    <3>. QED  BY <3>2, <3>3
  <2>. QED  BY <1>2, <2>2, <2>3
<1>5. IsPrefix(f[a], f[b]) <=> d[a] <= d[b] /\ \A h \in 1 .. d[a] : f[a][h] = f[b][h]
  BY <1>1, PrefixIs
<1>6. Stays(d, a, b) <=> \A k \in R : d[a] <= d[k]
  BY DEF Stays
<1>. HIDE DEF R
<1>7. ASSUME d[a] <= d[b], \A h \in 1 .. d[a] : f[a][h] = f[b][h], NEW k \in R
      PROVE  d[a] <= d[k]
  <2>1. CASE d[a] = 0
    BY <1>2, <2>1
  <2>2. CASE d[a] # 0
    <3>1. d[a] \in 1 .. d[a]
      BY <1>2, <2>2
    <3>2. f[a][d[a]] = f[b][d[a]]
      BY <1>7, <3>1
    <3>. QED  BY <1>4, <1>7, <3>1, <3>2
  <2>. QED  BY <2>1, <2>2
<1>8. ASSUME \A k \in R : d[a] <= d[k]
      PROVE  d[a] <= d[b] /\ \A h \in 1 .. d[a] : f[a][h] = f[b][h]
  <2>1. d[a] <= d[b]
    BY <1>3, <1>8
  <2>2. ASSUME NEW h \in 1 .. d[a] PROVE f[a][h] = f[b][h]
    <3>1. h <= d[b] /\ \A k \in R : h <= d[k]
      <4>1. h \in Nat /\ h <= d[a]
        BY <1>2
      <4>. QED  BY <1>2, <1>8, <2>1, <4>1
    <3>. QED  BY <1>4, <3>1
  <2>. QED  BY <2>1, <2>2
<1>. QED  BY <1>5, <1>6, <1>7, <1>8

(* The last instruction ends a scope; the depths before it.                *)
LEMMA TidyTranslated ==
  ASSUME IInv, JInv, TidyState, Translated, WithoutHandlers
  PROVE  \E m \in Nat : \E d :
           /\ DOMAIN ircode = 1 .. m + 1 /\ Len(ircode) = m + 1 /\ ircode[m + 1].op = "end"
           /\ Depths(ircode, m, d)
           /\ \A i, t \in 1 .. m :
                ircode[i].op \in Jumps /\ ircode[t].op = "label" /\ ircode[t].tag = ircode[i].tag =>
                  /\ Stays(d, t, i)
                  /\ \A j \in 1 .. i : ircode[j].op = "stackalloc" /\ Stays(d, j, i) => Stays(d, j, t)
                  /\ \A j \in i .. t : ircode[j].op \in Allocs => ~ Stays(d, j, t)
<1>1. todo = << >>
  BY DEF JInv, Translated
<1>2. Handlerless
  BY <1>1 DEF Handlerless
<1>3. Ready(ircode, << >>)
  BY <1>1, <1>2 DEF TidyState
<1>. DEFINE x == Instruction("end", 0, 0, NoTag)
<1>4. PICK b \in Seq(Instr), e \in Step : ircode = Append(b, x) /\ TidyWord(b, << e >>)
  BY <1>3 DEF Ready
<1>5. x \in Instr /\ x.op = "end"
  BY InstructionType, NoTagType DEF Instruction
<1>. HIDE DEF x
<1>. DEFINE m == Len(b)
            w == Word(b, << e >>)
<1>6. /\ m \in Nat /\ DOMAIN ircode = 1 .. m + 1 /\ Len(ircode) = m + 1 /\ ircode[m + 1].op = "end"
      /\ \A k \in 1 .. m : ircode[k] = b[k]
  BY <1>4, <1>5
<1>7. Tidy(w, m + 1, FALSE, {})
  <2>1. Len(<< e >>) = 1
    OBVIOUS
  <2>. QED  BY <1>4, <2>1 DEF TidyWord
<1>8. \A k \in 1 .. m : w[k] = Written(ircode[k])
  <2>1. << e >> \in Steps
    BY Single
  <2>2. \A k \in 1 .. Len(b) : Word(b, << e >>)[k] = Written(b[k])
    <3>. DEFINE z == << e >>
    <3>1. z \in Steps
      BY <2>1
    <3>. HIDE DEF z
    <3>2. \A k \in 1 .. Len(b) : Word(b, z)[k] = Written(b[k])
      BY <3>1, WordAt
    <3>. QED  BY <3>2 DEF z
  <2>. QED  BY <1>6, <2>2
<1>. HIDE DEF w
<1>9. PICK d : Depth(w, m + 1, d) /\ Jumping(w, m + 1, d)
  BY <1>7 DEF Tidy
<1>10. \A k \in 1 .. m : /\ w[k].op = ircode[k].op
                         /\ ircode[k].op \in Jumps \cup {"label"} => w[k].tag = ircode[k].tag
  <2>1. \A op, tag : /\ Mark(op, tag).op = op
                     /\ op \in Jumps \cup {"label"} => Mark(op, tag).tag = tag
    BY DEF Mark
  <2>. QED  BY <1>8, <2>1 DEF Written
<1>. HIDE DEF m
<1>11. \A k \in 1 .. m : k \in 1 .. m + 1
  BY <1>6
<1>12. Depths(ircode, m, d)
  <2>1. d \in [0 .. m + 1 -> Nat] /\ d[0] = 0
    BY <1>9 DEF Depth
  <2>2. \A k \in 0 .. m : d[k] \in Nat
    BY <1>6, <2>1
  <2>3. ASSUME NEW i \in 1 .. m
        PROVE  /\ ircode[i].op = "scope" => d[i] = d[i - 1] + 1
               /\ ircode[i].op = "end" => d[i] = d[i - 1] - 1
               /\ ircode[i].op \notin {"scope", "end"} => d[i] = d[i - 1]
    BY <1>9, <1>10, <1>11 DEF Depth
  <2>. QED  BY <2>1, <2>2, <2>3 DEF Depths
<1>13. ASSUME NEW i \in 1 .. m, NEW t \in 1 .. m, ircode[i].op \in Jumps, ircode[t].op = "label",
              ircode[t].tag = ircode[i].tag
       PROVE  /\ Stays(d, t, i)
              /\ \A j \in 1 .. i : ircode[j].op = "stackalloc" /\ Stays(d, j, i) => Stays(d, j, t)
              /\ \A j \in i .. t : ircode[j].op \in Allocs => ~ Stays(d, j, t)
  <2>1. w[i].op \in Jumps /\ w[t].op = "label" /\ w[t].tag = w[i].tag
    BY <1>10, <1>13
  <2>2. /\ Stays(d, t, i)
        /\ \A j \in 1 .. i : w[j].op \in Objects /\ Stays(d, j, i) => Stays(d, j, t)
        /\ \A j \in i .. t : w[j].op \in Declared => ~ Stays(d, j, t)
    BY <1>9, <1>11, <2>1 DEF Jumping
  <2>3. \A j \in 1 .. i : j \in 1 .. m
    BY <1>6
  <2>4. \A j \in i .. t : j \in 1 .. m
    BY <1>6
  <2>. QED  BY <1>10, <2>2, <2>3, <2>4 DEF Objects, Declared
<1>. QED  BY <1>6, <1>12, <1>13 DEF m

(* The same of the stacks the properties are about.                        *)
LEMMA JumpsTidy ==
  ASSUME IInv, JInv, TidyState, Translated, WithoutHandlers,
         NEW i \in DOMAIN ircode, ircode[i].op \in Jumps, NEW t \in Targets(i)
  PROVE  LET open == OpenScopes
         IN  /\ IsPrefix(open[t], open[i])
             /\ \A j \in 1 .. i :
                  (ircode[j].op = "stackalloc" /\ IsPrefix(open[j], open[i])) =>
                     IsPrefix(open[j], open[t])
             /\ \A j \in i .. t : ircode[j].op \in Allocs => ~ IsPrefix(open[j], open[t])
<1>. DEFINE open == OpenScopes
<1>0. PICK m \in Nat : \E d :
           /\ DOMAIN ircode = 1 .. m + 1 /\ Len(ircode) = m + 1 /\ ircode[m + 1].op = "end"
           /\ Depths(ircode, m, d)
           /\ \A a, b \in 1 .. m :
                ircode[a].op \in Jumps /\ ircode[b].op = "label" /\ ircode[b].tag = ircode[a].tag =>
                  /\ Stays(d, b, a)
                  /\ \A j \in 1 .. a : ircode[j].op = "stackalloc" /\ Stays(d, j, a) => Stays(d, j, b)
                  /\ \A j \in a .. b : ircode[j].op \in Allocs => ~ Stays(d, j, b)
  BY TidyTranslated
<1>1. PICK d :
           /\ DOMAIN ircode = 1 .. m + 1 /\ Len(ircode) = m + 1 /\ ircode[m + 1].op = "end"
           /\ Depths(ircode, m, d)
           /\ \A a, b \in 1 .. m :
                ircode[a].op \in Jumps /\ ircode[b].op = "label" /\ ircode[b].tag = ircode[a].tag =>
                  /\ Stays(d, b, a)
                  /\ \A j \in 1 .. a : ircode[j].op = "stackalloc" /\ Stays(d, j, a) => Stays(d, j, b)
                  /\ \A j \in a .. b : ircode[j].op \in Allocs => ~ Stays(d, j, b)
  BY <1>0
<1>2. t \in DOMAIN ircode /\ ircode[t].op = "label" /\ ircode[t].tag = ircode[i].tag
  BY DEF Targets, Tagged
<1>3. i \in 1 .. m /\ t \in 1 .. m
  <2>1. i # m + 1 /\ t # m + 1
    BY <1>1, <1>2 DEF Jumps
  <2>. QED  BY <1>1, <1>2, <2>1
<1>4. Opens(open, ircode, m + 1)
  BY <1>1, OpenScopesAre
<1>. HIDE DEF open
<1>5. \A k \in 0 .. m : Stacked(open, d, k)
  <2>1. m + 1 \in Nat /\ m <= m + 1
    OBVIOUS
  <2>. QED  BY <1>1, <1>4, <2>1, StackedAll
<1>6. \A a, b \in 0 .. m : IsPrefix(open[a], open[b]) <=> Stays(d, a, b)
  <2>1. \A k \in 0 .. m : d[k] \in Nat
    BY <1>1 DEF Depths
  <2>. QED  BY <1>5, <2>1, PrefixStays
<1>7. /\ Stays(d, t, i)
      /\ \A j \in 1 .. i : ircode[j].op = "stackalloc" /\ Stays(d, j, i) => Stays(d, j, t)
      /\ \A j \in i .. t : ircode[j].op \in Allocs => ~ Stays(d, j, t)
  BY <1>1, <1>2, <1>3
<1>8. /\ i \in 0 .. m /\ t \in 0 .. m /\ \A j \in 1 .. i : j \in 0 .. m
  BY <1>3
<1>9. \A j \in i .. t : j \in 0 .. m
  BY <1>3
<1>. QED  BY <1>6, <1>7, <1>8, <1>9 DEF open

(* A jump of a function without handlers never enters a scope of the IR,   *)
(* and no object may be in a scope it leaves, however deep loops,          *)
(* switches, conditionals and short circuits are nested: what the code     *)
(* releases at the end of a scope is released on every path.               *)
THEOREM NothingLeftBehind == Spec => []NoObjectLeftBehind
<1>1. ASSUME IInv, JInv, TidyState
      PROVE  NoObjectLeftBehind
  BY <1>1, JumpsTidy DEF NoObjectLeftBehind
<1>. QED  BY <1>1, TidyInductive, PTL

(* A jump of a function without handlers never skips the declaration of a  *)
(* register of a scope still open where it lands, which the end of that    *)
(* scope would release.                                                    *)
THEOREM DeclarationsKept == Spec => []NoDeclarationSkipped
<1>1. ASSUME IInv, JInv, TidyState
      PROVE  NoDeclarationSkipped
  BY <1>1, JumpsTidy DEF NoDeclarationSkipped
<1>. QED  BY <1>1, TidyInductive, PTL
==============================================================================
