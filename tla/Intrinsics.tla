----------------------------- MODULE Intrinsics -----------------------------
(***************************************************************************)
(* The intrinsics, from the types the analyzer checks and gives            *)
(* (details/semantic/intrinsics-lang.cpp, intrinsics-nanyc.cpp,            *)
(* opcode-intrinsic.cpp) to what the virtual machine computes in its       *)
(* registers (details/vm/thread.cpp).                                      *)
(*                                                                         *)
(* A register is a word of 64 bits, one of `All', that an opcode reads as  *)
(* u64, i64 or f64, whatever the type the analyzer gave it.  Of the        *)
(* registers of a function two are kept: a call reads them, and its result *)
(* takes the place of the first.  For an object whose class wraps a        *)
(* builtin (bool, u8...), the word kept is that of its field 0.            *)
(*                                                                         *)
(* Not modelled: ^fieldset, ref and unref (which touch no register), the   *)
(* bytes behind a pointer (what a load reads is any value of its width),   *)
(* and the rounding of floats (the result is any word).                    *)
(***************************************************************************)
EXTENDS Integers, Sequences

CONSTANTS
  Span,        \* how many values u8, u16, u32 and u64 have (2^8 to 2^64)
  BitAnd(_, _), BitOr(_, _), BitXor(_, _), \* on the bits of two words
  Literals,    \* from a builtin type to the words a program writes for it
  CatalogKinds \* the types of the functions added to the catalogue

VARIABLES
  regs,    \* two registers
  stopped  \* "" while the program runs, then why it stopped

vars == << regs, stopped >>

(* CType.                                                                  *)
Unsigned == {"u8", "u16", "u32", "u64"}
Signed   == {"i8", "i16", "i32", "i64"}
Floats   == {"f32", "f64"}
Builtins == {"ptr", "bool"} \cup Unsigned \cup Signed \cup Floats

Rank == [u8 |-> 1, u16 |-> 2, u32 |-> 3, u64 |-> 4,
         i8 |-> 1, i16 |-> 2, i32 |-> 3, i64 |-> 4, f32 |-> 1, f64 |-> 2]

Values(k) == Span[Rank[k]]
All       == Span[4]
Words     == 0 .. All - 1

(* The type of a register: a builtin, or "any" with a class.  The class is *)
(* told by the builtin it wraps, "void" when it wraps none.                *)
Builtin(k)  == [kind |-> k, class |-> "void"]
Object(c)   == [kind |-> "any", class |-> c]
Types == {Builtin(k) : k \in Builtins \cup {"void", "any"}} \cup {Object(c) : c \in Builtins}

IsObject(t) == t.kind = "any" /\ t.class # "void"

(* What a register holds: its type, the word, the builtin type of the word *)
(* that was written in it or in its field ("void": nothing was), and a     *)
(* mark no code reads: "narrow", "whole" after an operation on whole       *)
(* registers that may have left the width of the type, "raw" after a       *)
(* __reinterpret.                                                          *)
Register(type, word, held, mark) ==
  [type |-> type, word |-> word, held |-> held, mark |-> mark]

-----------------------------------------------------------------------------
(* Words.                                                                  *)

Word(n) == n % All

SignOf(n, span) ==
  IF n % span < span \div 2 THEN n % span ELSE (n % span) - span

AsSigned(w) == SignOf(w, All)

(* The words of the values of a signed type, and what a register of an     *)
(* integer type holds when it was brought to its width.                    *)
Extended(n) == (0 .. (Span[n] \div 2) - 1) \cup (All - (Span[n] \div 2) .. All - 1)

Narrow(k, w) ==
  CASE k \in Unsigned -> w < Values(k)
    [] k \in Signed   -> w = Word(SignOf(w, Values(k)))
    [] OTHER -> TRUE

ASSUME SpanAssumption ==
  /\ Span \in [1 .. 4 -> Nat \ {0}]
  /\ \A n \in 1 .. 4 : Span[n] % 2 = 0
  /\ \A m, n \in 1 .. 4 : m <= n => Span[n] % Span[m] = 0
  /\ 2 * Span[3] <= Span[4]

(* Words of some width give words of that width, extended with zeros or    *)
(* with their sign: each bit of the result depends on one bit of each.     *)
ASSUME BitsAssumption ==
  /\ \A a, b \in {0, 1} : {BitAnd(a, b), BitOr(a, b), BitXor(a, b)} \subseteq {0, 1}
  /\ \A n \in 1 .. 4 :
       /\ \A a, b \in 0 .. Span[n] - 1 :
            {BitAnd(a, b), BitOr(a, b), BitXor(a, b)} \subseteq 0 .. Span[n] - 1
       /\ \A a, b \in Extended(n) :
            {BitAnd(a, b), BitOr(a, b), BitXor(a, b)} \subseteq Extended(n)

(* A literal is a value of its type.                                       *)
ASSUME LiteralsAssumption ==
  /\ DOMAIN Literals \subseteq Builtins /\ CatalogKinds \subseteq Builtins
  /\ \A k \in DOMAIN Literals :
       /\ Literals[k] \subseteq (IF k = "bool" THEN {0, 1} ELSE Words)
       /\ \A w \in Literals[k] : Narrow(k, w)

(* A slip: the cast to a narrow signed type does not extend the sign.      *)
CastToUnsigned(k, n) ==
  CASE k \in Unsigned \cup Signed -> {Word(n) % Values(k)}
    [] OTHER -> Words

(* castMe, from an integer: the value modulo the width, extended with zeros *)
(* or with the sign.  To a float: some word.                               *)
CastMe(k, n) ==
  CASE k \in Unsigned -> {Word(n) % Values(k)}
    [] k \in Signed   -> {Word(SignOf(n, Values(k)))}
    [] OTHER -> Words

(* From a float: a value of the width (undefined when it does not fit).    *)
CastFloat(k) == UNION {CastMe(k, n) : n \in Words}

(* Division of C: towards zero.                                            *)
Abs(n) == IF n < 0 THEN - n ELSE n
Quotient(a, b) == IF (a < 0) = (b < 0) THEN Abs(a) \div Abs(b) ELSE - (Abs(a) \div Abs(b))

-----------------------------------------------------------------------------
(* The opcodes.  An outcome is a word, or why the program stops.           *)

Done(w)     == [word |-> w, stop |-> ""]
Thrown(why) == [word |-> 0, stop |-> why]
Truth(p)    == {Done(IF p THEN 1 ELSE 0)}

(* The least integer divided by -1 overflows: undefined in C++, it stops   *)
(* the process on some processors and wraps on others.                     *)
SignedDivision(a, b, result) ==
  IF b = 0 THEN {Thrown("DivideByZero")}
  ELSE IF a = - (All \div 2) /\ b = -1 THEN {Thrown("SIGFPE"), Done(Word(result))}
  ELSE {Done(Word(result))}

Whole(op, a, b) ==
  CASE op = "add"  -> {Done(Word(a + b))}
    [] op = "sub"  -> {Done(Word(a - b))}
    [] op = "mul"  -> {Done(Word(a * b))}
    [] op = "imul" -> {Done(Word(AsSigned(a) * AsSigned(b)))}
    [] op = "div"  -> IF b = 0 THEN {Thrown("DivideByZero")} ELSE {Done(a \div b)}
    [] op = "mod"  -> IF b = 0 THEN {Thrown("DivideByZero")} ELSE {Done(a % b)}
    [] op = "idiv" -> SignedDivision(AsSigned(a), AsSigned(b), Quotient(AsSigned(a), AsSigned(b)))
    [] op = "modi" -> SignedDivision(AsSigned(a), AsSigned(b), AsSigned(a) - AsSigned(b) * Quotient(AsSigned(a), AsSigned(b)))
    [] op = "and"  -> {Done(BitAnd(a, b))}
    [] op = "or"   -> {Done(BitOr(a, b))}
    [] op = "xor"  -> {Done(BitXor(a, b))}

Compared(op, a, b) ==
  CASE op = "eq"  -> Truth(a = b)
    [] op = "neq" -> Truth(a # b)
    [] op = "lt"  -> Truth(a < b)
    [] op = "lte" -> Truth(a <= b)
    [] op = "gt"  -> Truth(a > b)
    [] op = "gte" -> Truth(a >= b)
    [] op = "ilt"  -> Truth(AsSigned(a) < AsSigned(b))
    [] op = "ilte" -> Truth(AsSigned(a) <= AsSigned(b))
    [] op = "igt"  -> Truth(AsSigned(a) > AsSigned(b))
    [] op = "igte" -> Truth(AsSigned(a) >= AsSigned(b))
    [] OTHER -> Truth(TRUE) \cup Truth(FALSE)     \* the floats

(* The divisor is truncated before it is compared with zero: 0.5 is.       *)
Floating(op) == {Done(w) : w \in Words} \cup
                IF op = "fdiv" THEN {Thrown("DivideByZero")} ELSE {}

WholeOps    == {"add", "sub", "mul", "imul", "div", "mod", "idiv", "modi", "and", "or", "xor"}
ComparedOps == {"eq", "neq", "lt", "lte", "gt", "gte", "ilt", "ilte", "igt", "igte",
                "flt", "flte", "fgt", "fgte"}
FloatOps    == {"fadd", "fsub", "fmul", "fdiv"}

Compute(op, a, b) ==
  CASE op \in WholeOps    -> Whole(op, a, b)
    [] op \in ComparedOps -> Compared(op, a, b)
    [] op \in FloatOps    -> Floating(op)

(* An instruction and the registers it reads; the machine takes their      *)
(* words, whatever their types.                                            *)
Emit(op, i, j) == [op |-> op, lhs |-> i, rhs |-> j]

Execute(instr) == Compute(instr.op, regs[instr.lhs].word, regs[instr.rhs].word)

(* A slip: the negation of the bits.                                       *)
Complement(a) == Done(All - 1 - a)

Negation(a) == Done(IF a = 0 THEN 1 ELSE 0)

-----------------------------------------------------------------------------
(* The operators of two operands (emitBuiltinOperator).                    *)

(* fsub returns the intrinsic igte.                                        *)
Emitted(name) == IF name = "fsub" THEN "igte" ELSE name

AcceptBool(op)  == op \in {"and", "or", "xor", "mod", "modi"} \cup ComparedOps
AcceptInt(op)   == op \notin FloatOps
AcceptFloat(op) == op \in FloatOps \cup ComparedOps

(* The builtin an operand is read as: the field 0 of a wrapper.            *)
Operand(t) == IF IsObject(t) THEN t.class ELSE t.kind

Wider(l, r) == IF Rank[l] >= Rank[r] THEN l ELSE r

(* The row is the left operand: an integer with a float is refused, a      *)
(* float with an integer is a float.                                       *)
Promotion(l, r) ==
  CASE {l, r} \subseteq Unsigned -> Wider(l, r)
    [] {l, r} \subseteq Signed   -> Wider(l, r)
    [] "ptr" \in {l, r} /\ {l, r} \subseteq Unsigned \cup {"ptr"} -> "ptr"
    [] l = "f32" /\ r \in (Unsigned \cup Signed) \ {"u64", "i64"} -> "f32"
    [] l = "f32" /\ r = "f64" -> "f64"
    [] l = "f64" /\ r \in Unsigned \cup Signed \cup Floats -> "f64"
    [] OTHER -> "void"

Computed(l, r) == IF l = r THEN l ELSE Promotion(l, r)

Accepted(op, k) ==
  CASE k = "bool" -> AcceptBool(op)
    [] k \in Unsigned \cup Signed \cup {"ptr"} -> AcceptInt(op)
    [] k \in Floats -> AcceptFloat(op)
    [] OTHER -> FALSE

(* A slip: the class is that of the operand, promoted or not.              *)
ClassOfOperand(op, s, t) ==
  LET wrapped == IF IsObject(t) THEN t.class ELSE IF IsObject(s) THEN s.class ELSE "void"
  IN IF wrapped # "void" /\ op \in ComparedOps THEN "bool" ELSE wrapped

(* The class of the object that is allocated for the result, "void" when   *)
(* no operand is an object.                                                *)
ResultClass(op, s, t) ==
  LET k       == Computed(Operand(s), Operand(t))
      wrapped == IF IsObject(t) THEN t.class ELSE IF IsObject(s) THEN s.class ELSE "void"
  IN IF wrapped = "void" THEN "void"
     ELSE IF op \in ComparedOps THEN "bool"
     ELSE IF Operand(s) # Operand(t) /\ k # "ptr" THEN k
     ELSE wrapped

(* The builtin result, and the object it is put in.  In a short circuit    *)
(* the result stays a builtin.                                             *)
ResultKind(op, s, t) ==
  IF op \in ComparedOps THEN "bool" ELSE Computed(Operand(s), Operand(t))

ResultType(op, s, t, shortcircuit) ==
  LET k     == ResultKind(op, s, t)
      class == ResultClass(op, s, t)
  IN IF k # "ptr" /\ class # "void" /\ ~ shortcircuit THEN Object(class) ELSE Builtin(k)

-----------------------------------------------------------------------------
(* The intrinsics that read memory or the system: the kinds each argument  *)
(* may have, the type given to the result, the words the machine leaves.   *)

Services ==
  {"load.ptr", "load.u64", "load.u32", "load.u8", "store.ptr", "store.u64", "store.u32", "store.u8",
   "memory.allocate", "memory.realloc", "memory.dispose", "memory.fill", "memory.copy",
   "memory.move", "memory.cmp", "strlen32", "strlen64", "os.is.linux", "__nanyc_memchecker_hold"}

Accepts(name) ==
  CASE name \in {"load.ptr", "load.u64", "load.u32", "load.u8", "strlen32", "strlen64"} -> << {"ptr"} >>
    [] name = "store.ptr" -> << {"ptr"}, {"ptr"} >>
    [] name \in {"store.u64", "__nanyc_memchecker_hold"} -> << {"ptr"}, {"u64"} >>
    [] name = "store.u32" -> << {"ptr"}, {"u32"} >>
    [] name = "store.u8"  -> << {"ptr"}, {"u8"} >>
    [] name = "memory.allocate" -> << {"u64"} >>
    [] name = "memory.realloc"  -> << {"ptr"}, {"u64"}, {"u64"} >>
    [] name = "memory.dispose"  -> << {"ptr"}, Unsigned >>
    [] name = "memory.fill"     -> << {"ptr"}, Unsigned, Unsigned >>
    [] name \in {"memory.copy", "memory.move", "memory.cmp"} -> << {"ptr"}, {"ptr"}, {"u64"} >>
    [] name = "os.is.linux" -> << >>

Returns(name) ==
  CASE name \in {"load.ptr", "memory.allocate", "memory.realloc"} -> "ptr"
    [] name \in {"load.u64", "memory.cmp", "strlen64"} -> "u64"
    [] name \in {"load.u32", "strlen32"} -> "u32"
    [] name = "load.u8" -> "u8"
    [] name = "os.is.linux" -> "bool"
    [] OTHER -> "void"

(* strlen32 is given 64 bits, as strlen64 is.                              *)
Loaded(name) ==
  CASE name = "load.u8"  -> 0 .. Values("u8") - 1
    [] name = "load.u32" -> 0 .. Values("u32") - 1
    [] name = "memory.cmp"  -> 0 .. 2
    [] name = "os.is.linux" -> 0 .. 1
    [] OTHER -> Words

(* A function of the catalogue: the arguments only have to be builtins,    *)
(* whatever the types it was declared with.  The words it returns come     *)
(* from a C char, short, int or long long, extended with their sign, to    *)
(* the unsigned types too.                                                 *)
CatalogReturns(k) ==
  CASE k = "bool" -> 0 .. 1
    [] k \in {"u8", "u16", "u32", "i8", "i16", "i32"} ->
         {Word(SignOf(n, Values(k))) : n \in 0 .. Values(k) - 1}
    [] OTHER -> Words

-----------------------------------------------------------------------------
(* The rank of the representation, 0 when `as' refuses the type.           *)
TypeSign(k) ==
  CASE k \in Unsigned -> "unsigned"
    [] k \in Signed   -> "signed"
    [] k \in Floats   -> k
    [] OTHER -> "none"

(* A wider type of the same sign: the word is copied.                      *)
Widens(from, to) ==
  TypeSign(from) = TypeSign(to) /\ from \in Unsigned \cup Signed /\ Rank[to] > Rank[from]

Cast(from, to, w) ==
  CASE from \in Unsigned -> CastMe(to, w)
    [] from \in Signed   -> CastMe(to, AsSigned(w))
    [] OTHER -> CastFloat(to)

-----------------------------------------------------------------------------
(* Calls.  The analyzer refuses the call and nothing runs, or the machine  *)
(* runs it.                                                                *)

(* The registers of a program that stopped are gone.                       *)
Nothing   == Register(Builtin("void"), 0, "void", "narrow")
Stop(why) == stopped' = why /\ regs' = << Nothing, Nothing >>

Write(register) == regs' = [regs EXCEPT ![1] = register] /\ UNCHANGED stopped

(* A register of type void is not written.                                 *)
WriteVoid == Write([regs[1] EXCEPT !.type = Builtin("void"), !.held = "void"])

Args(n) == [1..n -> 1..2]

(* An object that is null is found out when its field is read.             *)
Null(i) == IsObject(regs[i].type) /\ regs[i].held = "void"

(* A comparison is a bool, and only bitwise operations and remainders of   *)
(* narrow operands are narrow.                                             *)
MarkOf(op, i, j) ==
  LET marks == {regs[i].mark, regs[j].mark}
  IN IF op \in ComparedOps THEN "narrow"
     ELSE IF "raw" \in marks THEN "raw"
     ELSE IF "whole" \in marks \/ op \in {"add", "sub", "mul", "imul", "div", "idiv"}
     THEN "whole" ELSE "narrow"

CallOperator(name, i, j, shortcircuit) ==
  LET op == Emitted(name)
      s  == regs[i].type
      t  == regs[j].type
  IN IF ~ Accepted(op, Computed(Operand(s), Operand(t)))
     THEN Stop("refused")
     ELSE IF Null(i) \/ Null(j)
     THEN Stop("InvalidPointer")
     ELSE \E o \in Execute(Emit(op, i, j)) :
            IF o.stop # "" THEN Stop(o.stop)
            ELSE Write(Register(ResultType(op, s, t, shortcircuit), o.word, ResultKind(op, s, t),
                                   MarkOf(op, i, j)))

(* A bool, an object bool or a pointer.                                    *)
CallNot(i) ==
  LET t == regs[i].type
  IN IF ~ (t \in {Builtin("bool"), Builtin("ptr"), Object("bool")})
     THEN Stop("refused")
     ELSE IF Null(i) THEN Stop("InvalidPointer")
     ELSE Write(Register(t, Negation(regs[i].word).word, Operand(t), "narrow"))

CallAssert(i) ==
  IF Operand(regs[i].type) # "bool" THEN Stop("refused")
  ELSE IF Null(i) THEN Stop("InvalidPointer")
  ELSE IF regs[i].word = 0 THEN Stop("Assert")
  ELSE WriteVoid

(* The first argument gives the type.  Two objects fail an assertion (when *)
(* there are assertions), or are given the type any.                       *)
CallAs(i, j) ==
  LET to   == regs[i].type.kind
      from == regs[j].type.kind
  IN IF from = to
     THEN \/ from \in {"void", "any"} /\ Stop("assertion")
          \/ Write([regs[j] EXCEPT !.type = Builtin(to)])
     ELSE IF "none" \in {TypeSign(from), TypeSign(to)}
     THEN Stop("refused")
     ELSE IF Widens(from, to)
     THEN Write([regs[j] EXCEPT !.type = Builtin(to), !.held = to])
     ELSE \E w \in Cast(from, to, regs[j].word) :
            Write(Register(Builtin(to), w, to, "narrow"))

(* The address of an object, 0 for any other value.                        *)
CallPointer(i) ==
  \E w \in IF regs[i].type.kind = "any" THEN Words ELSE {0} :
    Write(Register(Builtin("ptr"), w, "ptr", "narrow"))

CallSizeof ==
  \E w \in Words : Write(Register(Builtin("u64"), w, "u64", "narrow"))

CallService(name, args) ==
  IF Len(args) # Len(Accepts(name)) \/ \E n \in DOMAIN args : regs[args[n]].type.kind \notin Accepts(name)[n]
  THEN Stop("refused")
  ELSE IF Returns(name) = "void" THEN WriteVoid
  ELSE \E w \in Loaded(name) :
         Write(Register(Builtin(Returns(name)), w, Returns(name),
                           IF name = "strlen32" THEN "whole" ELSE "narrow"))

(* translateIntrinsic, for a name the language does not know.              *)
CallCatalog(count, ret, args) ==
  IF Len(args) # count \/ \E n \in DOMAIN args : regs[args[n]].type.kind \in {"void", "any"}
  THEN Stop("refused")
  ELSE IF ret = "void" THEN WriteVoid
  ELSE \E w \in CatalogReturns(ret) :
         Write(Register(Builtin(ret), w, ret, IF ret \in {"u8", "u16", "u32"} THEN "whole" ELSE "narrow"))

(* A copy that takes the type of the second argument.  As an object it is  *)
(* acquired: the machine does not know the address of what is not one.     *)
CallReinterpret(i, j) ==
  LET t == regs[j].type
  IN \/ /\ t.kind = "any" /\ regs[i].type.kind # "any"
        /\ Stop("InvalidPointer")
     \/ \E w \in IF IsObject(regs[i].type) = IsObject(t) THEN {regs[i].word} ELSE Words :
          Write(Register(t, w, regs[i].held, "raw"))

(* __nanyc_type_size_t: the type of an object, and no object.              *)
CallTypeSize ==
  \E c \in {"u64", "i64"} : Write(Register(Object(c), 0, "void", "narrow"))

(* A function that stands for an intrinsic is called with named or generic *)
(* parameters.                                                             *)
CallAliasRefused == Stop("refused")

-----------------------------------------------------------------------------
(* A literal, an object made from a literal, another object or nothing.    *)
Initial ==
  (UNION {{Register(t, w, k, "narrow") : t \in {Builtin(k), Object(k)}, w \in Literals[k]} :
            k \in DOMAIN Literals})
    \cup {Register(Builtin(k), 0, "void", "narrow") : k \in {"void", "any"}}

Init ==
  /\ regs \in [1..2 -> Initial]
  /\ stopped = ""

Running == stopped = ""

Next ==
  /\ Running
  /\ \E i, j \in 1..2 :
       \/ \E name \in WholeOps \cup ComparedOps \cup FloatOps :
            CallOperator(name, i, j, FALSE)
       \/ \E name \in {"and", "or"} : CallOperator(name, i, j, TRUE)
       \/ CallNot(i)
       \/ CallAssert(i)
       \/ CallAs(i, j)
       \/ CallPointer(i)
       \/ CallSizeof
       \/ \E name \in Services : \E args \in Args(Len(Accepts(name))) : CallService(name, args)
       \/ \E count \in 0..1, ret \in CatalogKinds \cup {"void"} :
            \E args \in Args(count) : CallCatalog(count, ret, args)
       \/ CallReinterpret(i, j)
       \/ CallTypeSize
       \/ CallAliasRefused

Spec == Init /\ [][Next]_vars

-----------------------------------------------------------------------------
(* Properties.                                                             *)

TypeOK ==
  /\ regs \in [1..2 -> [type : Types, word : Words, held : Builtins \cup {"void"},
                        mark : {"narrow", "whole", "raw"}]]
  /\ stopped \in {"", "refused", "assertion", "Assert", "DivideByZero", "SIGFPE", "InvalidPointer"}

(* A bool is 0 or 1, in a register and in an object, whatever the operators *)
(* it went through: eq compares the words where a jump only asks for zero. *)
(* Only __reinterpret makes another one.                                   *)
BoolsCanonical ==
  \A i \in 1..2 : LET r == regs[i]
    IN "bool" \in {r.type.kind, r.type.class} /\ r.held # "void" /\ r.mark # "raw" => r.word \in {0, 1}

(* The object an operator allocates for its result is of the class that    *)
(* wraps the type it computed, also when the operands were promoted: the   *)
(* field is read again with the type of the class.                         *)
BoxesMatch ==
  \A i \in 1..2 : LET r == regs[i]
    IN IsObject(r.type) /\ r.held # "void" /\ r.mark # "raw" => r.type.class = r.held

(* A register of a narrow integer holds a value of that width, extended to *)
(* the whole register as the signed and the unsigned opcodes expect it,    *)
(* unless it comes from an addition, a subtraction, a product or a         *)
(* quotient, which are not brought back to the width, from strlen32 or     *)
(* from a function of the catalogue that returns an unsigned type.         *)
NarrowStaysNarrow ==
  \A i \in 1..2 : LET r == regs[i]
    IN r.held # "void" /\ r.mark = "narrow" => Narrow(Operand(r.type), r.word)
=============================================================================
