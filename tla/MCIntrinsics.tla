---------------------------- MODULE MCIntrinsics ----------------------------
(***************************************************************************)
(* Registers of three bits, the least and the greatest literals.           *)
(***************************************************************************)
EXTENDS Intrinsics, Bitwise

MCSpan == << 2, 4, 4, 8 >>

MCAnd(a, b) == a & b
MCOr(a, b)  == a | b
MCXor(a, b) == a ^^ b

MCLiterals == [bool |-> {0, 1}, ptr |-> {0}, u8 |-> {0, 1}, u32 |-> {0, 3}, u64 |-> {0, 7},
               i8 |-> {0, 7}, i16 |-> {1, 6, 7}, i64 |-> {1, 4, 7}, f32 |-> {0}, f64 |-> {1}]
=============================================================================
