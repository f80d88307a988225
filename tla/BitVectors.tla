---------------------------- MODULE BitVectors ----------------------------
(* Integers of w bits as llvm::APInt and ConstantExpr compute with them: a *)
(* value is a number of 0 .. 2^w - 1.                                      *)
EXTENDS Integers, Bitwise

Bool == 1

Signed(x, w) == IF x >= 2^(w - 1) THEN x - 2^w ELSE x

Abs(x) == IF x < 0 THEN -x ELSE x

Quotient(x, y) ==        \* of signed numbers, towards zero
    IF (x < 0) # (y < 0) THEN -(Abs(x) \div Abs(y)) ELSE Abs(x) \div Abs(y)

SignExtend(x, from, to) == Signed(x, from) % 2^to

ExtractBits(x, off, w) == (x \div 2^off) % 2^w

AShrBits(x, y, w) ==
    LET s == Signed(x, w) IN
    IF y >= w THEN (IF s < 0 THEN 2^w - 1 ELSE 0) ELSE (s \div 2^y) % 2^w

Truth(b) == IF b THEN 1 ELSE 0

Apply(k, w, x, y) ==
    CASE k = "Add"  -> (x + y) % 2^w
      [] k = "Sub"  -> (x - y) % 2^w
      [] k = "Mul"  -> (x * y) % 2^w
      [] k = "UDiv" -> x \div y
      [] k = "SDiv" -> Quotient(Signed(x, w), Signed(y, w)) % 2^w
      [] k = "URem" -> x % y
      [] k = "SRem" ->
           LET a == Signed(x, w)  b == Signed(y, w)
           IN  (a - b * Quotient(a, b)) % 2^w
      [] k = "And"  -> x & y
      [] k = "Or"   -> x | y
      [] k = "Xor"  -> x ^^ y
      [] k = "Shl"  -> IF y >= w THEN 0 ELSE (x * 2^y) % 2^w
      [] k = "LShr" -> IF y >= w THEN 0 ELSE x \div 2^y
      [] k = "AShr" -> AShrBits(x, y, w)
      [] k = "Eq"   -> Truth(x = y)
      [] k = "Ne"   -> Truth(x # y)
      [] k = "Ult"  -> Truth(x < y)
      [] k = "Ule"  -> Truth(x <= y)
      [] k = "Ugt"  -> Truth(x > y)
      [] k = "Uge"  -> Truth(x >= y)
      [] k = "Slt"  -> Truth(Signed(x, w) < Signed(y, w))
      [] k = "Sle"  -> Truth(Signed(x, w) <= Signed(y, w))
      [] k = "Sgt"  -> Truth(Signed(x, w) > Signed(y, w))
      [] k = "Sge"  -> Truth(Signed(x, w) >= Signed(y, w))
=============================================================================
