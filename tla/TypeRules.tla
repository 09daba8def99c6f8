----------------------------- MODULE TypeRules -----------------------------
(***************************************************************************)
(* What the type system allows: the conversions and operators of the       *)
(* classes of Types.cpp.  The type checker consults these rules, and the   *)
(* code generator has to compile whatever they accept.                     *)
(***************************************************************************)
EXTENDS SolTypes

-----------------------------------------------------------------------------
(* Values of integer and fixed point types.  Types of more than 30 bits    *)
(* all have the bound Huge, which no fixed point type of the instances     *)
(* reaches.                                                                *)

Huge == 2 ^ 30
PowerOf2(n) == IF n >= 30 THEN Huge ELSE 2 ^ n
Quotient(a, b) == IF a >= 0 THEN a \div b ELSE -((-a) \div b)
minValue(t) == IF t.sg THEN -PowerOf2(t.n - 1) ELSE 0
maxValue(t) == PowerOf2(IF t.sg THEN t.n - 1 ELSE t.n) - 1
maxIntegerValue(t) == maxValue(t) \div 10 ^ t.digits
minIntegerValue(t) == Quotient(minValue(t), 10 ^ t.digits)
fitsIntegerType(v, t) == minValue(t) <= v /\ v <= maxValue(t)

asIntegerType(t) == T("Integer", IF t.c = "VarInteger" THEN (t.n - 1) * 8 ELSE t.n, t.sg, <<>>)
bytesRequired(v) == CASE v < 2 ^ 8 -> 1 [] v < 2 ^ 16 -> 2 [] v < 2 ^ 24 -> 3 [] OTHER -> 4

\* RationalNumberType::integerType() and fixedPointType()
isFractional(t) == t.digits > 0 /\ t.n % 10 ^ t.digits # 0
numerator(t) == Quotient(t.n, 10 ^ t.digits)
integerType(t) == LET v == numerator(t)
                  IN  T("Integer", 8 * bytesRequired(IF v < 0 THEN 2 * (-v - 1) ELSE v), v < 0, <<>>)
fixedPointType(t) ==
  [T("FixedPoint", 8 * bytesRequired(IF t.n < 0 THEN 2 * (-t.n - 1) ELSE t.n), t.n < 0, <<>>)
     EXCEPT !.digits = t.digits]

RECURSIVE mobileType(_)
mobileType(t) ==
  CASE t.c = "RationalNumber" -> IF isFractional(t) THEN fixedPointType(t) ELSE integerType(t)
    [] t.c = "StringLiteral" -> string
    [] t.c = "Tuple" -> [t EXCEPT !.sub = [i \in DOMAIN t.sub |-> mobileType(t.sub[i])]]
    [] OTHER -> t

-----------------------------------------------------------------------------
(* Equality and conversions.                                               *)

\* operator==: TvmVectorType and VarInteger inherit the comparison of categories.
RECURSIVE Equal(_, _)
Equal(a, b) ==
  /\ a.c = b.c
  /\ CASE a.c \in {"TvmVector", "VarInteger"} -> TRUE
       [] a.c \in {"Array", "Mapping", "Optional", "Tuple"} ->
            /\ a.n = b.n /\ Len(a.sub) = Len(b.sub)
            /\ \A i \in DOMAIN a.sub : Equal(a.sub[i], b.sub[i])
       [] OTHER -> a = b

\* IntegerType to another integer type
IntegerWidens(a, b) ==
  /\ b.n >= a.n
  /\ IF a.sg THEN b.sg ELSE ~b.sg \/ b.n > a.n

RECURSIVE innermost(_, _)
innermost(a, b) ==
  IF isUsualArray(a) /\ isUsualArray(b) THEN innermost(a.sub[1], b.sub[1]) ELSE Equal(a, b)

RECURSIVE isImplicitlyConvertibleTo(_, _)
\* Type::isImplicitlyConvertibleTo, which most classes try first
BaseRule(a, b) == \/ Equal(a, b)
                  \/ b.c = "Optional" /\ isImplicitlyConvertibleTo(a, b.sub[1])
\* The rules of the classes
IntegerTo(a, b) ==
  CASE b.c = "VarInteger" -> IntegerWidens(a, asIntegerType(b))
    [] b.c = "Integer" -> IntegerWidens(a, b)
    [] b.c = "FixedPoint" -> maxValue(a) <= maxIntegerValue(b) /\ minValue(a) >= minIntegerValue(b)
    [] OTHER -> FALSE
FixedPointTo(a, b) == /\ b.c = "FixedPoint" /\ b.digits >= a.digits /\ b.n >= a.n
                      /\ maxIntegerValue(b) >= maxIntegerValue(a)
                      /\ minIntegerValue(b) <= minIntegerValue(a)
RationalTo(a, b) ==
  CASE b.c \in {"Integer", "VarInteger"} ->
         ~isFractional(a) /\ fitsIntegerType(numerator(a), asIntegerType(b))
    [] b.c = "FixedPoint" ->
         /\ a.n < 0 => b.sg
         /\ IF ~isFractional(a)
            THEN minIntegerValue(b) <= numerator(a) /\ numerator(a) <= maxIntegerValue(b)
            ELSE b.digits >= a.digits /\ fitsIntegerType(a.n * 10 ^ (b.digits - a.digits), b)
    [] b.c = "FixedBytes" -> a.n = 0
    [] OTHER -> FALSE
StringLiteralTo(a, b) == \/ b.c = "FixedBytes" /\ b.n >= a.n
                         \/ isByteArrayOrString(b) /\ (b = string => a.sg)
ContractTo(a, b) == b.c = "Address" \/ (b.c = "Contract" /\ b.n <= a.n)
ArrayTo(a, b) == /\ b.c = "Array" /\ isByteArrayOrString(a) = isByteArrayOrString(b)
                 /\ isByteArrayOrString(a) \/ innermost(a.sub[1], b.sub[1])
TupleTo(a, b) == /\ b.c = "Tuple" /\ Len(a.sub) = Len(b.sub)
                 /\ \A i \in DOMAIN a.sub : isImplicitlyConvertibleTo(a.sub[i], b.sub[i])
OptionalTo(a, b) == b.c = "Optional" /\ isImplicitlyConvertibleTo(a.sub[1], b.sub[1])
ClassRule(a, b) ==
  CASE a.c = "Integer" -> IntegerTo(a, b)
    [] a.c = "FixedPoint" -> FixedPointTo(a, b)
    [] a.c = "RationalNumber" -> RationalTo(a, b)
    [] a.c = "StringLiteral" -> StringLiteralTo(a, b)
    [] a.c = "FixedBytes" -> b.c = "FixedBytes" /\ b.n >= a.n
    [] a.c = "Contract" -> ContractTo(a, b)
    [] a.c = "Array" -> ArrayTo(a, b)
    [] a.c = "Tuple" -> TupleTo(a, b)
    [] a.c = "Function" -> b.c = "Function" /\ a.n <= b.n
    [] a.c = "Optional" -> OptionalTo(a, b)
    [] OTHER -> FALSE
isImplicitlyConvertibleTo(a, b) ==
  CASE a.c = "Null" -> b.c = "Optional"
    [] a.c = "EmptyMap" -> b.c = "Mapping"
    [] a.c = "VarInteger" -> isImplicitlyConvertibleTo(asIntegerType(a), b)
    [] OTHER -> BaseRule(a, b) \/ ClassRule(a, b)

RECURSIVE isExplicitlyConvertibleTo(_, _)
IntegerAs(a, b) == \/ b.c \in {"Integer", "VarInteger", "Address", "Contract", "Enum", "FixedPoint"}
                   \/ b.c = "FixedBytes" /\ a.n = 8 * b.n
RationalAs(a, b) == \/ isImplicitlyConvertibleTo(a, b)
                    \/ b.c # "FixedBytes" /\ isExplicitlyConvertibleTo(mobileType(a), b)
FixedBytesAs(a, b) == \/ isByteArrayOrString(b)
                      \/ b.c = "Integer" /\ b.n = 8 * a.n
                      \/ b.c \in {"FixedPoint", "FixedBytes"}
ArrayAs(a, b) == \/ isImplicitlyConvertibleTo(a, b)
                 \/ isByteArrayOrString(a) /\ (b.c = "FixedBytes" \/ isByteArrayOrString(b))
isExplicitlyConvertibleTo(a, b) ==
  CASE a.c = "Address" -> b.c \in {"Address", "Contract"} \/ isImplicitlyConvertibleTo(a, b)
    [] a.c = "Integer" -> IntegerAs(a, b)
    [] a.c = "FixedPoint" -> b.c \in {"FixedPoint", "Integer", "VarInteger"}
    [] a.c = "RationalNumber" -> RationalAs(a, b)
    [] a.c = "FixedBytes" -> FixedBytesAs(a, b)
    [] a.c = "Contract" -> b.c = "Address" \/ isImplicitlyConvertibleTo(a, b)
    [] a.c = "Array" -> ArrayAs(a, b)
    [] a.c = "Enum" -> a = b \/ b.c = "Integer"
    [] a.c = "Function" -> b.c = "Function"
    [] a.c = "VarInteger" -> isExplicitlyConvertibleTo(asIntegerType(a), b)
    [] OTHER -> isImplicitlyConvertibleTo(a, b)

commonType(a, b) == IF isImplicitlyConvertibleTo(b, mobileType(a)) THEN mobileType(a)
                    ELSE IF isImplicitlyConvertibleTo(a, mobileType(b)) THEN mobileType(b)
                    ELSE NoType

-----------------------------------------------------------------------------
(* Operators.                                                              *)

CompareOps == {"==", "!=", "<", ">", "<=", ">="}
BitOps == {"|", "^", "&"}
ShiftOps == {"<<", ">>"}
BooleanOps == {"&&", "||"}
ArithmeticOps == {"+", "-", "*", "/", "%", "**"}

isStringOrStrLiteral(t) == t = string \/ t.c = "StringLiteral"
isValidShiftAndAmountType(t) == \/ t.c = "Integer"
                                \/ t.c = "RationalNumber" /\ ~isFractional(t) /\ ~integerType(t).sg

\* The type of `~`, `-`, `++`, `--`, `!`; delete is a statement.
unaryOperatorResult(op, t) ==
  CASE t.c = "Integer" /\ op \in {"-", "++", "--", "~"} -> t
    [] t.c = "FixedPoint" /\ op \in {"-", "++", "--"} -> t
    [] t.c = "FixedBytes" /\ op = "~" -> t
    [] t.c = "Bool" /\ op = "!" -> t
    [] OTHER -> NoType
canBeDeleted(t) == t.c \notin {"RationalNumber", "StringLiteral", "Null", "EmptyMap", "Tuple",
                               "VarInteger"}

RECURSIVE binaryOperatorResult(_, _, _)
IntegerOp(op, a, b) ==
  CASE b.c \notin {"RationalNumber", "FixedPoint", "Integer"} -> NoType
    [] op \in ShiftOps -> IF isValidShiftAndAmountType(b) THEN a ELSE NoType
    [] op = "**" -> IF (b.c = "Integer" /\ b.sg) \/ b.c = "FixedPoint" THEN NoType ELSE a
    [] op \in BooleanOps -> NoType
    [] OTHER -> commonType(a, b)
FixedPointOp(op, a, b) == IF op \in BitOps \cup BooleanOps \cup {"**"} THEN NoType ELSE commonType(a, b)
\* a literal with an operand that is not one
RationalOp(op, a, b) ==
  LET common == commonType(a, b)
  IN  IF common = NoType THEN NoType ELSE binaryOperatorResult(op, common, b)
FixedBytesOp(op, a, b) ==
  LET common == commonType(a, b)
  IN  IF op = "+" /\ isStringOrStrLiteral(b) THEN string
      ELSE IF op \in ShiftOps THEN IF isValidShiftAndAmountType(b) THEN a ELSE NoType
      ELSE IF common.c = "FixedBytes" /\ op \in CompareOps \cup BitOps THEN common ELSE NoType
StringOp(op, a, b) ==
  IF op = "+" /\ (b.c = "FixedBytes" \/ isStringOrStrLiteral(b)) THEN string
  ELSE IF op \in CompareOps THEN commonType(a, b) ELSE NoType
BoolOp(op, b) == IF b.c = "Bool" /\ op \in {"==", "!="} \cup BooleanOps THEN b ELSE NoType
CellOp(op, b) == IF b.c = "TvmCell" /\ op \in {"==", "!="} THEN b ELSE NoType
binaryOperatorResult(op, a, b) ==
  CASE a.c = "Integer" -> IntegerOp(op, a, b)
    [] a.c = "VarInteger" -> binaryOperatorResult(op, asIntegerType(a), b)
    [] a.c = "FixedPoint" -> FixedPointOp(op, a, b)
    [] a.c = "RationalNumber" /\ b.c \in {"Integer", "FixedPoint"} -> RationalOp(op, a, b)
    [] a.c = "FixedBytes" -> FixedBytesOp(op, a, b)
    [] a.c = "Bool" -> BoolOp(op, b)
    [] isStringOrStrLiteral(a) -> StringOp(op, a, b)
    [] a = bytes -> IF op = "==" THEN commonType(a, b) ELSE NoType
    [] a.c = "TvmCell" -> CellOp(op, b)
    [] a.c \in {"Address", "Contract", "Enum", "TvmSlice", "TvmVector"} ->
         IF op \in CompareOps THEN commonType(a, b) ELSE NoType
    [] OTHER -> NoType
=============================================================================
