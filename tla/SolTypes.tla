------------------------------ MODULE SolTypes ------------------------------
(***************************************************************************)
(* The Solidity types the code generator distinguishes (class Type and its *)
(* subclasses), the helpers of TVMCommons.cpp that measure them, and which *)
(* TVM values represent a value of a type.                                 *)
(*                                                                         *)
(* A type is [c, n, sg, sub, digits]: its category, a number (bits of an   *)
(* integer, bytes of a bytesN, members of an enum, the n of a varint), a   *)
(* sign, the component types and the fractional digits.                    *)
(***************************************************************************)
EXTENDS Tvm

T(c, n, sg, sub) == [c |-> c, n |-> n, sg |-> sg, sub |-> sub, digits |-> 0]
uint(n) == T("Integer", n, FALSE, <<>>)
int(n) == T("Integer", n, TRUE, <<>>)
bool == T("Bool", 1, TRUE, <<>>)
bytesN(n) == T("FixedBytes", n, FALSE, <<>>)
enum(members) == T("Enum", members, FALSE, <<>>)
fixed(n, d) == [T("FixedPoint", n, TRUE, <<>>) EXCEPT !.digits = d]
ufixed(n, d) == [fixed(n, d) EXCEPT !.sg = FALSE]
varuint(n) == T("VarInteger", n, FALSE, <<>>)
varint(n) == T("VarInteger", n, TRUE, <<>>)
address == T("Address", 0, FALSE, <<>>)
contract(n) == T("Contract", n, FALSE, <<>>)   \* derives from 0 .. n - 1
bytes == T("Array", 1, FALSE, <<>>)       \* bytes and string: kept in a cell
string == T("Array", 2, FALSE, <<>>)
array(t) == T("Array", 0, FALSE, <<t>>)
mapping(k, v) == T("Mapping", 0, FALSE, <<k, v>>)
currencies == T("ExtraCurrencyCollection", 0, FALSE, <<uint(32), varuint(32)>>)
optional(t) == T("Optional", 0, FALSE, <<t>>)
struct(ts) == T("Struct", 0, FALSE, ts)
tupleOf(ts) == T("Tuple", 0, FALSE, ts)
vector(t) == T("TvmVector", 0, FALSE, <<t>>)
TvmCell == T("TvmCell", 0, FALSE, <<>>)
TvmSlice == T("TvmSlice", 0, FALSE, <<>>)
TvmBuilder == T("TvmBuilder", 0, FALSE, <<>>)
function == T("Function", 0, FALSE, <<>>)
\* Types of expressions only: a literal n / 10^d, a string of n bytes (valid UTF-8).
rational(n, d) == [T("RationalNumber", n, n < 0, <<>>) EXCEPT !.digits = d]
stringLiteral(n, utf8) == T("StringLiteral", n, utf8, <<>>)
null == T("Null", 0, FALSE, <<>>)
emptyMap == T("EmptyMap", 0, FALSE, <<>>)
NoType == T("", 0, FALSE, <<>>)

isByteArrayOrString(t) == t.c = "Array" /\ t.n > 0
isUsualArray(t) == t.c = "Array" /\ t.n = 0
isRefType(t) == isByteArrayOrString(t) \/ t.c = "TvmCell"
optValueAsTuple(t) == t.c \in {"Mapping", "Optional"}
RECURSIVE optTypeQty(_)
optTypeQty(t) == IF t.c = "Optional" THEN 1 + optTypeQty(t.sub[1]) ELSE 0

\* Bytes are counted until the index of the last member fits.
bitsForEnum(members) == IF members <= 256 THEN 8 ELSE IF members <= 65536 THEN 16 ELSE 24

isNumeric(t) == t.c \in {"Integer", "Bool", "FixedBytes", "Enum", "FixedPoint"}
isSigned(t) == CASE t.c \in {"Integer", "FixedPoint"} -> t.sg [] OTHER -> t.c = "Bool"
numBits(t) == CASE t.c = "FixedBytes" -> 8 * t.n
                [] t.c = "Enum" -> bitsForEnum(t.n)
                [] OTHER -> t.n

maxBitSizeInCell(t) == IF t.n = 16 THEN 4 + 15 * 8 ELSE 5 + 31 * 8
AddressMaxBitLength == 591
CellBitLength == 1023
ArrayKey == uint(32)

typeToDictChar(key) == IF isNumeric(key) THEN IF isSigned(key) THEN "I" ELSE "U"
                       ELSE IF isRefType(key) THEN "U" ELSE ""
dictKeyLength(key) == CASE key.c \in {"Address", "Contract"} -> 267
                        [] isNumeric(key) -> numBits(key)
                        [] isRefType(key) -> 256
                        [] key.c = "Struct" -> SumOf(numBits, key.sub)

\* <<maxBits, maxRefs>> of a value in a cell.
RECURSIVE ABITypeSize(_)
isSmallOptional(t) == LET size == ABITypeSize(t.sub[1])
                      IN  1 + size[1] <= 1023 /\ size[2] <= 3
ABITypeSize(t) ==
  CASE t.c \in {"Address", "Contract"} -> <<AddressMaxBitLength, 0>>
    [] isNumeric(t) -> <<numBits(t), 0>>
    [] t.c = "VarInteger" -> <<maxBitSizeInCell(t), 0>>
    [] isRefType(t) -> <<0, 1>>
    [] isUsualArray(t) -> <<32 + 1, 1>>
    [] t.c = "Optional" -> IF isSmallOptional(t)
                           THEN <<1 + ABITypeSize(t.sub[1])[1], ABITypeSize(t.sub[1])[2]>>
                           ELSE <<1, 1>>
    [] t.c \in {"Struct", "Tuple"} ->
         <<SumOf(LAMBDA m : ABITypeSize(m)[1], t.sub), SumOf(LAMBDA m : ABITypeSize(m)[2], t.sub)>>
    [] t.c = "Mapping" -> <<1, 1>>
    [] t.c = "Function" -> <<32, 0>>

RECURSIVE maxBitLengthOfDictValue(_)
maxBitLengthOfDictValue(t) ==
  CASE isNumeric(t) -> numBits(t)
    [] t.c \in {"Address", "Contract"} -> AddressMaxBitLength
    [] isRefType(t) -> 0
    [] isUsualArray(t) -> 32 + 1
    [] t.c \in {"Mapping", "ExtraCurrencyCollection", "Optional"} -> 1
    [] t.c = "VarInteger" -> maxBitSizeInCell(t)
    [] t.c = "Struct" -> SumOf(maxBitLengthOfDictValue, t.sub)
    [] t.c = "Function" -> 32
doesFitInOneCellAndHaveNoStruct(key, value) ==
  12 + dictKeyLength(key) + maxBitLengthOfDictValue(value) < CellBitLength
doesDictStoreValueInRef(key, value) ==
  CASE value.c = "TvmCell" \/ isByteArrayOrString(value) -> TRUE
    [] value.c = "TvmSlice" -> FALSE
    [] OTHER -> ~doesFitInOneCellAndHaveNoStruct(key, value)

\* Values of these types are integers of the TVM, in this range.
isInteger(t) == isNumeric(t) \/ t.c \in {"VarInteger", "Function"}
RangeOfType(t) == CASE t.c = "VarInteger" -> <<t.sg, IF t.n = 16 THEN 120 ELSE 248>>
                    [] t.c = "Function" -> <<FALSE, 32>>
                    [] OTHER -> <<isSigned(t), numBits(t)>>

-----------------------------------------------------------------------------
(* TVM values of a type: one of each shape, with identity id.              *)

RECURSIVE Samples(_, _)
RECURSIVE TupleSamples(_, _, _)
TupleSamples(ts, id, i) ==
  IF i > Len(ts) THEN {<<>>}
  ELSE {<<v>> \o w : v \in Samples(ts[i], id \o ToString(i)), w \in TupleSamples(ts, id, i + 1)}
Samples(t, id) ==
  CASE t.c = "Enum" -> {Num(id, FALSE, BitLength(t.n - 1))}
    [] isInteger(t) -> {Num(id, RangeOfType(t)[1], RangeOfType(t)[2])}
    [] t.c \in {"Address", "Contract"} -> {Address(id)}
    [] isRefType(t) -> {Cell(<<AnyField(id)>>)}
    [] t.c = "TvmSlice" -> {Slice(<<AnyField(id)>>)}
    [] t.c = "TvmBuilder" -> {Builder(<<AnyField(id)>>)}
    [] isUsualArray(t) -> {Tuple(<<Num(id, FALSE, 32), AnyDict(id)>>)}
    [] t.c \in {"Mapping", "ExtraCurrencyCollection"} -> {AnyDict(id)}
    [] t.c = "Optional" -> {Null} \cup IF optValueAsTuple(t.sub[1])
                                       THEN {Tuple(<<v>>) : v \in Samples(t.sub[1], id)}
                                       ELSE Samples(t.sub[1], id)
    [] t.c \in {"Struct", "Tuple"} -> {Tuple(c) : c \in TupleSamples(t.sub, id, 1)}
    [] t.c = "RationalNumber" -> {Const(t.n)}
    [] t.c = "StringLiteral" -> {Cell(<<AnyField(id)>>)}
    [] t.c \in {"Null", "EmptyMap"} -> {Null}
    [] t.c = "TvmVector" -> {Tuple(<<>>)} \cup {Tuple(<<Tuple(<<v>>)>>) : v \in Samples(t.sub[1], id)}
Sample(t, id) == CHOOSE v \in Samples(t, id) : v.k # "null" /\ (t.c = "TvmVector" => v.c # <<>>)

\* Whether v represents a value of type t.
RECURSIVE HasType(_, _)
HasType(v, t) ==
  v.k = "any" \/
  CASE t.c = "Enum" -> v.k = "int"     \* checked by a comparison, which Tvm does not follow
    [] isInteger(t) -> v.k = "int" /\ Fits(v, RangeOfType(t)[1], RangeOfType(t)[2])
    [] t.c \in {"Address", "Contract", "TvmSlice"} -> v.k = "slice"
    [] isRefType(t) -> v.k = "cell"
    [] t.c = "TvmBuilder" -> v.k = "builder"
    [] isUsualArray(t) -> v.k = "tuple" /\ Len(v.c) = 2 /\ v.c[1].k \in {"int", "any"}
                          /\ v.c[2].k \in {"dict", "null", "any"}
    [] t.c \in {"Mapping", "ExtraCurrencyCollection"} -> v.k \in {"dict", "null"}
    [] t.c = "Optional" -> v.k = "null" \/ IF optValueAsTuple(t.sub[1])
                                           THEN v.k = "tuple" /\ Len(v.c) = 1
                                                /\ HasType(v.c[1], t.sub[1])
                                           ELSE HasType(v, t.sub[1])
    [] t.c \in {"Struct", "Tuple"} -> v.k = "tuple" /\ Len(v.c) = Len(t.sub)
                                      /\ \A i \in DOMAIN t.sub : HasType(v.c[i], t.sub[i])
    \* a vector keeps its elements in tuples of up to 255
    [] t.c = "TvmVector" -> /\ v.k = "tuple"
                            /\ \A i \in DOMAIN v.c :
                                 \/ v.c[i].k = "any"
                                 \/ /\ v.c[i].k = "tuple"
                                    /\ \A j \in DOMAIN v.c[i].c : HasType(v.c[i].c[j], t.sub[1])

\* What a program must leave in a slot: a given value, or any value of a type.
Is(v) == [v |-> <<v>>, t |-> <<>>]
Of(t) == [v |-> <<>>, t |-> <<t>>]
Wanted(v, w) == IF w.v # <<>> THEN v = w.v[1] ELSE HasType(v, w.t[1])
=============================================================================
