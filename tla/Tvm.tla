-------------------------------- MODULE Tvm --------------------------------
(***************************************************************************)
(* The TON virtual machine as the code generator uses it (external: the    *)
(* interpreter is not part of the repository).  Every opcode the generator *)
(* emits is the set of stacks it may leave; the empty set says that it     *)
(* throws because an operand is missing or has the wrong kind or format.   *)
(*                                                                         *)
(* A value is [k, id, n, c]: its kind k, a symbolic identity id, a number  *)
(* n and a content c.  Builders, slices and cells contain the sequence of  *)
(* fields that was stored, so a load succeeds only on the format that a    *)
(* store wrote and returns the very value stored.  A field of kind "any"   *)
(* stands for data that came from outside and can be read as anything.     *)
(* The top of a stack is its last element.                                 *)
(***************************************************************************)
EXTENDS TvmStack, Sequences, SequencesExt, FiniteSets, TLC

V(k, id, n, c) == [k |-> k, id |-> id, n |-> n, c |-> c]
\* An integer that is known to lie in the range of intN (sg) or uintN.
Num(id, sg, bits) == V("int", id, 0, <<sg, bits>>)
Const(n) == V("int", "c", n, <<>>)
Unknown == Num("?", TRUE, 257)
True == Const(-1)
False == Const(0)
Null == V("null", "", 0, <<>>)
Tuple(c) == V("tuple", "", 0, c)
Builder(c) == V("builder", "", 0, c)
Slice(c) == V("slice", "", 0, c)
Cell(c) == V("cell", "", 0, c)
Cont(id) == V("cont", id, 0, <<>>)
Whatever == V("any", "?", 0, <<>>)

\* Fields: n bits holding a value, a constant bit string, an address, a
\* variable-length integer, a dictionary bit with its reference, a
\* reference, unknown content.
Field(k, n, v) == V(k, "", n, <<v>>)
Bits(id, n) == V("bits", id, n, <<>>)
AnyField(id) == V("any", id, 0, <<>>)
\* The longest address (addr_var with anycast).
AddrBits == 591
Address(id) == Slice(<<V("addr", id, AddrBits, <<>>)>>)

\* A dictionary knows its key format and one representative entry.
Dict(ch, bits, key, val) == V("dict", ch, bits, <<key, val>>)
AnyDict(id) == V("dict", id, 0, <<>>)

RECURSIVE SumOf(_, _)
SumOf(f(_), s) == IF s = <<>> THEN 0 ELSE f(Head(s)) + SumOf(f, Tail(s))

FieldBits(f) == CASE f.k \in {"U", "I", "bits", "addr", "var"} -> f.n
                  [] f.k = "dict" -> 1
                  [] OTHER -> 0
FieldRefs(f) == IF f.k = "ref" \/ (f.k = "dict" /\ f.c[1].k # "null") THEN 1 ELSE 0
FitsInCell(c) == SumOf(FieldBits, c) <= 1023 /\ SumOf(FieldRefs, c) <= 4

IsKind(v, k) ==
  \/ v.k \in {k, "any"} \/ k = "x"
  \/ (k = "dict" /\ v.k = "null")
  \/ (k = "optcell" /\ v.k \in {"cell", "null"})

\* The operands of an opcode, deepest first.
Takes(s, kinds) == /\ Len(s) >= Len(kinds)
                   /\ \A i \in 1 .. Len(kinds) :
                        IsKind(s[Len(s) - Len(kinds) + i], kinds[i])
Top(s, i) == s[Len(s) - i]
Pop(s, m) == SubSeq(s, 1, Len(s) - m)

IsConst(v) == v.k = "int" /\ v.id = "c"
Truth(v) == IF v.k = "int" /\ v.id = "c" THEN {v.n # 0} ELSE BOOLEAN
Bool(b) == IF b THEN True ELSE False

-----------------------------------------------------------------------------
(* Ranges of integers: <<FALSE, n>> is 0 .. 2^n - 1, <<TRUE, n>> is        *)
(* -2^(n-1) .. 2^(n-1) - 1.                                                *)

Largest(a, b) == IF a >= b THEN a ELSE b
Least(a, b) == IF a <= b THEN a ELSE b
BitLength(n) == Cardinality({k \in 0 .. 30 : 2 ^ k <= n})
RangeOf(v) == CASE v.k # "int" -> <<TRUE, 257>>
                [] IsConst(v) -> IF v.n >= 0 THEN <<FALSE, BitLength(v.n)>>
                                 ELSE <<TRUE, BitLength(-v.n - 1) + 1>>
                [] OTHER -> v.c
SignedBits(r) == IF r[1] THEN r[2] ELSE r[2] + 1
Within(r, sg, n) == IF sg THEN SignedBits(r) <= n ELSE ~r[1] /\ r[2] <= n
Fits(v, sg, n) == v.k = "any" \/ Within(RangeOf(v), sg, n)
\* The integers of the TVM have 257 bits; a larger result is an exception.
Capped(r) == <<r[1], Least(r[2], IF r[1] THEN 257 ELSE 256)>>
Joined(r, q) == IF r[1] \/ q[1] THEN <<TRUE, Largest(SignedBits(r), SignedBits(q))>>
                ELSE <<FALSE, Largest(r[2], q[2])>>
Wider(r, m) == Capped(<<r[1], r[2] + m>>)
\* The same integer after a check that it lies in a range.
Narrowed(v, sg, n) == IF v.k = "any" THEN Num("?", sg, n)
                      ELSE IF Fits(v, sg, n) THEN v ELSE Num(v.id, sg, n)

Condition == {"EQUAL", "NEQ", "LESS", "LEQ", "GREATER", "GEQ", "EQINT", "NEQINT", "GTINT",
              "LESSINT", "ISNEG", "ISNNEG", "ISNPOS", "ISPOS", "ISZERO", "SDEQ", "SDEMPTY",
              "SEMPTY", "DICTEMPTY", "SCHKBITSQ", "SCHKREFSQ", "SCHKBITREFSQ", "CHKSIGNS",
              "CHKSIGNU", "ISNULL"}
\* The range of the integer that op n leaves on stack s.
RangeAfter(op, n, s) ==
  LET a == RangeOf(Top(s, 0))
      b == RangeOf(Top(s, 1))
      both == ~a[1] /\ ~b[1]
  IN CASE op \in Condition -> <<TRUE, 1>>
       [] op \in {"CMP", "SGN", "SDLEXCMP"} -> <<TRUE, 2>>
       [] op \in {"HASHCU", "HASHSU", "SHA256U", "RANDU256", "RANDSEED", "INITCODEHASH"} ->
            <<FALSE, 256>>
       [] op = "MODPOW2" -> <<FALSE, n>>
       [] op = "NOW" -> <<FALSE, 32>>
       [] op \in {"LTIME", "BLOCKLT"} -> <<FALSE, 64>>
       [] op \in {"CDATASIZE", "SDATASIZE"} -> <<FALSE, Least(64, a[2] + 10)>>  \* a: at most so many cells
       [] op \in {"BBITS", "BREFS", "BREMBITS", "BREMREFS", "BBITREFS", "BREMBITREFS", "SBITS",
                  "SREFS", "SBITREFS", "CDEPTH", "SDEPTH", "BDEPTH", "TLEN", "BITSIZE",
                  "UBITSIZE"} -> <<FALSE, 16>>
       [] op = "STORAGEFEE" -> <<FALSE, 120>>
       [] op \in {"ABS"} -> <<FALSE, a[2]>>
       [] op \in {"NEGATE", "DEC"} -> Capped(<<TRUE, a[2] + 1>>)
       [] op \in {"INC", "ADDCONST"} -> Wider(a, 1)
       [] op = "BITNOT" -> <<TRUE, SignedBits(a)>>
       [] op \in {"RAND", "NOT"} -> IF op = "NOT" THEN <<TRUE, SignedBits(a)>> ELSE a
       [] op = "LSHIFT" -> Wider(IF n >= 0 THEN a ELSE b, IF n >= 0 THEN n ELSE 256)
       [] op = "RSHIFT" -> IF n >= 0 THEN <<a[1], Largest(a[2] - n, 1)>> ELSE b
       [] op \in {"MIN", "MAX", "MINMAX", "OR", "XOR"} -> Joined(a, b)
       [] op = "AND" -> IF both THEN <<FALSE, Least(a[2], b[2])>>
                        ELSE IF ~a[1] THEN a ELSE IF ~b[1] THEN b
                        ELSE <<TRUE, Largest(a[2], b[2])>>
       [] op = "ADD" -> Wider(Joined(a, b), 1)
       [] op = "SUBR" /\ Top(s, 0).id = "2^n-1" /\ Within(b, FALSE, a[2]) -> a
       [] op \in {"SUB", "SUBR"} -> Capped(<<TRUE, Joined(a, b)[2] + 1>>)
       [] op = "MUL" -> IF both THEN Wider(a, b[2]) ELSE Capped(<<TRUE, SignedBits(a) + SignedBits(b)>>)
       [] op \in {"DIV", "DIVR", "DIVC", "DIVMOD"} -> IF both THEN b ELSE Capped(<<TRUE, SignedBits(b) + 1>>)
       [] op = "MOD" -> a
       [] OTHER -> <<TRUE, 257>>

-----------------------------------------------------------------------------
(* Opcodes whose result is a fresh value of a kind.                        *)

FreshOf(k) == CASE k = "c" -> Cell(<<AnyField("?")>>)
                [] k = "s" -> Slice(<<AnyField("?")>>)
                [] k = "t" -> V("any", "?", 0, <<>>)
                [] k = "a" -> Address("?")
                [] k = "k" -> Cont("?")
                [] k = "r" -> Num("?", FALSE, 3)       \* a number of references
                [] k = "i8" -> Num("?", TRUE, 8)
                [] k = "u256" -> Num("?", FALSE, 256)
                [] k = "x" -> Whatever
KindOf(k) == CASE k = "i" -> "int" [] k = "c" -> "cell" [] k = "s" -> "slice"
               [] k = "b" -> "builder" [] k = "d" -> "dict" [] k = "t" -> "tuple"
               [] k = "o" -> "optcell" [] k = "k" -> "cont" [] k = "x" -> "x"

Plain(op, n) ==
  CASE op \in {"ACCEPT", "COMMIT", "PRINTSTR"} -> <<<<>>, <<>>>>
    [] op \in {"BLOCKLT", "LTIME", "NOW", "RANDSEED", "RANDU256", "STORAGEFEE",
               "INITCODEHASH"} -> <<<<>>, <<"i">>>>
    [] op = "GETPARAM" -> <<<<>>, <<"x">>>>
    [] op = "MYADDR" -> <<<<>>, <<"a">>>>
    [] op = "MYCODE" -> <<<<>>, <<"c">>>>
    [] op \in {"ADDRAND", "SETGASLIMIT", "SETRAND"} -> <<<<"i">>, <<>>>>
    [] op = "SETCODE" -> <<<<"c">>, <<>>>>
    [] op \in {"ABS", "ADDCONST", "BITNOT", "BITSIZE", "GTINT", "ISNEG", "ISNNEG",
               "ISNPOS", "ISPOS", "LESSINT", "MODPOW2", "MULCONST", "NEGATE",
               "RAND", "SGN", "UBITSIZE"} -> <<<<"i">>, <<"i">>>>
    [] op \in {"LSHIFT", "RSHIFT"} ->
         <<IF n >= 0 THEN <<"i">> ELSE <<"i", "i">>, <<"i">>>>
    [] op = "MULRSHIFT" ->
         <<IF n >= 0 THEN <<"i", "i">> ELSE <<"i", "i", "i">>, <<"i">>>>
    [] op \in {"BBITS", "BDEPTH", "BREMBITS"} -> <<<<"b">>, <<"i">>>>
    [] op \in {"BREFS", "BREMREFS"} -> <<<<"b">>, <<"r">>>>
    [] op \in {"BBITREFS", "BREMBITREFS"} -> <<<<"b">>, <<"i", "r">>>>
    [] op \in {"CDEPTH", "HASHCU"} -> <<<<"c">>, <<"i">>>>
    [] op \in {"HASHSU", "SBITS", "SDEPTH", "SHA256U", "SDEMPTY"} ->
         <<<<"s">>, <<"i">>>>
    [] op = "SBITREFS" -> <<<<"s">>, <<"i", "r">>>>
    [] op = "CDATASIZE" -> <<<<"o", "i">>, <<"i", "i", "i">>>>
    [] op = "SDATASIZE" -> <<<<"s", "i">>, <<"i", "i", "i">>>>
    [] op = "BLESS" -> <<<<"s">>, <<"k">>>>
    [] op = "REWRITESTDADDR" -> <<<<"s">>, <<"i8", "u256">>>>
    [] op \in {"ZIP", "UNZIP"} -> <<<<"c">>, <<"c">>>>
    [] op \in {"DIFF", "DIFF_PATCH", "DIFF_PATCH_ZIP", "DIFF_ZIP"} ->
         <<<<"c", "c">>, <<"c">>>>
    [] op \in {"COPYLEFT"} -> <<<<"s", "i">>, <<>>>>
    [] op = "RAWRESERVE" -> <<<<"i", "i">>, <<>>>>
    [] op = "RAWRESERVEX" -> <<<<"i", "d", "i">>, <<>>>>
    [] op = "SENDRAWMSG" -> <<<<"c", "i">>, <<>>>>
    [] op \in {"ADD", "AND", "CMP", "DIV", "DIVC", "DIVR", "EQUAL", "GEQ", "GREATER",
               "LEQ", "LESS", "MAX", "MIN", "MOD", "MUL", "NEQ", "OR", "SUB", "SUBR",
               "XOR"} -> <<<<"i", "i">>, <<"i">>>>
    [] op = "MINMAX" -> <<<<"i", "i">>, <<"i", "i">>>>
    [] op = "DIVMOD" -> <<<<"i", "i">>, <<"i", "m">>>>
    [] op \in {"MULDIV", "MULDIVC", "MULDIVR"} -> <<<<"i", "i", "i">>, <<"i">>>>
    [] op = "MULDIVMOD" -> <<<<"i", "i", "i">>, <<"i", "m">>>>
    [] op \in {"SCHKBITSQ", "SCHKREFSQ"} -> <<<<"s", "i">>, <<"i">>>>
    [] op = "SCHKBITREFSQ" -> <<<<"s", "i", "i">>, <<"i">>>>
    [] op \in {"SDEQ", "SDLEXCMP"} -> <<<<"s", "s">>, <<"i">>>>
    [] op = "CHKSIGNS" -> <<<<"s", "s", "i">>, <<"i">>>>
    [] op = "CHKSIGNU" -> <<<<"i", "s", "i">>, <<"i">>>>
    [] op = "SDSKIPFIRST" -> <<<<"s", "i">>, <<"s">>>>
    [] op = "SSKIPFIRST" -> <<<<"s", "i", "i">>, <<"s">>>>
    [] op = "SPLIT" -> <<<<"s", "i", "i">>, <<"s", "s">>>>
    [] op = "DICTEMPTY" -> <<<<"d">>, <<"i">>>>
    [] OTHER -> <<>>

PlainOutcome(op, n, sig, s) ==
  IF Takes(s, [i \in DOMAIN sig[1] |-> KindOf(sig[1][i])])
  THEN {Pop(s, Len(sig[1]))
          \o [i \in DOMAIN sig[2] |-> IF sig[2][i] = "m"     \* a remainder, smaller than the divisor
                                      THEN Num("?", RangeOf(Top(s, 0))[1], RangeOf(Top(s, 0))[2])
                                      ELSE IF sig[2][i] # "i" THEN FreshOf(sig[2][i])
                                      ELSE IF op = "LSHIFT" /\ n < 0 THEN Whatever
                                      ELSE LET r == RangeAfter(op, n, s) IN Num("?", r[1], r[2])]}
  ELSE {}

-----------------------------------------------------------------------------
(* Integers with known values, tuples.                                     *)

Folded(op, n, s) ==
  LET a == Top(s, 0) IN
  CASE op = "TRUE" -> {Append(s, True)}
    [] op = "FALSE" -> {Append(s, False)}
    [] op = "PUSHINT" -> {Append(s, Const(n))}
    [] op = "PUSHPOW2DEC" -> {Append(s, Num("2^n-1", FALSE, n))}
    [] op \in {"NULL", "NEWDICT"} -> {Append(s, Null)}
    [] op = "NIL" -> {Append(s, Tuple(<<>>))}
    [] op = "NEWC" -> {Append(s, Builder(<<>>))}
    [] op = "ISNULL" -> IF ~Takes(s, <<"x">>) THEN {}
                        ELSE IF a.k = "any" \/ (a.k = "dict" /\ a.c = <<>>)
                             THEN {Append(Pop(s, 1), Num("?", TRUE, 1))}
                        ELSE {Append(Pop(s, 1), Bool(a.k = "null"))}
    [] op \in {"FITS", "UFITS"} ->
         IF Takes(s, <<"int">>) THEN {Append(Pop(s, 1), Narrowed(a, op = "FITS", n))} ELSE {}
    [] op \in {"BINDUMP", "HEXDUMP", "STRDUMP"} ->
         IF Takes(s, <<IF op = "STRDUMP" THEN "slice" ELSE "x">>) THEN {s} ELSE {}
    [] op \in {"INC", "DEC", "EQINT", "NEQINT", "GTINT", "MODPOW2", "ISZERO", "NOT"} ->
         IF ~Takes(s, <<"int">>) THEN {}
         ELSE {Append(Pop(s, 1),
                 IF ~IsConst(a) THEN LET r == RangeAfter(op, n, s) IN Num("?", r[1], r[2])
                 ELSE CASE op = "INC" -> Const(a.n + 1)
                        [] op = "DEC" -> Const(a.n - 1)
                        [] op = "EQINT" -> Bool(a.n = n)
                        [] op = "NEQINT" -> Bool(a.n # n)
                        [] op = "GTINT" -> Bool(a.n > n)
                        [] op = "MODPOW2" -> Const(a.n % 2 ^ n)
                        [] op = "ISZERO" -> Bool(a.n = 0)
                        [] op = "NOT" -> Const(-a.n - 1))}
    [] op = "PARSEMSGADDR" ->      \* of a standard address
         IF ~Takes(s, <<"slice">>) THEN {}
         ELSE {Append(Pop(s, 1), Tuple(<<Const(2), Null, Num("?", TRUE, 8), Slice(<<AnyField("?")>>)>>))}
    [] op = "SREFS" ->
         IF ~Takes(s, <<"slice">>) THEN {}
         ELSE {Append(Pop(s, 1), IF \E i \in DOMAIN a.c : a.c[i].k = "any"
                                 THEN FreshOf("r") ELSE Const(SumOf(FieldRefs, a.c)))}
    [] op = "SBITS" ->
         IF ~Takes(s, <<"slice">>) THEN {}
         ELSE {Append(Pop(s, 1), IF a.k = "any" \/ \E i \in DOMAIN a.c : a.c[i].k = "any"
                                 THEN Num("?", FALSE, 16) ELSE Const(SumOf(FieldBits, a.c)))}
    [] op = "SEMPTY" ->
         IF ~Takes(s, <<"slice">>) THEN {}
         ELSE {Append(Pop(s, 1), IF a.k = "any" \/ \E i \in DOMAIN a.c : a.c[i].k = "any"
                                 THEN Num("?", TRUE, 1) ELSE Bool(a.c = <<>>))}
    [] op \in {"EQUAL", "LEQ"} ->
         IF ~Takes(s, <<"int", "int">>) THEN {}
         ELSE {Append(Pop(s, 2),
                 IF ~IsConst(a) \/ ~IsConst(Top(s, 1)) THEN Num("?", TRUE, 1)
                 ELSE Bool(Top(s, 1).n = a.n \/ (op = "LEQ" /\ Top(s, 1).n < a.n)))}
    [] op = "CONDSEL" -> IF Takes(s, <<"int", "x", "x">>)
                         THEN {Append(Pop(s, 3), IF b THEN Top(s, 1) ELSE a) :
                                 b \in Truth(Top(s, 2))}
                         ELSE {}

\* SETINDEXQ extends a null or short tuple with nulls.
SetQ(t, i, v) == LET c == IF t.k = "null" THEN <<>> ELSE t.c
                     m == IF Len(c) > i THEN Len(c) ELSE i + 1
                 IN  Tuple([j \in 1 .. m |-> IF j = i + 1 THEN v
                                             ELSE IF j <= Len(c) THEN c[j] ELSE Null])

TupleOp(op, n, s) ==
  LET a == Top(s, 0) IN
  CASE op = "TUPLE" -> IF Len(s) < n THEN {}
                       ELSE {Append(Pop(s, n), Tuple(SubSeq(s, Len(s) - n + 1, Len(s))))}
    [] op = "UNTUPLE" -> IF ~Takes(s, <<"tuple">>) THEN {}
                         ELSE IF a.k = "any" THEN {Pop(s, 1) \o [i \in 1 .. n |-> Whatever]}
                         ELSE IF Len(a.c) # n THEN {} ELSE {Pop(s, 1) \o a.c}
    [] op \in {"INDEX_EXCEP", "INDEX_NOEXCEP"} ->
         IF ~Takes(s, <<"tuple">>) THEN {}
         ELSE IF a.k = "any" THEN {Append(Pop(s, 1), Whatever)}
         ELSE IF n >= Len(a.c) THEN {} ELSE {Append(Pop(s, 1), a.c[n + 1])}
    [] op = "LAST" -> IF ~Takes(s, <<"tuple">>) THEN {}
                      ELSE IF a.k = "any" THEN {Append(Pop(s, 1), Whatever)}
                      ELSE IF a.c = <<>> THEN {} ELSE {Append(Pop(s, 1), Last(a.c))}
    [] op = "SETINDEX" -> IF ~Takes(s, <<"tuple", "x">>) THEN {}
                          ELSE IF Top(s, 1).k = "any" THEN {Pop(s, 1)}
                          ELSE IF n >= Len(Top(s, 1).c) THEN {}
                          ELSE {Append(Pop(s, 2), [Top(s, 1) EXCEPT !.c[n + 1] = a])}
    [] op = "SETINDEXQ" -> IF ~(Takes(s, <<"tuple", "x">>) \/ Takes(s, <<"null", "x">>))
                           THEN {} ELSE {Append(Pop(s, 2), SetQ(Top(s, 1), n, a))}
    [] op = "INDEXVAR" -> IF Takes(s, <<"tuple", "int">>)
                          THEN {Append(Pop(s, 2), Whatever)} ELSE {}
    [] op = "SETINDEXVARQ" ->
         IF Len(s) < 3 \/ ~IsConst(a) \/ Top(s, 2).k \notin {"tuple", "null"} THEN {}
         ELSE {Append(Pop(s, 3), SetQ(Top(s, 2), a.n, Top(s, 1)))}
    [] op = "SETINDEXVAR" -> IF Takes(s, <<"tuple", "x", "int">>)
                             THEN {Append(Pop(s, 3), Whatever)} ELSE {}
    [] op = "TLEN" -> IF ~Takes(s, <<"tuple">>) THEN {}
                      ELSE {Append(Pop(s, 1), IF a.k = "any" THEN Num("?", FALSE, 16)
                                              ELSE Const(Len(a.c)))}
    [] op = "TPUSH" -> IF ~Takes(s, <<"tuple", "x">>) THEN {}
                       ELSE IF Top(s, 1).k = "any" THEN {Pop(s, 1)}
                       ELSE {Append(Pop(s, 2), Tuple(Append(Top(s, 1).c, a)))}
    [] op = "TPOP" -> IF ~Takes(s, <<"tuple">>) THEN {}
                      ELSE IF a.k = "any" THEN {Append(s, Whatever)}
                      ELSE IF a.c = <<>> THEN {}
                      ELSE {Pop(s, 1) \o <<Tuple(Front(a.c)), Last(a.c)>>}
TupleOps == {"TUPLE", "UNTUPLE", "INDEX_EXCEP", "INDEX_NOEXCEP", "LAST", "SETINDEX",
             "SETINDEXQ", "INDEXVAR", "SETINDEXVAR", "SETINDEXVARQ", "TLEN", "TPUSH", "TPOP"}
FoldedOps == {"TRUE", "FALSE", "PUSHINT", "PUSHPOW2DEC", "NULL", "NEWDICT", "NIL", "NEWC", "ISNULL",
              "FITS", "UFITS", "BINDUMP", "HEXDUMP", "STRDUMP", "INC", "DEC", "EQINT",
              "NEQINT", "GTINT", "MODPOW2", "ISZERO", "NOT", "PARSEMSGADDR", "SREFS", "SBITS", "SEMPTY", "EQUAL", "LEQ", "CONDSEL"}

-----------------------------------------------------------------------------
(* Cells, slices and builders.                                             *)

FirstOf(c, P(_)) == LET ok == {i \in DOMAIN c : P(c[i])}
                    IN  IF ok = {} THEN 0 ELSE CHOOSE i \in ok : \A j \in ok : i <= j
FirstData(c) == FirstOf(c, LAMBDA f : f.k # "ref")
FirstRef(c) == FirstOf(c, LAMBDA f : FieldRefs(f) = 1)
AnyAt(c, i) == i > 0 /\ c[i].k = "any"

\* The body of a message, from the function id on, lies in the cell or in its last reference.
RECURSIVE Body(_)
Body(c) == LET i == FirstOf(c, LAMBDA f : f.id = "functionId" \/ (f.k = "U" /\ f.c[1].id = "functionId"))
               refs == SelectSeq(c, LAMBDA f : FieldRefs(f) = 1)
           IN  IF i > 0 THEN SubSeq(c, i, Len(c)) ELSE Body(Last(refs).c[1].c)

\* A load is a set of pairs <<value, fields left>>; no pair if the format differs.
DropBits(c, i, n) == IF c[i].n = n THEN RemoveAt(c, i) ELSE [c EXCEPT ![i].n = @ - n]
LoadNum(c, k, n) ==
  LET i == FirstData(c) IN
  IF i = 0 THEN {}
  ELSE IF c[i].k = "any" THEN {<<Num("?", k = "I", n), c>>}
  ELSE IF c[i].k \in {"U", "I"} /\ c[i].n = n
       THEN {<<IF c[i].k = k THEN c[i].c[1] ELSE Num("?", k = "I", n), RemoveAt(c, i)>>}
  ELSE IF c[i].k = "addr" /\ n = 2      \* the tag of an address
       THEN {<<Num("?", k = "I", n), [c EXCEPT ![i] = AnyField("?")]>>}
  ELSE IF c[i].k = "bits" /\ c[i].n >= n
       THEN {<<CASE c[i].id = "0" -> False
                 [] c[i].id = "1" /\ n = 1 -> IF k = "I" THEN True ELSE Const(1)
                 [] OTHER -> Num("?", k = "I", n), DropBits(c, i, n)>>}
  ELSE {}
VarRange(id) == <<id \in {"VARINT16", "VARINT32"}, IF id \in {"VARINT16", "VARUINT16"} THEN 120 ELSE 248>>
LoadVar(c, id) ==
  LET i == FirstData(c) r == VarRange(id) IN
  IF i = 0 THEN {} ELSE IF c[i].k = "any" THEN {<<Num("?", r[1], r[2]), c>>}
  ELSE IF c[i].k = "var" /\ c[i].id = id THEN {<<c[i].c[1], RemoveAt(c, i)>>} ELSE {}
LoadAddr(c) ==
  LET i == FirstData(c) IN
  IF i = 0 THEN {} ELSE IF c[i].k = "any" THEN {<<Address("?"), c>>}
  ELSE IF c[i].k = "addr" THEN {<<Slice(<<c[i]>>), RemoveAt(c, i)>>}
  ELSE IF c[i].k = "bits" /\ c[i].id = "0" /\ c[i].n >= 2
       THEN {<<Slice(<<Bits("0", 2)>>), DropBits(c, i, 2)>>}
  ELSE {}
LoadRef(c) ==
  LET i == FirstRef(c) IN
  IF i > 0 /\ c[i].k = "ref" THEN {<<c[i].c[1], RemoveAt(c, i)>>}
  ELSE IF i = 0 /\ \E j \in DOMAIN c : c[j].k = "any"
       THEN {<<Cell(<<AnyField("?")>>), c>>} ELSE {}
\* The first n bits as a slice.
LoadSlice(c, n) ==
  LET i == FirstData(c) IN
  IF i > 0 /\ c[i].k = "bits" /\ c[i].n >= n THEN {<<Slice(<<Bits(c[i].id, n)>>), DropBits(c, i, n)>>}
  ELSE IF i > 0 /\ c[i].k \in {"U", "I"} /\ c[i].n = n THEN {<<Slice(<<c[i]>>), RemoveAt(c, i)>>}
  ELSE {<<Slice(<<AnyField("?")>>), <<AnyField("?")>>>>}
\* A dictionary or optional reference is one bit and, if it is 1, a reference.
LoadDict(c, fresh) ==
  LET i == FirstData(c) IN
  IF i = 0 THEN {}
  ELSE IF c[i].k = "any" THEN {<<fresh, c>>, <<Null, c>>}
  ELSE IF c[i].k = "dict" /\ (FieldRefs(c[i]) = 1 => FirstRef(c) = i)
       THEN {<<c[i].c[1], RemoveAt(c, i)>>}
  ELSE IF c[i].k = "bits" /\ c[i].id = "0" THEN {<<Null, DropBits(c, i, 1)>>}
  ELSE {}

Loaded(op, n, c) ==
  CASE op \in {"LDU", "LDUX", "PLDU", "PLDUX"} -> LoadNum(c, "U", n)
    [] op \in {"LDI", "LDIX", "PLDI", "PLDIX"} -> LoadNum(c, "I", n)
    [] op \in {"LDGRAMS", "LDVARUINT16"} -> LoadVar(c, "VARUINT16")
    [] op = "LDVARINT16" -> LoadVar(c, "VARINT16")
    [] op = "LDVARUINT32" -> LoadVar(c, "VARUINT32")
    [] op = "LDVARINT32" -> LoadVar(c, "VARINT32")
    [] op = "LDMSGADDR" -> LoadAddr(c)
    [] op \in {"LDREF", "PLDREF"} -> LoadRef(c)
    [] op = "LDREFRTOS" -> {<<Slice(p[1].c), p[2]>> : p \in LoadRef(c)}
    [] op \in {"LDDICT", "PLDDICT"} -> LoadDict(c, AnyDict("?"))
    [] op = "LDOPTREF" -> LoadDict(c, Cell(<<AnyField("?")>>))
LoadOps == {"LDU", "LDI", "LDGRAMS", "LDVARUINT16", "LDVARINT16", "LDVARUINT32",
            "LDVARINT32", "LDMSGADDR", "LDREF", "LDDICT", "LDOPTREF"}
PreloadOps == {"PLDU", "PLDI", "PLDREF", "PLDDICT"}

Load(op, n, s) ==
  LET a == Top(s, 0) IN
  CASE op \in LoadOps ->
         IF Takes(s, <<"slice">>)
         THEN {Pop(s, 1) \o <<p[1], Slice(p[2])>> : p \in Loaded(op, n, a.c)} ELSE {}
    [] op = "LDSLICE" ->
         IF Takes(s, <<"slice">>)
         THEN {Pop(s, 1) \o <<p[1], Slice(p[2])>> : p \in LoadSlice(a.c, n)} ELSE {}
    [] op = "LDSLICEX" ->
         IF Takes(s, <<"slice", "int">>)
         THEN {Pop(s, 2) \o <<p[1], Slice(p[2])>> :
                 p \in LoadSlice(Top(s, 1).c, IF IsConst(a) THEN a.n ELSE 1024)} ELSE {}
    [] op = "LDREFRTOS" ->
         IF Takes(s, <<"slice">>)
         THEN {Pop(s, 1) \o <<Slice(p[2]), p[1]>> : p \in Loaded(op, n, a.c)} ELSE {}
    [] op \in PreloadOps ->
         IF Takes(s, <<"slice">>)
         THEN {Append(Pop(s, 1), p[1]) : p \in Loaded(op, n, a.c)} ELSE {}
    [] op = "PLDREFIDX" ->
         IF ~Takes(s, <<"slice">>) THEN {}
         ELSE IF \E i \in DOMAIN a.c : a.c[i].k = "any"
              THEN {Append(Pop(s, 1), Cell(<<AnyField("?")>>))}
         ELSE LET r == SelectSeq(a.c, LAMBDA f : FieldRefs(f) = 1)
              IN  IF n < Len(r) THEN {Append(Pop(s, 1), r[n + 1].c[1])} ELSE {}
    [] op \in {"LDUX", "LDIX"} ->
         IF Takes(s, <<"slice", "int">>)
         THEN {Pop(s, 2) \o <<Num("?", op = "LDIX", IF op = "LDIX" THEN 257 ELSE 256),
                              Slice(<<AnyField("?")>>)>>} ELSE {}
    [] op \in {"PLDUX", "PLDIX"} ->
         IF Takes(s, <<"slice", "int">>)
         THEN {Append(Pop(s, 2), Num("?", op = "PLDIX", IF op = "PLDIX" THEN 257 ELSE 256))} ELSE {}
    [] op = "CTOS" -> IF Takes(s, <<"cell">>) THEN {Append(Pop(s, 1), Slice(a.c))} ELSE {}
    [] op = "ENDS" -> IF Takes(s, <<"slice">>) /\ \A i \in DOMAIN a.c : a.c[i].k = "any"
                      THEN {Pop(s, 1)} ELSE {}
MoreLoadOps == {"LDSLICE", "LDSLICEX", "LDREFRTOS", "PLDREFIDX", "LDUX", "LDIX", "PLDUX", "PLDIX", "CTOS", "ENDS"}

\* What a store appends: from the value for "ST.. (value builder)" and for the
\* reversed forms "ST..R (builder value)".
Stored(op, n, v) ==
  CASE op \in {"STU", "STUR"} -> <<Field("U", n, Narrowed(v, FALSE, n))>>
    [] op \in {"STI", "STIR"} -> <<Field("I", n, Narrowed(v, TRUE, n))>>
    [] op \in {"STGRAMS", "STVARUINT16"} -> <<V("var", "VARUINT16", 124, <<Narrowed(v, FALSE, 120)>>)>>
    [] op = "STVARINT16" -> <<V("var", "VARINT16", 124, <<Narrowed(v, TRUE, 120)>>)>>
    [] op = "STVARUINT32" -> <<V("var", "VARUINT32", 253, <<Narrowed(v, FALSE, 248)>>)>>
    [] op = "STVARINT32" -> <<V("var", "VARINT32", 253, <<Narrowed(v, TRUE, 248)>>)>>
    [] op \in {"STREF", "STREFR"} -> <<Field("ref", 0, v)>>
    [] op \in {"STBREF", "STBREFR"} -> <<Field("ref", 0, Cell(v.c))>>
    [] op \in {"STDICT", "STOPTREF"} -> <<Field("dict", 0, v)>>
    [] op \in {"STSLICE", "STSLICER", "STB", "STBR"} -> v.c
StoreKind(op) ==
  CASE op \in {"STREF", "STREFR"} -> "cell"
    [] op \in {"STBREF", "STBREFR", "STB", "STBR"} -> "builder"
    [] op \in {"STSLICE", "STSLICER"} -> "slice"
    [] op = "STDICT" -> "dict" [] op = "STOPTREF" -> "optcell" [] OTHER -> "int"
StoreOps == {"STU", "STI", "STREF", "STBREF", "STDICT", "STOPTREF", "STSLICE", "STB"}
ReverseStoreOps == {"STUR", "STIR", "STREFR", "STBREFR", "STSLICER", "STBR", "STGRAMS",
                    "STVARUINT16", "STVARINT16", "STVARUINT32", "STVARINT32"}
Put(s, m, b, fields) == IF FitsInCell(b.c \o fields)
                        THEN {Append(Pop(s, m), Builder(b.c \o fields))} ELSE {}

Store(op, n, s) ==
  LET a == Top(s, 0) IN
  CASE op \in StoreOps ->
         IF Takes(s, <<StoreKind(op), "builder">>)
         THEN Put(s, 2, a, Stored(op, n, Top(s, 1))) ELSE {}
    [] op \in ReverseStoreOps ->
         IF Takes(s, <<"builder", StoreKind(op)>>)
         THEN Put(s, 2, Top(s, 1), Stored(op, n, a)) ELSE {}
    [] op \in {"STONE", "STZERO"} ->
         IF Takes(s, <<"builder">>)
         THEN Put(s, 1, a, <<Bits(IF op = "STONE" THEN "1" ELSE "0", 1)>>) ELSE {}
    [] op \in {"STONES", "STZEROES"} ->
         IF ~Takes(s, <<"builder", "int">>) THEN {}
         ELSE Put(s, 2, Top(s, 1), IF IsConst(a)
                                   THEN <<Bits(IF op = "STONES" THEN "1" ELSE "0", a.n)>>
                                   ELSE <<AnyField("?")>>)
    [] op = "STUX" -> IF Takes(s, <<"int", "builder", "int">>)
                      THEN Put(s, 3, Top(s, 1), <<AnyField("?")>>) ELSE {}
    [] op \in {"STUXR", "STIXR"} -> IF Takes(s, <<"builder", "int", "int">>)
                                    THEN Put(s, 3, Top(s, 2), <<AnyField("?")>>) ELSE {}
    [] op = "ENDC" -> IF Takes(s, <<"builder">>) THEN {Append(Pop(s, 1), Cell(a.c))} ELSE {}
MoreStoreOps == {"STONE", "STZERO", "STONES", "STZEROES", "STUX", "STUXR", "STIXR", "ENDC"}

-----------------------------------------------------------------------------
(* Dictionaries.  The name of a dictionary opcode is split into its base,  *)
(* the key character ch ("", "I" or "U") and the value suffix suf ("",     *)
(* "REF" or "B").                                                          *)

KeyKind(ch) == IF ch = "" THEN "slice" ELSE "int"
ValKind(suf) == CASE suf = "" -> "slice" [] suf = "REF" -> "cell" [] suf = "B" -> "builder"
DictFits(d, ch, bits) == d.k # "dict" \/ d.c = <<>> \/ (d.id = ch /\ d.n = bits)

\* The entry in the form the leaf holds it; the leaf also holds the key label.
LabelBits == 12
Entry(v, suf) == IF suf = "REF" THEN Slice(<<Field("ref", 0, v)>>) ELSE Slice(v.c)
EntryFits(e, bits) == SumOf(FieldBits, e.c) + bits + LabelBits <= 1023
                      /\ SumOf(FieldRefs, e.c) <= 4

Entries(d, ch, bits) == CASE d.k = "null" -> {}
                    [] d.k = "dict" /\ d.c # <<>> -> {d.c}
                    [] OTHER -> {<<IF ch = "" THEN Slice(<<AnyField("?")>>)
                                   ELSE Num("?", ch = "I", bits),
                                   Slice(<<AnyField("?")>>)>>}
\* The value in the form an opcode with suffix REF or none returns it.
Returned(e, suf) == IF suf = "REF" THEN {p[1] : p \in LoadRef(e.c)} ELSE {e}

\* The entries with known keys, after the one written last.
Older(d, key) == IF d.k # "dict" \/ d.c = <<>> \/ ~IsConst(key) THEN <<>>
                 ELSE IF ~IsConst(d.c[1]) \/ d.c[1] = key THEN <<>> ELSE d.c
Has(d, key) == {i \in 1 .. (IF d.k = "dict" THEN Len(d.c) \div 2 ELSE 0) : d.c[2 * i - 1] = key}

DictKeyOp(op, ch, suf, s) ==     \* key dict n
  LET d == Top(s, 1) IN
  IF ~Takes(s, <<KeyKind(ch), "dict", "int">>) \/ ~DictFits(d, ch, Top(s, 0).n) THEN {}
  ELSE CASE op = "DICTGET" /\ Has(d, Top(s, 2)) # {} ->
              LET i == CHOOSE j \in Has(d, Top(s, 2)) : \A k \in Has(d, Top(s, 2)) : j <= k
              IN  {Pop(s, 3) \o <<v, True>> : v \in Returned(d.c[2 * i], suf)}
         [] op = "DICTGET" ->
              {Append(Pop(s, 3), False)}
                \cup {Pop(s, 3) \o <<v, True>> :
                        v \in UNION {Returned(e[2], suf) : e \in Entries(d, ch, Top(s, 0).n)}}
         [] op \in {"DICTGETNEXT", "DICTGETNEXTEQ", "DICTGETPREV", "DICTGETPREVEQ"} ->
              {Append(Pop(s, 3), False)}
                \cup {Pop(s, 3) \o <<e[2], e[1], True>> : e \in Entries(d, ch, Top(s, 0).n)}
         [] op = "DICTDEL" -> {Pop(s, 3) \o <<d, False>>}
                                \cup {Pop(s, 3) \o <<x, True>> :
                                        x \in IF d.k = "null" THEN {} ELSE {d, Null}}

DictEndOp(op, ch, suf, s) ==     \* dict n
  LET d == Top(s, 1) IN
  IF ~Takes(s, <<"dict", "int">>) \/ ~DictFits(d, ch, Top(s, 0).n) THEN {}
  ELSE LET found == {<<v, e[1]>> : v \in UNION {Returned(x[2], suf) : x \in Entries(d, ch, Top(s, 0).n)},
                                   e \in Entries(d, ch, Top(s, 0).n)}
           none == d.k = "null" \/ d.c = <<>>
       IN  CASE op \in {"DICTMIN", "DICTMAX"} ->
                  {Pop(s, 2) \o p \o <<True>> : p \in found}
                    \cup (IF none THEN {Append(Pop(s, 2), False)} ELSE {})
             [] op \in {"DICTREMMIN", "DICTREMMAX"} ->
                  {Append(Pop(s, 2), x) \o p \o <<True>> : p \in found, x \in {d, Null}}
                    \cup (IF none THEN {Pop(s, 2) \o <<d, False>>} ELSE {})

DictSetOp(op, ch, suf, s) ==     \* value key dict n
  LET d == Top(s, 1)
      e == Entry(Top(s, 3), suf)
      new == [Dict(ch, Top(s, 0).n, Top(s, 2), e) EXCEPT !.c = @ \o Older(d, Top(s, 2))]
      old == UNION {Returned(x[2], IF suf = "B" THEN "" ELSE suf) : x \in Entries(d, ch, Top(s, 0).n)}
  IN
  IF \/ ~Takes(s, <<ValKind(suf), KeyKind(ch), "dict", "int">>)
     \/ ~DictFits(d, ch, Top(s, 0).n) \/ ~EntryFits(e, Top(s, 0).n) THEN {}
  ELSE CASE op = "DICTSET" -> {Append(Pop(s, 4), new)}
         [] op = "DICTADD" -> {Pop(s, 4) \o <<new, True>>}
              \cup (IF d.k = "null" THEN {} ELSE {Pop(s, 4) \o <<d, False>>})
         [] op = "DICTREPLACE" -> {Pop(s, 4) \o <<d, False>>}
              \cup (IF d.k = "null" THEN {} ELSE {Pop(s, 4) \o <<new, True>>})
         [] op = "DICTSETGET" -> {Pop(s, 4) \o <<new, False>>}
              \cup {Pop(s, 4) \o <<new, v, True>> : v \in old}
         [] op = "DICTADDGET" -> {Pop(s, 4) \o <<new, True>>}
              \cup {Pop(s, 4) \o <<d, v, False>> : v \in old}
         [] op = "DICTREPLACEGET" -> {Pop(s, 4) \o <<d, False>>}
              \cup {Pop(s, 4) \o <<new, v, True>> : v \in old}
DictKeyOps == {"DICTGET", "DICTGETNEXT", "DICTGETNEXTEQ", "DICTGETPREV", "DICTGETPREVEQ",
               "DICTDEL"}
DictEndOps == {"DICTMIN", "DICTMAX", "DICTREMMIN", "DICTREMMAX"}
DictSetOps == {"DICTSET", "DICTADD", "DICTREPLACE", "DICTSETGET", "DICTADDGET",
               "DICTREPLACEGET"}

(* Opcodes that leave a different number of values in different outcomes.  *)
Quiet(op) == CASE op = "LDUQ" -> "LDU" [] op = "LDIQ" -> "LDI"
               [] op = "LDDICTQ" -> "LDDICT" [] op = "LDMSGADDRQ" -> "LDMSGADDR"
Asym(op, n, s) ==
  LET a == Top(s, 0) IN
  CASE op = "CONFIGPARAM" ->
         IF Takes(s, <<"int">>) THEN {Pop(s, 1) \o <<FreshOf("c"), True>>, Append(Pop(s, 1), False)}
         ELSE {}
    [] op \in {"CDATASIZEQ", "SDATASIZEQ"} ->
         IF Takes(s, <<IF op = "CDATASIZEQ" THEN "optcell" ELSE "slice", "int">>)
         THEN {Pop(s, 2) \o [i \in 1 .. 3 |-> Num("?", FALSE, 64)] \o <<True>>,
               Append(Pop(s, 2), False)}
         ELSE {}
    [] op \in {"NULLSWAPIF", "NULLSWAPIFNOT"} ->
         IF ~Takes(s, <<"int">>) THEN {}
         ELSE {IF b = (op = "NULLSWAPIF") THEN Pop(s, 1) \o <<Null, a>> ELSE s :
                 b \in Truth(a)}
    [] op = "NULLROTRIFNOT" ->
         IF ~Takes(s, <<"x", "int">>) THEN {}
         ELSE {IF b THEN s ELSE Pop(s, 2) \o <<Null, Top(s, 1), a>> : b \in Truth(a)}
    [] op \in {"LDUQ", "LDIQ", "LDDICTQ", "LDMSGADDRQ"} ->
         IF ~Takes(s, <<"slice">>) THEN {}
         ELSE LET got == Loaded(Quiet(op), n, a.c)
              IN  {Pop(s, 1) \o <<p[1], Slice(p[2]), True>> : p \in got}
                    \cup (IF got = {} \/ \E i \in DOMAIN a.c : a.c[i].k = "any"
                          THEN {Append(s, False)} ELSE {})
AsymOps == {"CONFIGPARAM", "CDATASIZEQ", "SDATASIZEQ", "NULLSWAPIF", "NULLSWAPIFNOT",
            "NULLROTRIFNOT", "LDUQ", "LDIQ", "LDDICTQ", "LDMSGADDRQ"}

-----------------------------------------------------------------------------
(* Any opcode: the stacks that op n (with key character or constant ch and *)
(* suffix suf) may leave on s.                                             *)

Outcomes(op, n, ch, suf, s) ==
  CASE op \in FoldedOps -> Folded(op, n, s)
    [] op \in TupleOps -> TupleOp(op, n, s)
    [] op \in LoadOps \cup PreloadOps \cup MoreLoadOps -> Load(op, n, s)
    [] op \in StoreOps \cup ReverseStoreOps \cup MoreStoreOps -> Store(op, n, s)
    [] op = "STSLICECONST" -> IF Takes(s, <<"builder">>)
                              THEN Put(s, 1, Top(s, 0), <<Bits(ch, n)>>) ELSE {}
    [] op \in DictKeyOps -> DictKeyOp(op, ch, suf, s)
    [] op \in DictEndOps -> DictEndOp(op, ch, suf, s)
    [] op \in DictSetOps -> DictSetOp(op, ch, suf, s)
    [] op \in AsymOps -> Asym(op, n, s)
    [] op \in {"DIFF_PATCHQ", "DIFF_PATCH_ZIPQ"} ->
         IF Takes(s, <<"cell", "cell">>)
         THEN {Append(Pop(s, 2), v) : v \in {Null, FreshOf("c")}} ELSE {}
    [] OTHER -> IF Plain(op, n) = <<>> THEN {} ELSE PlainOutcome(op, n, Plain(op, n), s)

\* A stack instruction, by what TvmStack says it copies.
Moved(op, s) ==
  LET m == Len(s) + Delta(op)
  IN  IF Len(s) < Need(op) THEN {}
      ELSE {[x \in 1 .. m |-> s[Len(s) - Src(op, m - x)]]}
=============================================================================
