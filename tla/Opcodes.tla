------------------------------ MODULE Opcodes ------------------------------
(***************************************************************************)
(* The opcode table of the code generator: function gen() of TvmAst.cpp,   *)
(* which every StackPusher::push consults for the number of values that an *)
(* opcode takes and returns, and the list of opcodes makeAsym() accepts.   *)
(* A dictionary opcode is given by its base name; its key character and    *)
(* value suffix do not change the numbers.                                 *)
(***************************************************************************)
EXTENDS Integers

gen01 == {"BLOCKLT", "FALSE", "GETPARAM", "INITCODEHASH", "LTIME", "MYADDR", "MYCODE",
          "NEWC", "NEWDICT", "NIL", "NOW", "NULL", "PUSHINT", "PUSHPOW2DEC", "RANDSEED",
          "RANDU256", "STORAGEFEE", "TRUE"}
gen10 == {"ADDRAND", "ENDS", "SETCODE", "SETGASLIMIT", "SETRAND"}
gen11 == {"ABS", "ADDCONST", "BBITS", "BDEPTH", "BINDUMP", "BITNOT", "BITSIZE", "BLESS",
          "BREFS", "BREMBITS", "BREMREFS", "CDEPTH", "CTOS", "DEC", "DICTEMPTY", "ENDC",
          "EQINT", "FITS", "GTINT", "HASHCU", "HASHSU", "HEXDUMP", "INC", "INDEX2",
          "INDEX3", "INDEX_EXCEP", "INDEX_NOEXCEP", "ISNEG", "ISNNEG", "ISNPOS", "ISNULL",
          "ISPOS", "ISZERO", "LAST", "LESSINT", "MODPOW2", "MULCONST", "NEGATE", "NEQINT",
          "NOT", "PARSEMSGADDR", "PLDDICT", "PLDI", "PLDREF", "PLDREFIDX", "PLDU", "RAND",
          "SBITS", "SDEMPTY", "SDEPTH", "SEMPTY", "SGN", "SHA256U", "SREFS", "STONE",
          "STRDUMP", "STSLICECONST", "STZERO", "TLEN", "UBITSIZE", "UFITS", "UNZIP", "ZIP"}
gen12 == {"BBITREFS", "BREMBITREFS", "LDDICT", "LDGRAMS", "LDI", "LDMSGADDR", "LDOPTREF",
          "LDREF", "LDREFRTOS", "LDSLICE", "LDU", "LDVARINT16", "LDVARINT32",
          "LDVARUINT16", "LDVARUINT32", "REWRITESTDADDR", "SBITREFS", "TPOP"}
gen21 == {"ADD", "AND", "CMP", "DIFF", "DIFF_PATCH", "DIFF_PATCH_ZIP", "DIFF_PATCH_ZIPQ",
          "DIFF_PATCHQ", "DIFF_ZIP", "DIV", "DIVC", "DIVR", "EQUAL", "GEQ", "GREATER",
          "INDEXVAR", "LEQ", "LESS", "MAX", "MIN", "MOD", "MUL", "NEQ", "OR", "PLDIX",
          "PLDUX", "SCHKBITSQ", "SCHKREFSQ", "SDEQ", "SDLEXCMP", "SDSKIPFIRST",
          "SETINDEX", "SETINDEXQ", "STB", "STBR", "STBREF", "STBREFR", "STDICT",
          "STGRAMS", "STI", "STIR", "STONES", "STOPTREF", "STREF", "STREFR", "STSLICE",
          "STSLICER", "STU", "STUR", "STVARINT16", "STVARINT32", "STVARUINT16",
          "STVARUINT32", "STZEROES", "SUB", "SUBR", "TPUSH", "XOR"}
gen22 == {"DIVMOD", "LDIX", "LDSLICEX", "LDUX", "MINMAX"}
gen31 == {"CHKSIGNS", "CHKSIGNU", "CONDSEL", "MULDIV", "MULDIVC", "MULDIVR",
          "SCHKBITREFSQ", "SETINDEXVAR", "SETINDEXVARQ", "SSKIPFIRST", "STIXR", "STUX",
          "STUXR"}

\* <<take, ret>> of the opcode with parameter n (-1: none); <<-1, -1>>: unimplemented.
gen(op, n) ==
  CASE op \in {"ACCEPT", "COMMIT", "PRINTSTR"} -> <<0, 0>>
    [] op \in gen01 -> <<0, 1>>
    [] op \in gen10 -> <<1, 0>>
    [] op \in gen11 -> <<1, 1>>
    [] op \in gen12 -> <<1, 2>>
    [] op \in {"COPYLEFT", "RAWRESERVE", "SENDRAWMSG"} -> <<2, 0>>
    [] op \in gen21 -> <<2, 1>>
    [] op \in gen22 -> <<2, 2>>
    [] op \in {"CDATASIZE", "SDATASIZE"} -> <<2, 3>>
    [] op = "RAWRESERVEX" -> <<3, 0>>
    [] op \in gen31 -> <<3, 1>>
    [] op \in {"DICTDEL", "MULDIVMOD", "SPLIT"} -> <<3, 2>>
    [] op = "DICTSET" -> <<4, 1>>
    [] op \in {"DICTREPLACE", "DICTADD"} -> <<4, 2>>
    [] op = "TUPLE" -> <<n, 1>>
    [] op = "UNTUPLE" -> <<1, n>>
    [] op \in {"LSHIFT", "RSHIFT"} -> <<IF n = -1 THEN 2 ELSE 1, 1>>
    [] op = "MULRSHIFT" -> <<IF n = -1 THEN 3 ELSE 2, 1>>
    [] OTHER -> <<-1, -1>>

\* Opcodes whose effect on the depth depends on the data.
makeAsym == {"CONFIGPARAM", "NULLSWAPIF", "NULLSWAPIFNOT", "LDDICTQ", "LDIQ",
             "LDMSGADDRQ", "LDUQ", "DICTMIN", "DICTMAX", "CDATASIZEQ", "SDATASIZEQ",
             "DICTREMMIN", "DICTREMMAX", "NULLROTRIFNOT", "DICTGET", "DICTGETNEXT",
             "DICTGETNEXTEQ", "DICTGETPREV", "DICTGETPREVEQ", "DICTSETGET", "DICTADDGET",
             "DICTREPLACEGET"}
=============================================================================
