------------------------------ MODULE MCInline ------------------------------
(***************************************************************************)
(* AssemblerInline for TLC: two files that include one another around      *)
(* everything that makes a symbol or moves the location.                   *)
(***************************************************************************)
EXTENDS AssemblerInline, SampleLines

InlineLines ==
    {Src({}, "INCLUDE", <<Str("g")>>), Src(Global(<<"b">>), "INCLUDE", <<Str("f")>>),
     Src({}, "INCLUDE", <<Str("none")>>), Src({}, "INSERT", <<Str("bin")>>),
     Src(Global(<<"a">>), "DW", <<Num("0"), Str("abc")>>),
     Src(Local(<<"x">>), "EQU", <<Num("12")>>),
     Src(Local(<<"b">>), "ORG", <<Num("5")>>), Src({}, "unknown", <<>>),
     Src({}, "DB", <<Num("0"), Num("0"), Num("0"), Num("0")>>)}
InlinePrograms == TwoFiles(InlineLines, 2)

ASSUME InlinableAssumption == Inlinable
=============================================================================
