----------------------------- MODULE MCAssembler -----------------------------
(***************************************************************************)
(* Assembler for TLC: for each run, the set of all programs of a few       *)
(* lines from a small alphabet.                                            *)
(***************************************************************************)
EXTENDS AcceptedPrograms, SampleLines

(* Labels: globals, locals, a global that spells a local, .EQU.            *)
LabelLines ==
    {Src(Global(<<"a">>), "", <<>>), Src(Global(<<"b">>), "DB", <<Num("0")>>),
     Src(Local(<<"x">>), "", <<>>), Src(Global(<<"a", "x">>), "RES", <<Num("5")>>),
     Src(Local(<<"x">>), "EQU", <<Num("5")>>), Src(Global(<<"b">>), "EQU", <<Num("12")>>),
     Src({}, "EQU", <<Num("5")>>), Src(Global(<<"a">>), "EQU", <<Num("abc")>>),
     Src(Local(<<"b">>), "EQU", <<Num("0"), Num("5")>>),
     Src({}, "DW", <<Num("0")>>), Src({}, "ABX", <<>>), Src({}, "unknown", <<>>)}

(* Data: numbers and strings, the file insertion, origins, architecture.   *)
DataLines ==
    {Src({}, "DB", <<Num("0"), Str("abc")>>), Src(Global(<<"a">>), "DW", <<Num("5")>>),
     Src(Global(<<"b">>), "DQ", <<Str(""), Num("0")>>), Src(Local(<<"x">>), "DD", <<>>),
     Src({}, "INSERT", <<Str("bin")>>), Src({}, "INSERT", <<Str("empty")>>),
     Src({}, "INSERT", <<Str("none")>>), Src({}, "INSERT", <<Num("bin")>>),
     Src({}, "ORG", <<Num("12")>>), Src({}, "ORG", <<Num("abc")>>),
     Src({}, "ARCH", <<Num("MC6809")>>), Src({}, "ARCH", <<Num("none")>>),
     Src({}, "DB", <<Num("0"), Num("0"), Num("0"), Num("0")>>)}
LayoutPrograms == OneFile(LabelLines, 4) \cup OneFile(DataLines, 4)

(* Includes: cycles, a missing file, names without quotes, stale argv[0].  *)
IncludeLines ==
    {Src({}, "INCLUDE", <<Str("f")>>), Src(Global(<<"b">>), "INCLUDE", <<Str("g")>>),
     Src({}, "INCLUDE", <<Str("none")>>), Src({}, "INCLUDE", <<Num("g")>>),
     Src(Global(<<"a">>), "", <<>>), Src(Local(<<"x">>), "DB", <<Num("0")>>)}

UnsureLines ==
    {Commented(Src({}, m, <<Str("bin")>>)) : m \in {"INCLUDE", "INSERT", "ORG", "ARCH"}}
       \cup {Src({}, "INCLUDE", <<Str("g")>>), Src({}, "DB", <<Num("0"), Num("0")>>),
              Src(Global(<<"a">>), "INSERT", <<Str("bin")>>),
              Src(Local(<<"x">>), "EQU", <<Num("12")>>)}
IncludePrograms == TwoFiles(IncludeLines, 2) \cup TwoFiles(UnsureLines, 2)

HandlerPrograms == LayoutPrograms \cup IncludePrograms

(* The program as built: labels and mnemonics only, two input files.       *)
BuiltLines ==
    {Src(Global(<<"a">>), "", <<>>), Src(Global(<<"b">>), "DB", <<Num("0")>>),
     Src(Local(<<"x">>), "", <<>>), Src(Global(<<"b", "x">>), "EQU", <<>>),
     Src({}, "INCLUDE", <<Str("f")>>), Src({}, "unknown", <<>>),
     Src({}, "DB", <<Num("0"), Num("0"), Num("0"), Num("0")>>),
     Commented(Src({}, "unknown", <<>>))}
BuiltPrograms == TwoFiles(BuiltLines, 2) \cup OneFile(BuiltLines, 2)
=============================================================================
