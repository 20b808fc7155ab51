---------------------------- MODULE SampleLines ----------------------------
(***************************************************************************)
(* Values for the constants of Assembler that its TLC runs share, and the  *)
(* lines programs are made of.                                             *)
(***************************************************************************)
EXTENDS Integers, Sequences, SequencesExt, TLC

\* Texts: numbers, strings, and names of files and architectures.
MCTexts == {"0", "5", "12", "abc", "", "f", "g", "bin", "empty",
            "none", "MC6809"}
MCValue == ("0" :> 0) @@ ("5" :> 5) @@ ("12" :> 12) @@ ("" :> 0)
MCStrlen == [t \in MCTexts |-> CASE t = "" -> 0 [] t = "12" -> 2 [] t = "abc" -> 3
                                 [] OTHER -> 1]
MCParts == {"a", "b", "x"}

\* A memory of 8 addresses and a counter of 5 bits: both wrap within a run.
MCArchitectures == {"MC6809"}
MCAddressSpace  == [a \in MCArchitectures |-> 8]
MCRawSize == ("bin" :> 5) @@ ("empty" :> 0)

Num(t) == [type |-> "UNPROCESSED", str |-> t]
Str(t) == [type |-> "STRING", str |-> t]

Global(p) == {[local |-> FALSE, path |-> p]}
Local(p)  == {[local |-> TRUE, path |-> p]}

Src(label, mnemonic, args) ==
    [label |-> label, mnemonic |-> mnemonic, args |-> args, tail |-> "newline"]
Commented(l) == [l EXCEPT !.tail = "comment"]

\* The programs of one file "f", or of two, with at most n lines each.
OneFile(lines, n)  == [{"f"} -> BoundedSeq(lines, n)]
TwoFiles(lines, n) == [{"f", "g"} -> BoundedSeq(lines, n)]

F  == <<"f">>
FG == <<"f", "g">>
=============================================================================
