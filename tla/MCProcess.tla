----------------------------- MODULE MCProcess -----------------------------
(***************************************************************************)
(* Process for TLC: command lines of every order of files, options, help   *)
(* and "--", and files with labels that are new or defined twice.          *)
(***************************************************************************)
EXTENDS Process, SequencesExt

File1 == [opt |-> "file", arg |-> "f"]
File2 == [opt |-> "file", arg |-> "g"]

\* Files between options; three files make the list grow twice.
MCCommandLines ==
    BoundedSeq({File1, File2, [opt |-> "m", arg |-> "MC6809"], [opt |-> "h", arg |-> ""],
                [opt |-> "--", arg |-> ""]}, 2)
      \cup {<<[opt |-> "m", arg |-> "Z80"], File1>>, <<File1, [opt |-> "m", arg |-> "Z80"]>>,
            <<File2, [opt |-> "o", arg |-> "f"], File1>>, <<File2, File1, File2>>,
            <<File1, [opt |-> "?", arg |-> ""], File2>>, <<File2, File2, File2, File1>>,
            <<File2, File1, [opt |-> "--", arg |-> ""], File2>>}

\* "f" has labels or an unknown mnemonic, or is refused; "g" is empty, has a
\* label, which may be local to the one of "f", or does not exist.
MCDisks ==
    {[n \in {"stdin", "f", "g"} |-> IF n = "stdin" THEN <<"a", "a">> ELSE IF n = "f" THEN t ELSE <<>>] :
        t \in {<<"a">>, <<"a", "a">>, <<"a", "unknown">>, <<"a", "refused">>, <<"a", "b">>}}
      \cup {[n \in {"stdin", "f", "g"} |-> IF n = "g" THEN l ELSE <<"a">>] : l \in {<<"b">>, <<"a.x">>}}
      \cup {[n \in {"stdin", "f"} |-> t] : t \in {<<"a", "b">>, <<"a", "a">>}}

\* No action prefers one address to another.
MCSymmetry == Permutations(Blocks)
=============================================================================
