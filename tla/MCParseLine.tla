----------------------------- MODULE MCParseLine -----------------------------
(***************************************************************************)
(* ParseLine and LineGrammar for TLC, and what the manual says of a line   *)
(* and the scan does not do.                                               *)
(***************************************************************************)
EXTENDS LineGrammar

\* "[label:] [mnemonic [arguments]] [;comment]": a comment may follow a
\* statement, and the fields of the statement are those without it.
CommentIsInert ==
    status = "returned" /\ HasForm(text) /\ TailOf(text) = "comment" =>
        /\ ParsedMnemonic = Shape(text).mnemonic
        /\ ParsedArgs = Shape(text).args
=============================================================================
