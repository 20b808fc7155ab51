----------------------------- MODULE SourceLine -----------------------------
(***************************************************************************)
(* What parse_line (main.c) keeps of one source line.                      *)
(*                                                                         *)
(* A line is written  [label:] [mnemonic [arg, arg, ...]]  and ends with a *)
(* newline, with a ';' comment, or with the end of the buffer (the last    *)
(* line of a file that lacks its newline, or a line longer than the        *)
(* buffer).  A field is stored when the character that ends it is read: a  *)
(* blank ends the mnemonic, a comma an argument, a newline either.  The    *)
(* other two ends store nothing, so the field being read is lost.          *)
(*                                                                         *)
(* The texts of the fields are the users' choice: ParseLine instantiates   *)
(* them with character sequences, Assembler with abstract names.           *)
(***************************************************************************)
EXTENDS Naturals, Sequences

Tails    == {"newline", "comment", "eof"}
ArgTypes == {"UNPROCESSED", "STRING"}

\* label is {} or the singleton of the text before the ':'.
SourceLines(Labels, Mnemonics, Texts) ==
    [label    : SUBSET Labels,
     mnemonic : Mnemonics,
     args     : Seq([type : ArgTypes, str : Texts]),
     tail     : Tails]

OneLabel(line) == \A l, m \in line.label : l = m

\* The arguments stored in argv: all of them up to a newline, all but the one
\* being read when the line ends otherwise.
StoredArgs(line) ==
    IF line.tail = "newline" \/ line.args = <<>> THEN line.args
    ELSE SubSeq(line.args, 1, Len(line.args) - 1)

\* A mnemonic that no blank follows is stored by the newline alone.
StoredMnemonic(line, none) ==
    IF line.tail # "newline" /\ line.args = <<>> THEN none ELSE line.mnemonic

\* argv has room for LINE_ARG_MAX arguments; one more makes parse_line fail.
Overflows(line, argmax) == Len(StoredArgs(line)) > argmax
=============================================================================
