------------------------------ MODULE ParseLine ------------------------------
(***************************************************************************)
(* parse_line (main.c): one pass over the line in the global buffer, which *)
(* cuts it in place into a label, a mnemonic and arguments by overwriting  *)
(* the separators with NULs and storing pointers into the buffer.          *)
(*                                                                         *)
(* The characters are given one at a time: text is what the pass has read, *)
(* the character under the pointer c is the one at Len(text) + 1.  Every   *)
(* text that fgets can leave in the buffer is a behaviour.  Ordinary       *)
(* characters are the set Letters; blank, tab are both "blank".            *)
(***************************************************************************)
EXTENDS SourceLine, FiniteSets

CONSTANTS
    Letters,         \* characters without a case of their own in parse_line
    Special,         \* the special characters that occur
    LINEBUFFERSIZE,  \* size of the buffer, its final NUL included
    LINE_ARG_MAX     \* size of argv

SpecialCharacters == {"blank", "comma", "newline", "colon", "semicolon",
                      "dquote", "squote", "lbracket", "rbracket"}
Alphabet == Letters \cup Special

ASSUME AlphabetAssumption ==
    Special \subseteq SpecialCharacters /\ Letters \cap SpecialCharacters = {}

ASSUME LimitsAssumption ==
    /\ LINEBUFFERSIZE \in Nat /\ LINEBUFFERSIZE > 1
    /\ LINE_ARG_MAX \in Nat /\ LINE_ARG_MAX > 0

VARIABLES
    text,        \* the characters read so far
    nul,         \* the positions overwritten with '\0'
    buffer,      \* the parameter buffer: where the current field starts
    line_state,  \* l->line_state, as the set of its flags
    label,       \* l->label, a position (0: not assigned)
    mnemonic,    \* l->mnemonic, a position (0: not assigned)
    argv,        \* l->argv[0 .. argc-1]
    arg_type,    \* type the next argument gets
    status       \* "scanning", "returned", or the message given to fail()

vars == <<text, nul, buffer, line_state, label, mnemonic, argv, arg_type, status>>
fields == <<label, mnemonic, argv>>

Flags    == {"LABEL", "MNEMONIC", "SINGLE_QUOTE", "DOUBLE_QUOTE", "BRACKET"}
Messages == {"Quotes must occur at the beginning of a field.",
             "']' requires '[' first.",
             "No mnemonic preceding argument.",
             "Too many arguments provided.",
             "Unterminated string constant.",
             "Invalid label.",
             "Label must occur at the beginning of a line.",
             "Label cannot be a string literal.",
             "Unmatched quote.",
             "Unmatched bracket."}
Quotes   == {"dquote", "squote"}

c == Len(text) + 1                       \* the position of the scan pointer

\* Definitions named ...Bug are slips one could make in the code, each put in
\* the place of the definition after it to see which property notices.
InQuotesBug == "SINGLE_QUOTE" \in line_state

InQuotes == line_state \cap {"SINGLE_QUOTE", "DOUBLE_QUOTE"} # {}
Bounded  == line_state \cap {"SINGLE_QUOTE", "DOUBLE_QUOTE", "BRACKET"} # {}
Has(flag) == flag \in line_state

\* fgets stops after a newline and at LINEBUFFERSIZE - 1 characters, and
\* assemble skips a line that starts with its newline.
MayRead(ch) ==
    /\ status = "scanning"
    /\ ch \in Alphabet
    /\ Len(text) < LINEBUFFERSIZE - 1
    /\ text # <<>> => text[Len(text)] # "newline"
    /\ text = <<>> => ch # "newline"

Read(ch) == MayRead(ch) /\ text' = Append(text, ch)

Fail(msg) ==
    /\ status' = msg
    /\ UNCHANGED <<nul, buffer, line_state, label, mnemonic, argv, arg_type>>

\* fail() at character ch, when the code's condition for it holds.
FailAt(ch, condition, msg) == Read(ch) /\ condition /\ Fail(msg)

-----------------------------------------------------------------------------
Init ==
    /\ text = <<>> /\ nul = {} /\ buffer = 1
    /\ line_state = {}
    /\ label = 0 /\ mnemonic = 0 /\ argv = <<>>
    /\ arg_type = "UNPROCESSED"
    /\ status = "scanning"

QuoteFlag(q)  == IF q = "dquote" THEN "DOUBLE_QUOTE" ELSE "SINGLE_QUOTE"
OtherQuote(q) == IF q = "dquote" THEN "SINGLE_QUOTE" ELSE "DOUBLE_QUOTE"

\* A quote opens a string only as the first character of a field.
OpenQuote(q) ==
    /\ Read(q)
    /\ ~Has(OtherQuote(q)) /\ ~Has(QuoteFlag(q)) /\ c = buffer
    /\ line_state' = line_state \cup {QuoteFlag(q)}
    /\ arg_type' = "STRING"
    /\ buffer' = buffer + 1
    /\ UNCHANGED <<nul, status>> /\ UNCHANGED fields

CloseQuote(q) ==
    /\ Read(q)
    /\ ~Has(OtherQuote(q)) /\ Has(QuoteFlag(q))
    /\ line_state' = line_state \ {QuoteFlag(q)}
    /\ nul' = nul \cup {c}
    /\ UNCHANGED <<buffer, arg_type, status>> /\ UNCHANGED fields

MisplacedQuote(q) ==
    FailAt(q, ~Has(OtherQuote(q)) /\ ~Has(QuoteFlag(q)) /\ c # buffer,
           "Quotes must occur at the beginning of a field.")

\* The ']' case falls through to '[', which toggles the flag of both.
Bracket(ch) ==
    /\ Read(ch)
    /\ ~Bounded
    /\ ch = "rbracket" => Has("BRACKET")
    /\ line_state' = IF Has("BRACKET") THEN line_state \ {"BRACKET"}
                                       ELSE line_state \cup {"BRACKET"}
    /\ UNCHANGED <<nul, buffer, arg_type, status>> /\ UNCHANGED fields

UnexpectedBracket ==
    FailAt("rbracket", ~Bounded /\ ~Has("BRACKET"), "']' requires '[' first.")

LeadingBlankBug ==
    /\ Read("blank")
    /\ ~Bounded /\ c = buffer
    /\ UNCHANGED <<nul, buffer, line_state, arg_type, status>> /\ UNCHANGED fields

LeadingBlank ==
    /\ Read("blank")
    /\ ~Bounded /\ c = buffer
    /\ buffer' = buffer + 1
    /\ UNCHANGED <<nul, line_state, arg_type, status>> /\ UNCHANGED fields

\* The first blank after the mnemonic, or the newline, ends it.
StoreMnemonic ==
    /\ nul' = nul \cup {c}
    /\ mnemonic' = buffer
    /\ line_state' = line_state \cup {"MNEMONIC"}
    /\ buffer' = c + 1
    /\ UNCHANGED <<label, argv, arg_type, status>>

EndMnemonic == Read("blank") /\ ~Bounded /\ c # buffer /\ ~Has("MNEMONIC") /\ StoreMnemonic

StoreArgumentBug ==
    /\ argv' = Append(argv, [type |-> arg_type, str |-> buffer])
    /\ arg_type' = "UNPROCESSED"
    /\ buffer' = c + 1
    /\ UNCHANGED <<nul, line_state, label, mnemonic, status>>

\* A comma, or the newline, ends an argument.
StoreArgument ==
    /\ nul' = nul \cup {c}
    /\ argv' = Append(argv, [type |-> arg_type, str |-> buffer])
    /\ arg_type' = "UNPROCESSED"
    /\ buffer' = c + 1
    /\ UNCHANGED <<line_state, label, mnemonic, status>>

ArgvFullBug == Len(argv) > LINE_ARG_MAX

ArgvFull == Len(argv) = LINE_ARG_MAX

Comma == Read("comma") /\ ~Bounded /\ Has("MNEMONIC") /\ ~ArgvFull /\ StoreArgument

CommaFails ==
    \/ FailAt("comma", ~Bounded /\ ~Has("MNEMONIC"), "No mnemonic preceding argument.")
    \/ FailAt("comma", ~Bounded /\ Has("MNEMONIC") /\ ArgvFull, "Too many arguments provided.")

\* A newline is looked at inside brackets too.
Newline ==
    /\ Read("newline") /\ ~InQuotes
    /\ \/ ~Has("MNEMONIC") /\ StoreMnemonic
       \/ Has("MNEMONIC") /\ ~ArgvFull /\ StoreArgument

NewlineFails ==
    \/ FailAt("newline", InQuotes, "Unterminated string constant.")
    \/ FailAt("newline", ~InQuotes /\ Has("MNEMONIC") /\ ArgvFull, "Too many arguments provided.")

Colon ==
    /\ Read("colon")
    /\ ~Bounded /\ ~Has("LABEL") /\ ~Has("MNEMONIC") /\ arg_type # "STRING"
    /\ label' = buffer
    /\ nul' = nul \cup {c}
    /\ buffer' = c + 1
    /\ line_state' = line_state \cup {"LABEL"}
    /\ UNCHANGED <<mnemonic, argv, arg_type, status>>

ColonFails ==
    \/ FailAt("colon", ~Bounded /\ Has("LABEL"), "Invalid label.")
    \/ FailAt("colon", ~Bounded /\ ~Has("LABEL") /\ Has("MNEMONIC"),
              "Label must occur at the beginning of a line.")
    \/ FailAt("colon", ~Bounded /\ ~Has("LABEL") /\ ~Has("MNEMONIC") /\ arg_type = "STRING",
              "Label cannot be a string literal.")

\* ';' returns from parse_line at once, whatever the state of the line.
Semicolon ==
    /\ Read("semicolon")
    /\ status' = "returned"
    /\ UNCHANGED <<nul, buffer, line_state, arg_type>> /\ UNCHANGED fields

\* Letters, the other quote inside a string, separators inside quotes or
\* brackets, and blanks inside or after an argument change nothing.
PassOver(ch) ==
    /\ Read(ch)
    /\ \/ ch \in Letters
       \/ ch \in Quotes /\ Has(OtherQuote(ch))
       \/ ch \in {"blank", "comma", "colon", "lbracket", "rbracket"} /\ Bounded
       \/ ch = "blank" /\ c # buffer /\ Has("MNEMONIC")
    /\ UNCHANGED <<nul, buffer, line_state, arg_type, status>> /\ UNCHANGED fields

\* The terminating NUL of the buffer ends the loop.
EndOfBuffer ==
    /\ status = "scanning" /\ text # <<>>
    /\ status' = IF InQuotes THEN "Unmatched quote."
                 ELSE IF Has("BRACKET") THEN "Unmatched bracket."
                 ELSE "returned"
    /\ UNCHANGED <<text, nul, buffer, line_state, arg_type>> /\ UNCHANGED fields

\* parse_line has returned or the program has stopped in fail().
Finished == status # "scanning" /\ UNCHANGED vars

ReadQuote(q) == OpenQuote(q) \/ CloseQuote(q) \/ MisplacedQuote(q)

Next ==
    \/ \E q \in Quotes : ReadQuote(q)
    \/ \E b \in {"lbracket", "rbracket"} : Bracket(b)
    \/ UnexpectedBracket
    \/ LeadingBlank \/ EndMnemonic
    \/ Comma \/ CommaFails
    \/ Newline \/ NewlineFails
    \/ Colon \/ ColonFails
    \/ Semicolon
    \/ \E ch \in Alphabet : PassOver(ch)
    \/ EndOfBuffer
    \/ Finished

Spec == Init /\ [][Next]_vars /\ WF_vars(Next)
-----------------------------------------------------------------------------
Arg == [type : ArgTypes, str : Nat]

TypeOK ==
    /\ text \in Seq(Alphabet) /\ Len(text) < LINEBUFFERSIZE
    /\ nul \in SUBSET (1 .. Len(text))
    /\ buffer \in 1 .. Len(text) + 1
    /\ line_state \in SUBSET Flags
    /\ label \in 0 .. Len(text)
    /\ mnemonic \in 0 .. Len(text)
    /\ argv \in Seq(Arg) /\ Len(argv) <= LINE_ARG_MAX
    /\ arg_type \in ArgTypes
    /\ status \in {"scanning", "returned"} \cup Messages

\* The string at position p is ended by one of the positions in ends before
\* position q.
EndsBefore(ends, p, q) == \E e \in ends : p <= e /\ e < q
Separated(p, q)        == EndsBefore(nul, p, q)

\* The label, the mnemonic and the arguments point at disjoint strings, in
\* the order they have on the line: each is terminated before the next one
\* starts, and the last one before the field that is being read.  The code
\* relies on it whenever it uses one of them as a C string.
FieldsSeparated ==
    /\ label # 0 => Separated(label, IF mnemonic # 0 THEN mnemonic ELSE buffer)
    /\ mnemonic # 0 => Separated(mnemonic, buffer)
    /\ \A i \in DOMAIN argv :
          /\ mnemonic # 0 /\ Separated(mnemonic, argv[i].str)
          /\ Separated(argv[i].str, buffer)
          /\ \A j \in DOMAIN argv : i < j => Separated(argv[i].str, argv[j].str)

=============================================================================
