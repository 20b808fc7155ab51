--------------------------- MODULE AssemblerInline ---------------------------
(***************************************************************************)
(* Assembler implements InlineAssembly: the refinement mapping, for the    *)
(* programs without .ARCH whose input files all exist and whose lines      *)
(* store the argument their pseudo operation reads.                        *)
(***************************************************************************)
EXTENDS Assembler, SequencesExt

LabelStatement(l) ==
    IF l.label = {} THEN <<>>
    ELSE <<[op |-> "label", label |-> CHOOSE k \in l.label : TRUE]>>

Bytes(n) == [op |-> "bytes", count |-> n]
Error    == <<[op |-> "error"]>>

ArgBytes(l, arg) ==
    Bytes(IF arg.type = "STRING" THEN Strlen[arg.str] ELSE Width[l.mnemonic])

\* The statements a parsed line's mnemonic stands for, when p files are open;
\* included gives those of the files that can be included.  An .INCLUDE that
\* cannot be followed stands for none.
MnemonicStatements(l, p, included) ==
    LET str    == l.argv[1].str
        string == l.argv[1].type = "STRING"
    IN  CASE l.mnemonic \in Data ->
               [k \in DOMAIN l.argv |-> ArgBytes(l, l.argv[k])]
          [] l.mnemonic = "EQU" ->
               IF l.label # {} /\ Len(l.argv) = 1 /\ str \in DOMAIN Value
               THEN <<[op |-> "equ", value |-> Value[str]]>> ELSE Error
          [] l.mnemonic = "INCLUDE" ->
               IF string /\ str \in DOMAIN included THEN included[str] ELSE <<>>
          [] l.mnemonic = "INSERT" ->
               IF string /\ str \in DOMAIN RawSize /\ p < OPEN_MAX
               THEN <<Bytes(RawSize[str])>> ELSE Error
          [] l.mnemonic = "ORG" ->
               IF str \in DOMAIN Value
               THEN <<[op |-> "origin", value |-> Value[str]]>> ELSE Error
          [] l.mnemonic = "unknown" -> Error
          [] OTHER -> <<>>

LineStatements(l, p, included) ==
    IF Overflows(l, LINE_ARG_MAX) THEN Error
    ELSE LabelStatement(l) \o MnemonicStatements(Parsed(l), p, included)

\* Those of the sequences s from the n-th on, put together.
From(s, n) == FlattenSeq(SubSeq(s, n, Len(s)))

\* For every file, as the p-th file open, and every n: the statements of its
\* lines from the n-th on.
FilesAt(p, included) ==
    [f \in DOMAIN program |->
        LET lines == [k \in DOMAIN program[f] |-> LineStatements(program[f][k], p, included)]
        IN  [n \in 1 .. Len(lines) + 1 |-> From(lines, n)]]

\* The statements of whole files.
Whole(files) == [f \in DOMAIN files |-> files[f][1]]

\* With included files written out, down to the last that can be opened.
Expansion[p \in 1 .. OPEN_MAX] ==
    FilesAt(p, IF p = OPEN_MAX THEN <<>> ELSE Whole(Expansion[p + 1]))

\* An auxiliary variable holds it: program never changes.
VARIABLE inlined

InlineInit == Init /\ inlined = Expansion
InlineNext == Next /\ UNCHANGED inlined
InlineSpec == InlineInit /\ [][InlineNext]_<<vars, inlined>>

\* The files the p-th open file can include.
Included(p) == IF p = OPEN_MAX THEN <<>> ELSE Whole(inlined[p + 1])

\* What is left of the current line, of the lines after it in the active
\* calls, and of the input files.
LineTodo ==
    LET rest == MnemonicStatements(line, Len(ctx), Included(Len(ctx)))
    IN  CASE phase = "label"    -> LabelStatement(line) \o rest
          [] phase = "evaluate" -> SubSeq(rest, i + 1, Len(rest))
          [] phase = "insert"   -> IF size = 0 THEN <<>> ELSE <<Bytes(size)>>
          [] OTHER              -> <<>>

CallTodo(p) == inlined[p][ctx[p].file][ctx[p].line_num + 1]
CallsTodo   == FlattenSeq(Reverse([p \in DOMAIN ctx |-> CallTodo(p)]))

InputsTodo(n) == From([k \in DOMAIN Inputs |-> inlined[1][Inputs[k]][1]], n)

Todo == LineTodo \o (CallsTodo \o InputsTodo(next_input))

Outcome == CASE status = "running"   -> "running"
             [] status = "succeeded" -> "assembled"
             [] OTHER                -> "stopped"

Names == [n \in DOMAIN symtab |->
             [label |-> symtab[n].label, value |-> Masked(symtab[n].value)]]

Addresses(entry) == [j \in 1 .. entry.bytec |-> Masked(entry.address + j - 1)]
Image            == FlattenSeq([n \in DOMAIN datatab |-> Addresses(datatab[n])])

Inline == INSTANCE InlineAssembly WITH
    Space    <- AddressSpace[DefaultArch],
    source   <- InputsTodo(1),
    todo     <- Todo,
    outcome  <- Outcome,
    names    <- Names,
    scope    <- last_parent,
    location <- Masked(address),
    image    <- Image

\* The programs the text of which says what is to be done: nothing switches
\* the processor, no file of the command line is missing, and no handler reads
\* an argument that its line does not store.
Inlinable ==
    /\ EVALUATE
    /\ \A p \in Programs :
          /\ \A n \in DOMAIN Inputs : Inputs[n] \in DOMAIN p
          /\ \A f \in DOMAIN p : \A n \in DOMAIN p[f] :
                /\ p[f][n].mnemonic # "ARCH"
                /\ p[f][n].mnemonic \in {"ORG", "INCLUDE", "INSERT"} =>
                      StoredArgs(p[f][n]) # <<>>

\* Whatever the nesting of files, calls and chunks, the symbols and the bytes
\* are those of the single text with every included file in place of its
\* .INCLUDE line ("assemble it as though it was inline"), up to masking.
AssemblesInline == Inline!Spec
=============================================================================
