--------------------------- MODULE AssemblerProofs ---------------------------
(***************************************************************************)
(* Theorems about the assembly pass, for all programs, architectures and   *)
(* limits: TypeOK, UniqueSymbols, ScopeIsLastGlobal, StreamsBalanced,      *)
(* OnlyEquRedefines, DataTiles and LabelNamesData; for the program as      *)
(* built, which texts it accepts and what it then has entered:             *)
(* AcceptsExactlyClean and EntersEveryLabel; and for the program with its  *)
(* handlers enabled, that it implements InlineAssembly.                    *)
(*                                                                         *)
(* The state falls into four parts.  Few actions change each; the frame    *)
(* lemmas of the first section say which, once, and every invariance proof *)
(* looks at those actions only.                                            *)
(***************************************************************************)
EXTENDS AcceptedPrograms, AssemblerInline, StackLemmas, FiniteSetTheorems,
        SequenceTheorems, TLAPS

\* Only two actions write the symbol table.
LEMMA SymbolsFrame ==
    ASSUME [Next]_vars
    PROVE  AddLabel \/ Equ \/ UNCHANGED symbols
<1>1. CASE Main
  BY <1>1 DEF Main, OpenInput, InputMissing, Finish, Stop
<1>2. CASE Assemble
  BY <1>2 DEF Assemble, ReadLine, TooManyArguments, EndOfFile, LabelError, NoLabel,
              NoMnemonic, InvalidMnemonic, NotEvaluated, Fail, Stop
<1>3. CASE Handler
  BY <1>3 DEF Handler, WildArgument, NoEffect, SetData, SetDataReturns, EquError,
              Include, IncludeSkipped, Insert, InsertError, InsertChunk,
              InsertReturns, Org, OrgError, SetArch, SetArchError, Fail, Stop, symbols
<1>4. CASE Ended \/ UNCHANGED vars
  BY <1>4 DEF Ended, vars, symbols
<1> QED BY <1>1, <1>2, <1>3, <1>4 DEF Next

\* Four actions write the location counter, the data table or the target.
LEMMA ImageFrame ==
    ASSUME [Next]_vars
    PROVE  SetData \/ InsertChunk \/ Org \/ SetArch \/ UNCHANGED <<image, target>>
<1>1. CASE Main
  BY <1>1 DEF Main, OpenInput, InputMissing, Finish, Stop
<1>2. CASE Assemble
  BY <1>2 DEF Assemble, ReadLine, TooManyArguments, EndOfFile, AddLabel, LabelError,
              NoLabel, NoMnemonic, InvalidMnemonic, NotEvaluated, Fail, Stop
<1>3. CASE Handler
  BY <1>3 DEF Handler, WildArgument, NoEffect, SetDataReturns, Equ, EquError,
              Include, IncludeSkipped, Insert, InsertError, InsertReturns,
              OrgError, SetArchError, Fail, Stop
<1>4. CASE Ended \/ UNCHANGED vars
  BY <1>4 DEF Ended, vars, image, target
<1> QED BY <1>1, <1>2, <1>3, <1>4 DEF Next

\* What happens to the parsed line and the handlers' loop variables.
LEMMA HandlerFrame ==
    ASSUME [Next]_vars
    PROVE  \/ ReadLine \/ SetData \/ Insert \/ InsertChunk
           \/ NextLine
           \/ /\ UNCHANGED handler
              /\ \/ phase' = phase
                 \/ phase \in {"main", "read"} /\ phase' \in {"main", "read"}
                 \/ phase = "label" /\ phase' = "evaluate" /\ (AddLabel \/ NoLabel)
<1>1. CASE Main
  BY <1>1 DEF Main, OpenInput, InputMissing, Finish, Stop, In
<1>2. CASE Assemble
  BY <1>2 DEF Assemble, TooManyArguments, EndOfFile, AddLabel, LabelError,
              NoLabel, NoMnemonic, InvalidMnemonic, NotEvaluated, Fail, Stop, In, Caller
<1>3. CASE Handler
  BY <1>3 DEF Handler, WildArgument, NoEffect, SetDataReturns, Equ, EquError,
              Include, IncludeSkipped, InsertError, InsertReturns,
              Org, OrgError, SetArch, SetArchError, Fail, Stop
<1>4. CASE Ended \/ UNCHANGED vars
  BY <1>4 DEF Ended, vars, handler
<1> QED BY <1>1, <1>2, <1>3, <1>4 DEF Next

\* Six actions start or end a call, read a line or open or close a file.  All
\* others leave the calls alone, and end the process or stay in the call.
LEMMA CallsFrame ==
    ASSUME [Next]_vars
    PROVE  \/ OpenInput \/ ReadLine \/ EndOfFile \/ Include \/ Insert \/ InsertReturns
           \/ /\ UNCHANGED <<input, calls>>
              /\ \/ status' = status
                 \/ status' \in {"died", "crashed"}
                 \/ status' = "succeeded" /\ phase = "main"
              /\ \/ phase' = phase
                 \/ phase \in {"label", "evaluate"} /\ phase' \in {"read", "evaluate"}
<1>1. CASE Main
  BY <1>1 DEF Main, InputMissing, Finish, Stop, In
<1>2. CASE Assemble
  BY <1>2 DEF Assemble, TooManyArguments, AddLabel, LabelError,
              NoLabel, NoMnemonic, InvalidMnemonic, NotEvaluated, Fail, Stop, In, NextLine
<1>3. CASE Handler
  BY <1>3 DEF Handler, WildArgument, NoEffect, SetData, SetDataReturns, Equ, EquError,
              IncludeSkipped, InsertError, InsertChunk,
              Org, OrgError, SetArch, SetArchError, Fail, Stop, In, Evaluating, NextLine
<1>4. CASE Ended \/ UNCHANGED vars
  BY <1>4 DEF Ended, vars, input, calls
<1> QED BY <1>1, <1>2, <1>3, <1>4 DEF Next

-----------------------------------------------------------------------------
(* The inductive invariant: TypeOK with what its parts need of each other. *)

\* The open files are counted exactly, or the fclose of a call could not be
\* shown to leave a natural number.
CallsOK ==
    /\ program \in Programs
    /\ status \in {"running", "succeeded", "died", "crashed"}
    /\ next_input \in 1 .. Len(Inputs) + 1
    /\ ctx \in Seq(Frames)
    /\ \A n \in DOMAIN ctx : /\ ctx[n].file \in DOMAIN program
                             /\ ctx[n].line_num <= Len(program[ctx[n].file])
    /\ phase \in {"main", "read", "label", "evaluate", "insert"}
    /\ phase = "main" <=> ctx = <<>>
    /\ StreamsBalanced

\* A line is parsed with i back at 0, so i counts arguments of this line.
LineOK ==
    /\ line \in ParsedLines /\ OneLabel(line) /\ Len(line.argv) <= LINE_ARG_MAX
    /\ i \in 0 .. Len(line.argv) /\ size \in Nat
    /\ phase \in {"main", "read", "label"} => i = 0

\* While a line's mnemonic is evaluated, its label is the last symbol, under
\* the name it would still resolve to: what .EQU takes for granted.
SymbolsOK ==
    /\ symtab \in Seq(Symbol) /\ last_parent \in Seq(Parts)
    /\ phase = "evaluate" =>
          \A l \in line.label : /\ symtab # <<>>
                                /\ symtab[Len(symtab)].label = Resolved(l)

ImageOK ==
    /\ address \in 0 .. SIZE_MODULUS - 1
    /\ arch \in Architectures
    /\ address_mask = IF EVALUATE THEN AddressMask(arch) ELSE 0
    /\ datatab \in Seq(DataSet)

TypeInv == CallsOK /\ LineOK /\ SymbolsOK /\ ImageOK

LEMMA TypeInvImplies == TypeInv => TypeOK /\ StreamsBalanced
<1> SUFFICES ASSUME TypeInv PROVE TypeOK /\ StreamsBalanced
  OBVIOUS
<1>1. Len(ctx) \in Nat /\ open \in Nat
  BY LenProperties DEF TypeInv, CallsOK, StreamsBalanced
<1> QED BY <1>1 DEF TypeInv, TypeOK, CallsOK, LineOK, SymbolsOK, ImageOK

\* The arguments kept of a line are arguments.
LEMMA StoredArgsType ==
    ASSUME NEW L, NEW M, NEW T, NEW l \in SourceLines(L, M, T)
    PROVE  StoredArgs(l) \in Seq([type : ArgTypes, str : T])
<1> DEFINE A == [type : ArgTypes, str : T]
<1>1. l.args \in Seq(A)
  BY DEF SourceLines
<1> HIDE DEF A
<1>2. Len(l.args) \in Nat /\ \A n \in 1 .. Len(l.args) : l.args[n] \in A
  BY <1>1, LenProperties, ElementOfSeq
<1>3. SubSeq(l.args, 1, Len(l.args) - 1) \in Seq(A)
  BY <1>2, SubSeqProperties
<1> QED BY <1>1, <1>3 DEF StoredArgs, A

\* The innermost call is one, and its next line a source line.
LEMMA TopCall ==
    ASSUME CallsOK, ctx # <<>>
    PROVE  /\ Len(ctx) \in Nat \ {0} /\ Top \in Frames
           /\ Top.file \in DOMAIN program /\ Top.line_num <= Len(program[Top.file])
<1>1. Len(ctx) \in Nat \ {0} /\ DOMAIN ctx = 1 .. Len(ctx)
  BY EmptySeq, LenProperties DEF CallsOK
<1> QED BY <1>1, ElementOfSeq DEF CallsOK, Top

LEMMA TextLineType ==
    ASSUME CallsOK, ctx # <<>>, HasLine
    PROVE  TextLine \in Lines /\ OneLabel(TextLine)
<1> DEFINE source == program[Top.file]
<1>1. /\ Top.line_num \in Nat /\ Top.file \in DOMAIN program
      /\ Top.line_num < Len(source)
  BY TopCall DEF Frames, HasLine
<1>2. source \in Seq(Lines) /\ \A n \in DOMAIN source : OneLabel(source[n])
  BY <1>1, ProgramsAssumption DEF CallsOK
<1>3. TextLine = source[Top.line_num + 1]
  BY DEF TextLine
<1> HIDE DEF source
<1> QED BY <1>1, <1>2, <1>3, ElementOfSeq, LenProperties

LEMMA FirstOfSeq ==
    ASSUME NEW S, NEW s \in Seq(S), s # <<>>
    PROVE  s[1] \in S
BY EmptySeq, ElementOfSeq

LEMMA Argv0Type ==
    ASSUME CallsOK, LineOK, ctx # <<>>
    PROVE  \A arg \in Argv0 : arg \in [type : ArgTypes, str : Texts]
<1>1. CASE line.argv # <<>>
  <2>1. line.argv \in Seq([type : ArgTypes, str : Texts])
    BY DEF LineOK, ParsedLines
  <2>2. line.argv[1] \in [type : ArgTypes, str : Texts]
    BY <1>1, <2>1, FirstOfSeq
  <2> QED BY <1>1, <2>2 DEF Argv0
<1>2. CASE line.argv = <<>>
  BY <1>2, TopCall DEF Argv0, Frames
<1> QED BY <1>1, <1>2

-----------------------------------------------------------------------------
LEMMA CallsStep ==
    ASSUME CallsOK, LineOK, [Next]_vars
    PROVE  CallsOK'
<1> USE DEF CallsOK, StreamsBalanced
<1>0. Len(ctx) \in Nat
  BY LenProperties
<1>1. CASE OpenInput
  <2>1. Inputs[next_input] \in DOMAIN program /\ Inputs[next_input] \in Texts
    BY <1>1, ProgramsAssumption, ElementOfSeq DEF OpenInput
  <2>2. ctx = <<>> /\ open = 0
    BY <1>1, <1>0, EmptySeq DEF OpenInput, In
  <2>3. /\ ctx' = <<Frame(Inputs[next_input])>> /\ Frame(Inputs[next_input]) \in Frames
        /\ Frame(Inputs[next_input]).file = Inputs[next_input]
        /\ Frame(Inputs[next_input]).line_num = 0
    BY <1>1, <2>1 DEF OpenInput, Frame, Frames
  <2>4. \A f \in DOMAIN program : Len(program[f]) \in Nat
    BY ProgramsAssumption, LenProperties
  <2>5. open' = 1 /\ OPEN_MAX >= 1
    BY <1>1, <2>2, SizesAssumption DEF OpenInput, Fopen
  <2>6. next_input + 1 \in 1 .. Len(Inputs) + 1
    BY <1>1, ProgramsAssumption, LenProperties DEF OpenInput
  <2> QED BY <1>1, <2>1, <2>2, <2>3, <2>4, <2>5, <2>6 DEF OpenInput, In
<1>2. CASE ReadLine
  <2>1. ctx # <<>> /\ HasLine
    BY <1>2 DEF ReadLine, In
  <2>2. StoredArgs(TextLine) \in Seq([type : ArgTypes, str : Texts])
    BY <2>1, TextLineType, StoredArgsType DEF Lines
  <2>3. StoredArgs(TextLine) # <<>> => StoredArgs(TextLine)[1] \in [type : ArgTypes, str : Texts]
    BY <2>2, FirstOfSeq
  <2>4. /\ LineRead \in Frames /\ LineRead.file = Top.file
        /\ LineRead.line_num <= Len(program[Top.file])
    <3>1. Len(program[Top.file]) \in Nat
      BY <2>1, TopCall, ProgramsAssumption, LenProperties
    <3>2. /\ Top.file \in Texts /\ Top.line_num \in Nat
          /\ Top.argv0 \in ArgTypes \cup {"unset"}
      BY <2>1, TopCall DEF Frames
    <3> QED BY <2>1, <2>3, <3>1, <3>2 DEF Frames, HasLine, LineRead
  <2>5. ctx' = [ctx EXCEPT ![Len(ctx)] = LineRead]
    BY <1>2 DEF ReadLine
  <2>6. Len(ctx) \in 1 .. Len(ctx)
    BY <2>1, TopCall
  <2>7. /\ ctx' \in Seq(Frames) /\ Len(ctx') = Len(ctx) /\ DOMAIN ctx' = DOMAIN ctx
        /\ \A n \in DOMAIN ctx : ctx'[n] = IF n = Len(ctx) THEN LineRead ELSE ctx[n]
    BY <2>4, <2>5, <2>6, ExceptSeq, LenProperties
  <2>8. ctx' # <<>>
    BY <2>1, <2>7, EmptySeq
  <2>9. \A n \in DOMAIN ctx' : /\ ctx'[n].file \in DOMAIN program
                               /\ ctx'[n].line_num <= Len(program[ctx'[n].file])
    BY <2>1, <2>4, <2>7, TopCall
  <2> QED BY <1>2, <2>1, <2>7, <2>8, <2>9 DEF ReadLine, In, input
<1>3. CASE EndOfFile
  <2>1. ctx # <<>> /\ open = Len(ctx) /\ Len(ctx) \in Nat \ {0}
    BY <1>3, TopCall DEF EndOfFile, In
  <2>2. \A n \in 1 .. Len(ctx) - 1 : ctx[n] \in Frames /\ n \in DOMAIN ctx
    BY <2>1, ElementOfSeq, LenProperties
  <2>3. /\ ctx' \in Seq(Frames) /\ Len(ctx') = Len(ctx) - 1
        /\ \A n \in 1 .. Len(ctx) - 1 : ctx'[n] = ctx[n]
    BY <1>3, <2>1, <2>2, SubSeqProperties DEF EndOfFile
  <2>4. DOMAIN ctx' = 1 .. Len(ctx) - 1 /\ (ctx' = <<>> <=> Len(ctx) = 1)
    BY <2>1, <2>3, LenProperties, EmptySeq
  <2>5. open' = Len(ctx')
    BY <1>3, <2>1, <2>3 DEF EndOfFile, Fclose
  <2>6. phase' = IF Len(ctx) = 1 THEN "main" ELSE "read"
    BY <1>3 DEF EndOfFile, Caller
  <2>7. StreamsBalanced'
    BY <1>3, <2>1, <2>3, <2>5, <2>6, SizesAssumption DEF EndOfFile, In
  <2>8. UNCHANGED <<program, next_input, status>>
    BY <1>3 DEF EndOfFile, input
  <2> HIDE DEF StreamsBalanced
  <2> QED BY <2>1, <2>2, <2>3, <2>4, <2>6, <2>7, <2>8
<1>4. CASE Include
  <2>1. ctx # <<>> /\ open = Len(ctx)
    BY <1>4 DEF Include, Evaluating, In
  <2>2. PICK arg \in Argv0 : CanInclude(arg) /\ ctx' = Append(ctx, Frame(arg.str))
    BY <1>4 DEF Include
  <2>3. /\ arg.str \in DOMAIN program /\ arg.str \in Texts /\ open < OPEN_MAX
        /\ Frame(arg.str) \in Frames
        /\ Frame(arg.str).file = arg.str /\ Frame(arg.str).line_num = 0
    BY <2>1, <2>2, Argv0Type DEF CanInclude, Frame, Frames
  <2>4. \A f \in DOMAIN program : Len(program[f]) \in Nat
    BY ProgramsAssumption, LenProperties
  <2>5. /\ ctx' \in Seq(Frames) /\ ctx' # <<>> /\ Len(ctx') = Len(ctx) + 1
        /\ \A n \in DOMAIN ctx' : (n \in DOMAIN ctx /\ ctx'[n] = ctx[n])
                                  \/ ctx'[n] = Frame(arg.str)
    BY <2>2, <2>3, AppendProperties, LenProperties
  <2>6. \A n \in DOMAIN ctx' : /\ ctx'[n].file \in DOMAIN program
                               /\ ctx'[n].line_num <= Len(program[ctx'[n].file])
    BY <2>3, <2>4, <2>5
  <2>7. open' = Len(ctx') /\ open' <= OPEN_MAX
    BY <1>4, <1>0, <2>1, <2>3, <2>5, SizesAssumption DEF Include, Fopen
  <2> QED BY <1>4, <2>1, <2>5, <2>6, <2>7 DEF Include, Evaluating, In, NextLine, input
<1>5. CASE Insert
  <2>1. ctx # <<>> /\ open = Len(ctx) /\ open < OPEN_MAX
    BY <1>5 DEF Insert, Evaluating, In, CanInsert
  <2> QED BY <1>5, <1>0, <2>1, SizesAssumption DEF Insert, Fopen, Evaluating, In, input
<1>6. CASE InsertReturns
  BY <1>6, <1>0, SizesAssumption DEF InsertReturns, Fclose, NextLine, In, input
<1>7. CASE /\ UNCHANGED <<input, calls>>
           /\ \/ status' = status
              \/ status' \in {"died", "crashed"}
              \/ status' = "succeeded" /\ phase = "main"
           /\ \/ phase' = phase
              \/ phase \in {"label", "evaluate"} /\ phase' \in {"read", "evaluate"}
  BY <1>7, EmptySeq DEF input, calls
<1> QED BY <1>1, <1>2, <1>3, <1>4, <1>5, <1>6, <1>7, CallsFrame

LEMMA NoLineType == NoLine \in ParsedLines /\ OneLabel(NoLine) /\ Len(NoLine.argv) = 0
<1>1. <<>> \in Seq([type : ArgTypes, str : Texts]) /\ Len(<<>>) = 0
  BY EmptySeq
<1> QED BY <1>1 DEF NoLine, ParsedLines, Mnemonics, OneLabel

LEMMA LineStep ==
    ASSUME CallsOK, LineOK, [Next]_vars
    PROVE  LineOK'
<1> USE DEF LineOK
<1>1. CASE ReadLine
  <2>1. /\ ctx # <<>> /\ HasLine /\ i = 0 /\ i' = 0 /\ size' = size
        /\ line' = Parsed(TextLine) /\ ~Overflows(TextLine, LINE_ARG_MAX)
    BY <1>1 DEF ReadLine, In, CallsOK
  <2>2. TextLine \in Lines /\ OneLabel(TextLine)
    BY <2>1, TextLineType
  <2>3. StoredArgs(TextLine) \in Seq([type : ArgTypes, str : Texts])
    BY <2>2, StoredArgsType DEF Lines
  <2>4. StoredMnemonic(TextLine, "") \in Mnemonics
    BY <2>2 DEF Lines, SourceLines, StoredMnemonic, Mnemonics
  <2>5. line' \in ParsedLines /\ OneLabel(line')
    BY <2>1, <2>2, <2>3, <2>4 DEF Parsed, ParsedLines, Lines, SourceLines, OneLabel
  <2>6. Len(line'.argv) \in Nat /\ Len(line'.argv) <= LINE_ARG_MAX
    <3>1. line'.argv = StoredArgs(TextLine)
      BY <2>1 DEF Parsed
    <3>2. Len(StoredArgs(TextLine)) \in Nat
      BY <2>3, LenProperties
    <3> QED BY <2>1, <3>1, <3>2, SizesAssumption DEF Overflows
  <2> QED BY <2>1, <2>5, <2>6 DEF OneLabel
<1>2. CASE SetData
  BY <1>2 DEF SetData, Evaluating, In
<1>3. CASE Insert
  BY <1>3, TextsAssumption DEF Insert, CanInsert
<1>4. CASE InsertChunk
  BY <1>4, SizesAssumption DEF InsertChunk, ChunkSize, In
<1>5. CASE NextLine
  BY <1>5, NoLineType, SizesAssumption DEF NextLine, OneLabel
<1>6. CASE /\ UNCHANGED handler
           /\ \/ phase' = phase
              \/ phase \in {"main", "read"} /\ phase' \in {"main", "read"}
              \/ phase = "label" /\ phase' = "evaluate" /\ (AddLabel \/ NoLabel)
  BY <1>6 DEF handler, OneLabel
<1> QED BY <1>1, <1>2, <1>3, <1>4, <1>5, <1>6, HandlerFrame

\* A label that can be entered has a name.
LEMMA ResolvedType ==
    ASSUME SymbolsOK, NEW l \in Labels
    PROVE  Resolved(l) \in Paths /\ Parent(l) \in Seq(Parts)
BY ConcatProperties, EmptySeq, LenProperties
DEF SymbolsOK, Labels, Paths, Resolved, Parent

\* .EQU writes the value of the last symbol and nothing else.
LEMMA EquWrites ==
    ASSUME LineOK, SymbolsOK, Equ
    PROVE  /\ symtab # <<>> /\ symtab' \in Seq(Symbol) /\ Len(symtab') = Len(symtab)
           /\ UNCHANGED <<last_parent, DOMAIN symtab>>
           /\ \A n \in DOMAIN symtab : /\ symtab'[n].label = symtab[n].label
                                       /\ n # Len(symtab) => symtab'[n] = symtab[n]
<1> DEFINE value == Value[line.argv[1].str]
           last  == [symtab[Len(symtab)] EXCEPT !.value = value]
<1>1. value \in Int
  BY TextsAssumption DEF Equ, CanEqu
<1>2. symtab' = [symtab EXCEPT ![Len(symtab)] = last]
  BY DEF Equ
<1> HIDE DEF value
<1>3. symtab \in Seq(Symbol) /\ Len(symtab) \in Nat /\ DOMAIN symtab = 1 .. Len(symtab)
  BY LenProperties DEF SymbolsOK
<1>4. symtab # <<>>
  BY DEF Equ, Evaluating, In, CanEqu, SymbolsOK
<1>5. Len(symtab) \in 1 .. Len(symtab) /\ symtab[Len(symtab)] \in Symbol
  BY <1>3, <1>4, EmptySeq, ElementOfSeq
<1>6. last \in Symbol /\ last.label = symtab[Len(symtab)].label
  BY <1>1, <1>5 DEF Symbol
<1> HIDE DEF last
<1>7. /\ symtab' \in Seq(Symbol) /\ Len(symtab') = Len(symtab)
      /\ \A n \in 1 .. Len(symtab) : symtab'[n] = IF n = Len(symtab) THEN last ELSE symtab[n]
  BY <1>2, <1>3, <1>5, <1>6, ExceptSeq
<1>8. DOMAIN symtab' = DOMAIN symtab
  BY <1>3, <1>7, LenProperties
<1> QED BY <1>3, <1>4, <1>6, <1>7, <1>8 DEF Equ

\* AddLabel's symbol is the line's only label's, and comes last.
LEMMA AddLabelWrites ==
    ASSUME LineOK, SymbolsOK, ImageOK, AddLabel
    PROVE  \E l \in line.label :
              /\ l \in Labels /\ ~Orphan(l) /\ ~Defined(Resolved(l))
              /\ \A m \in line.label : m = l
              /\ symtab' \in Seq(Symbol) /\ Len(symtab') = Len(symtab) + 1
              /\ \A n \in 1 .. Len(symtab) : symtab'[n] = symtab[n]
              /\ symtab'[Len(symtab) + 1].label = Resolved(l)
              /\ last_parent' = Parent(l) /\ last_parent' \in Seq(Parts)
<1>1. PICK l \in line.label :
         /\ ~Orphan(l) /\ ~Defined(Resolved(l))
         /\ symtab' = Append(symtab, [label |-> Resolved(l), value |-> address])
         /\ last_parent' = Parent(l)
  BY DEF AddLabel
<1>2. l \in Labels /\ \A m \in line.label : m = l
  BY DEF LineOK, ParsedLines, OneLabel
<1>3. [label |-> Resolved(l), value |-> address] \in Symbol
  BY <1>2, ResolvedType, SizesAssumption DEF Symbol, ImageOK
<1>4. /\ symtab' \in Seq(Symbol) /\ Len(symtab') = Len(symtab) + 1
      /\ \A n \in 1 .. Len(symtab) : symtab'[n] = symtab[n]
      /\ symtab'[Len(symtab) + 1] = [label |-> Resolved(l), value |-> address]
  BY <1>1, <1>3, AppendProperties DEF SymbolsOK
<1> QED BY <1>1, <1>2, <1>4, ResolvedType

LEMMA SymbolsStep ==
    ASSUME LineOK, SymbolsOK, ImageOK, [Next]_vars
    PROVE  SymbolsOK'
<1>1. CASE AddLabel
  <2>1. PICK l \in line.label :
           /\ l \in Labels /\ ~Orphan(l) /\ \A m \in line.label : m = l
           /\ symtab' \in Seq(Symbol) /\ Len(symtab') = Len(symtab) + 1
           /\ symtab'[Len(symtab) + 1].label = Resolved(l)
           /\ last_parent' = Parent(l) /\ last_parent' \in Seq(Parts)
    BY <1>1, AddLabelWrites
  <2>2. line' = line
    BY <1>1 DEF AddLabel, handler
  <2>3. Resolved(l)' = Resolved(l)
    BY <2>1 DEF Resolved, Parent
  <2>4. symtab' # <<>>
    BY <2>1, EmptySeq, LenProperties DEF SymbolsOK
  <2>5. \A m \in line'.label : symtab'[Len(symtab')].label = Resolved(m)'
    BY <2>1, <2>2, <2>3
  <2> QED BY <2>1, <2>4, <2>5 DEF SymbolsOK
<1>2. CASE Equ
  BY <1>2, EquWrites DEF SymbolsOK, Equ, NextLine
<1>3. CASE UNCHANGED symbols /\ ~AddLabel
  <2>1. phase' # "evaluate" \/ (line' = line /\ (phase = "evaluate" \/ line.label = {}))
    <3>1. CASE ReadLine \/ Insert \/ NextLine
      BY <3>1 DEF ReadLine, Insert, NextLine
    <3>4. CASE InsertChunk
      BY <3>4 DEF InsertChunk, In
    <3>2. CASE SetData
      BY <3>2 DEF SetData, Evaluating, In
    <3>3. CASE /\ UNCHANGED handler
               /\ \/ phase' = phase
                  \/ phase \in {"main", "read"} /\ phase' \in {"main", "read"}
                  \/ phase = "label" /\ phase' = "evaluate" /\ (AddLabel \/ NoLabel)
      <4>1. line' = line
        BY <3>3 DEF handler
      <4>2. NoLabel => line.label = {}
        BY DEF NoLabel
      <4>3. phase' = "evaluate" => phase = "evaluate" \/ line.label = {}
        BY <1>3, <3>3, <4>2
      <4> QED BY <4>1, <4>3
    <3> QED BY <3>1, <3>2, <3>3, <3>4, HandlerFrame
  <2>2. symtab' = symtab /\ last_parent' = last_parent
    BY <1>3 DEF symbols
  <2>3. \A l : Resolved(l)' = Resolved(l)
    BY <2>2 DEF Resolved
  <2>4. phase' = "evaluate" =>
           \A l \in line'.label : /\ symtab' # <<>>
                                  /\ symtab'[Len(symtab')].label = Resolved(l)'
    BY <2>1, <2>2, <2>3 DEF SymbolsOK
  <2> QED BY <2>2, <2>4 DEF SymbolsOK
<1> QED BY <1>1, <1>2, <1>3, SymbolsFrame

-----------------------------------------------------------------------------
\* The mask and one more is a divisor the location counter cannot exceed.
LEMMA Modulo ==
    ASSUME NEW a \in Int, NEW b \in Nat \ {0}
    PROVE  a % b \in 0 .. b - 1
OBVIOUS

LEMMA MaskInRange ==
    ASSUME ImageOK, NEW n \in Int
    PROVE  /\ address_mask + 1 \in 1 .. SIZE_MODULUS
           /\ Masked(n) \in 0 .. SIZE_MODULUS - 1 /\ Advance(n) \in 0 .. SIZE_MODULUS - 1
<1>1. SIZE_MODULUS \in Nat \ {0}
  BY SizesAssumption
<1>2. AddressSpace[arch] \in Nat \ {0} /\ SIZE_MODULUS % AddressSpace[arch] = 0
  BY SizesAssumption DEF ImageOK
<1>3. AddressSpace[arch] <= SIZE_MODULUS
  <2>1. \A a, b \in Nat \ {0} : a < b => a % b = a
    OBVIOUS
  <2> QED BY <1>1, <1>2, <2>1
<1>4. address_mask + 1 \in 1 .. SIZE_MODULUS /\ address_mask \in Nat
  BY <1>1, <1>2, <1>3 DEF ImageOK, AddressMask
<1>5. Masked(n) \in 0 .. address_mask
  <2>1. n % (address_mask + 1) \in 0 .. (address_mask + 1) - 1
    BY <1>1, <1>4, Modulo
  <2> QED BY <1>4, <2>1 DEF Masked
<1>6. Advance(n) \in 0 .. SIZE_MODULUS - 1
  BY <1>1, Modulo DEF Advance, ImageOK
<1> QED BY <1>1, <1>4, <1>5, <1>6

\* An entry is added and the location counter moves, both within range.
LEMMA AddDataType ==
    ASSUME ImageOK, NEW a \in Nat, NEW n \in Nat, NEW type \in {"BYTES", "EXPRESSION"},
           AddData(a, n, type)
    PROVE  datatab' \in Seq(DataSet) /\ address' \in 0 .. SIZE_MODULUS - 1
<1> DEFINE entry == [address |-> a, bytec |-> n, type |-> type]
<1>1. entry \in DataSet /\ datatab' = Append(datatab, entry) /\ address' = Advance(n)
  BY DEF DataSet, AddData
<1> HIDE DEF entry
<1> QED BY <1>1, MaskInRange, AppendProperties DEF ImageOK

LEMMA ImageStep ==
    ASSUME LineOK, ImageOK, [Next]_vars
    PROVE  ImageOK'
<1>0. address \in Nat
  BY SizesAssumption DEF ImageOK
<1>1. CASE SetData
  <2> DEFINE arg == line.argv[i + 1]
  <2>1. arg.str \in Texts
    <3>1. line.argv \in Seq([type : ArgTypes, str : Texts])
      BY DEF LineOK, ParsedLines
    <3>2. i + 1 \in 1 .. Len(line.argv)
      BY <1>1, <3>1, LenProperties DEF SetData, LineOK
    <3>3. arg \in [type : ArgTypes, str : Texts]
      BY <3>1, <3>2, ElementOfSeq
    <3> HIDE DEF arg
    <3> QED BY <3>3
  <2>2. Strlen[arg.str] \in Nat /\ Width[line.mnemonic] \in Nat
    <3>1. \A m \in Data : Width[m] \in Nat
      BY DEF Data, Width
    <3>2. line.mnemonic \in Data
      BY <1>1 DEF SetData, Evaluating
    <3>3. Strlen[arg.str] \in 0 .. 255
      <4> DEFINE str == arg.str
      <4>1. str \in Texts
        BY <2>1
      <4> HIDE DEF str
      <4>2. Strlen[str] \in 0 .. 255
        BY <4>1, TextsAssumption
      <4> QED BY <4>2 DEF str
    <3> QED BY <3>1, <3>2, <3>3
  <2>3. Masked(address) \in Nat
    BY <1>0, MaskInRange, SizesAssumption
  <2>4. datatab' \in Seq(DataSet) /\ address' \in 0 .. SIZE_MODULUS - 1
    BY <1>1, <2>2, <2>3, AddDataType DEF SetData, ArgEntry
  <2> QED BY <1>1, <2>4 DEF SetData, target, ImageOK
<1>2. CASE InsertChunk
  <2>1. ChunkSize \in Nat
    BY SizesAssumption DEF ChunkSize, LineOK
  <2>2. datatab' \in Seq(DataSet) /\ address' \in 0 .. SIZE_MODULUS - 1
    BY <1>0, <1>2, <2>1, AddDataType DEF InsertChunk
  <2> QED BY <1>2, <2>2 DEF InsertChunk, target, ImageOK
<1>3. CASE Org
  <2>1. PICK arg \in Argv0 : arg.str \in DOMAIN Value /\ address' = Masked(Value[arg.str])
    BY <1>3 DEF Org
  <2>2. address' \in 0 .. SIZE_MODULUS - 1
    BY <2>1, MaskInRange, TextsAssumption
  <2> QED BY <1>3, <2>2 DEF Org, target, ImageOK
<1>4. CASE SetArch
  BY <1>4 DEF SetArch, Evaluating, image, ImageOK
<1>5. CASE UNCHANGED <<image, target>>
  BY <1>5 DEF image, target, ImageOK
<1> QED BY <1>1, <1>2, <1>3, <1>4, <1>5, ImageFrame

-----------------------------------------------------------------------------
LEMMA TypeInvInit == Init => TypeInv
<1> SUFFICES ASSUME Init PROVE TypeInv
  OBVIOUS
<1>0. \A S : <<>> \in Seq(S)
  BY EmptySeq
<1>1. Len(Inputs) \in Nat /\ Len(<<>>) = 0
  BY ProgramsAssumption, LenProperties
<1>2. CallsOK
  BY <1>0, <1>1, SizesAssumption DEF Init, CallsOK, StreamsBalanced
<1>3. LineOK
  BY <1>1, SizesAssumption, NoLineType DEF Init, LineOK
<1>4. SymbolsOK
  BY <1>0 DEF Init, SymbolsOK
<1>5. ImageOK
  BY <1>0, SizesAssumption DEF Init, ImageOK
<1> QED BY <1>2, <1>3, <1>4, <1>5 DEF TypeInv

LEMMA TypeInvStep == TypeInv /\ [Next]_vars => TypeInv'
BY CallsStep, LineStep, SymbolsStep, ImageStep DEF TypeInv

LEMMA TypeInvariant == Spec => []TypeInv
BY TypeInvInit, TypeInvStep, PTL DEF Spec

\* Every variable keeps its type: line numbers stay within their file, the
\* loop counter within argv, the location counter within size_t, and the mask
\* is always that of the current architecture.
THEOREM TypeCorrect == Spec => []TypeOK
<1>1. TypeInv => TypeOK
  BY TypeInvImplies
<1> QED BY <1>1, TypeInvariant, PTL

\* Every fopen is matched by its fclose, the files open are those of the
\* active calls, and main ends successfully with none open.
THEOREM StreamsAreBalanced == Spec => []StreamsBalanced
<1>1. TypeInv => StreamsBalanced
  BY TypeInvImplies
<1> QED BY <1>1, TypeInvariant, PTL

-----------------------------------------------------------------------------
\* No two symbols of the table have one full name.
THEOREM SymbolsAreUnique == Spec => []UniqueSymbols
<1>1. Init => UniqueSymbols
  BY DEF Init, UniqueSymbols
<1>2. TypeInv /\ UniqueSymbols /\ [Next]_vars => UniqueSymbols'
  <2> SUFFICES ASSUME TypeInv, UniqueSymbols, [Next]_vars PROVE UniqueSymbols'
    OBVIOUS
  <2> USE DEF TypeInv
  <2>0. DOMAIN symtab = 1 .. Len(symtab) /\ Len(symtab) \in Nat
    BY LenProperties DEF SymbolsOK
  <2>1. CASE AddLabel
    <3>1. PICK l \in line.label :
             /\ ~Defined(Resolved(l))
             /\ symtab' \in Seq(Symbol) /\ Len(symtab') = Len(symtab) + 1
             /\ \A n \in 1 .. Len(symtab) : symtab'[n] = symtab[n]
             /\ symtab'[Len(symtab) + 1].label = Resolved(l)
      BY <2>1, AddLabelWrites
    <3>2. DOMAIN symtab' = 1 .. Len(symtab) + 1
      BY <3>1, LenProperties
    <3>3. \A n \in 1 .. Len(symtab) : symtab'[n].label # Resolved(l)
      BY <2>0, <3>1 DEF Defined
    <3> QED BY <2>0, <3>1, <3>2, <3>3 DEF UniqueSymbols
  <2>2. CASE Equ
    BY <2>2, EquWrites DEF UniqueSymbols
  <2>3. CASE UNCHANGED symbols
    BY <2>3 DEF symbols, UniqueSymbols
  <2> QED BY <2>1, <2>2, <2>3, SymbolsFrame
<1> QED BY <1>1, <1>2, TypeInvariant, PTL DEF Spec

\* resolve_label always has the name of a symbol to put before a local label,
\* and it is the last global one's.
THEOREM ScopeIsKept == Spec => []ScopeIsLastGlobal
<1>1. Init => ScopeIsLastGlobal
  BY DEF Init, ScopeIsLastGlobal
<1>2. TypeInv /\ ScopeIsLastGlobal /\ [Next]_vars => ScopeIsLastGlobal'
  <2> SUFFICES ASSUME TypeInv, ScopeIsLastGlobal, [Next]_vars PROVE ScopeIsLastGlobal'
    OBVIOUS
  <2> USE DEF TypeInv
  <2>0. DOMAIN symtab = 1 .. Len(symtab) /\ Len(symtab) \in Nat
    BY LenProperties DEF SymbolsOK
  <2>1. CASE AddLabel
    <3>1. PICK l \in line.label :
             /\ l \in Labels /\ ~Orphan(l)
             /\ symtab' \in Seq(Symbol) /\ Len(symtab') = Len(symtab) + 1
             /\ \A n \in 1 .. Len(symtab) : symtab'[n] = symtab[n]
             /\ symtab'[Len(symtab) + 1].label = Resolved(l)
             /\ last_parent' = Parent(l)
      BY <2>1, AddLabelWrites
    <3>2. DOMAIN symtab' = 1 .. Len(symtab) + 1 /\ symtab' # <<>>
      BY <2>0, <3>1, LenProperties, EmptySeq
    <3>3. CASE l.local
      <4>1. last_parent' = last_parent /\ last_parent # <<>> /\ last_parent \in Seq(Parts)
        BY <3>1, <3>3 DEF Parent, Orphan, SymbolsOK
      <4>2. PICK n \in DOMAIN symtab :
               /\ symtab[n].label = last_parent
               /\ \A m \in n + 1 .. Len(symtab) :
                     SubSeq(symtab[m].label, 1, Len(last_parent)) = last_parent
        BY <4>1 DEF ScopeIsLastGlobal
      <4>3. SubSeq(Resolved(l), 1, Len(last_parent)) = last_parent
        <5>1. Resolved(l) = last_parent \o l.path /\ l.path \in Seq(Parts)
          BY <3>1, <3>3 DEF Resolved, Labels, Paths
        <5> QED BY <4>1, <5>1, SubSeqOfConcat1, SubSeqFull, LenProperties
      <4>4. \A m \in n + 1 .. Len(symtab) + 1 :
               SubSeq(symtab'[m].label, 1, Len(last_parent)) = last_parent
        BY <2>0, <3>1, <4>2, <4>3
      <4> QED BY <2>0, <3>1, <3>2, <4>1, <4>2, <4>4 DEF ScopeIsLastGlobal
    <3>4. CASE ~l.local
      <4>1. last_parent' = l.path /\ Resolved(l) = l.path /\ l.path # <<>>
        BY <3>1, <3>4 DEF Parent, Resolved, Labels, Paths
      <4>2. \A m \in (Len(symtab) + 1) + 1 .. Len(symtab') : FALSE
        BY <2>0, <3>1
      <4> QED BY <2>0, <3>1, <3>2, <4>1, <4>2 DEF ScopeIsLastGlobal
    <3> QED BY <3>3, <3>4
  <2>2. CASE Equ
    <3>1. /\ symtab # <<>> /\ symtab' # <<>> /\ DOMAIN symtab' = DOMAIN symtab
          /\ Len(symtab') = Len(symtab) /\ last_parent' = last_parent
          /\ \A n \in DOMAIN symtab : symtab'[n].label = symtab[n].label
      BY <2>2, <2>0, EquWrites, EmptySeq
    <3>2. \A n \in DOMAIN symtab : \A m \in n + 1 .. Len(symtab) : m \in DOMAIN symtab
      BY <2>0
    <3> QED BY <3>1, <3>2 DEF ScopeIsLastGlobal
  <2>3. CASE UNCHANGED symbols
    BY <2>3 DEF symbols, ScopeIsLastGlobal
  <2> QED BY <2>1, <2>2, <2>3, SymbolsFrame
<1> QED BY <1>1, <1>2, TypeInvariant, PTL DEF Spec

\* Nothing but .EQU on a label's own line changes a symbol once it is entered.
THEOREM OnlyEquDoes == Spec => OnlyEquRedefines
<1> DEFINE Kept == /\ Len(symtab) <= Len(symtab')
                   /\ \A n \in DOMAIN symtab :
                         /\ symtab'[n].label = symtab[n].label
                         /\ symtab'[n] # symtab[n] =>
                               /\ line.mnemonic = "EQU"
                               /\ \E l \in line.label : symtab[n].label = Resolved(l)
<1>1. TypeInv /\ [Next]_vars => [Kept]_vars
  <2> SUFFICES ASSUME TypeInv, [Next]_vars PROVE Kept
    OBVIOUS
  <2> USE DEF TypeInv
  <2>0. DOMAIN symtab = 1 .. Len(symtab) /\ Len(symtab) \in Nat
    BY LenProperties DEF SymbolsOK
  <2>1. CASE AddLabel
    BY <2>0, <2>1, AddLabelWrites
  <2>2. CASE Equ
    <3>1. line.mnemonic = "EQU" /\ line.label # {}
          /\ \A l \in line.label : symtab[Len(symtab)].label = Resolved(l)
      BY <2>2 DEF Equ, Evaluating, In, CanEqu, SymbolsOK
    <3> QED BY <2>0, <2>2, <3>1, EquWrites
  <2>3. CASE UNCHANGED symbols
    BY <2>0, <2>3 DEF symbols
  <2> QED BY <2>1, <2>2, <2>3, SymbolsFrame
<1> QED BY <1>1, TypeInvariant, PTL DEF Spec, OnlyEquRedefines

-----------------------------------------------------------------------------
(* Where the data go.                                                      *)

\* Remainders: a multiple of the divisor makes no difference, nor does a
\* remainder that is taken first, by a multiple of the divisor.
LEMMA ModuloUnique ==
    ASSUME NEW a \in Int, NEW m \in Nat \ {0}, NEW q \in Int, NEW r \in 0 .. m - 1,
           a = m * q + r
    PROVE  a % m = r
OBVIOUS

LEMMA Division ==
    ASSUME NEW a \in Int, NEW m \in Nat \ {0}
    PROVE  \E q \in Int, r \in 0 .. m - 1 : a = m * q + r /\ a % m = r
OBVIOUS

LEMMA ModuloShift ==
    ASSUME NEW a \in Int, NEW k \in Int, NEW m \in Nat \ {0}
    PROVE  (a + m * k) % m = a % m
<1>1. PICK q \in Int, r \in 0 .. m - 1 : a = m * q + r /\ a % m = r
  BY Division
<1>2. a + m * k = m * (q + k) + r
  BY <1>1
<1>3. q + k \in Int /\ a + m * k \in Int
  OBVIOUS
<1>4. (a + m * k) % m = r
  BY <1>2, <1>3, ModuloUnique
<1> QED BY <1>1, <1>4

LEMMA ModuloAdd ==
    ASSUME NEW a \in Int, NEW n \in Int, NEW m \in Nat \ {0}
    PROVE  ((a % m) + n) % m = (a + n) % m
<1>1. PICK q \in Int, r \in 0 .. m - 1 : a = m * q + r /\ a % m = r
  BY Division
<1>2. a + n = (r + n) + m * q /\ r + n \in Int
  BY <1>1
<1>3. ((r + n) + m * q) % m = (r + n) % m
  BY <1>2, ModuloShift
<1> QED BY <1>1, <1>2, <1>3

LEMMA ModuloModulo ==
    ASSUME NEW a \in Int, NEW m \in Nat \ {0}, NEW n \in Nat \ {0}, n % m = 0
    PROVE  (a % n) % m = a % m
<1>1. PICK k \in Int, z \in 0 .. m - 1 : n = m * k + z /\ n % m = z
  BY Division
<1>2. PICK q \in Int, r \in 0 .. n - 1 : a = n * q + r /\ a % n = r
  BY Division
<1>3. n = m * k
  BY <1>1
<1>4. n * q = m * (k * q)
  BY <1>3
<1>5. PICK c \in Int : c = k * q
  BY <1>1, <1>2
<1>6. a = r + m * c /\ r \in Int
  BY <1>2, <1>4, <1>5
<1>7. a % m = r % m
  BY <1>6, ModuloShift
<1> QED BY <1>2, <1>7

\* Addresses count modulo the address space, which divides that of size_t: the
\* wrap of the location counter is not seen through the mask.
LEMMA MaskedSum ==
    ASSUME ImageOK, NEW a \in Int, NEW n \in Int
    PROVE  /\ Masked(a) \in Int /\ Masked(Masked(a)) = Masked(a)
           /\ Masked(Masked(a) + n) = Masked(a + n)
           /\ Masked(Advance(n)) = Masked(address + n)
<1> DEFINE S == address_mask + 1
<1>1. SIZE_MODULUS \in Nat \ {0} /\ address \in Int
  BY SizesAssumption DEF ImageOK
<1>2. S \in Nat \ {0} /\ SIZE_MODULUS % S = 0
  BY SizesAssumption DEF ImageOK, AddressMask
<1> HIDE DEF S
<1>3. \A b : Masked(b) = b % S
  BY DEF Masked, S
<1>4. a % S \in Int /\ (a % S) % S = a % S
  BY <1>2
<1>5. ((a % S) + n) % S = (a + n) % S
  BY <1>2, ModuloAdd
<1>6. ((address + n) % SIZE_MODULUS) % S = (address + n) % S
  <2>1. address + n \in Int
    BY <1>1
  <2> QED BY <1>1, <1>2, <2>1, ModuloModulo
<1>7. /\ Masked(a) = a % S /\ Masked(a + n) = (a + n) % S
      /\ Masked(Masked(a)) = (a % S) % S /\ Masked(Masked(a) + n) = ((a % S) + n) % S
      /\ Masked(Advance(n)) = ((address + n) % SIZE_MODULUS) % S
      /\ Masked(address + n) = (address + n) % S
  BY <1>3 DEF Advance
<1> QED BY <1>4, <1>5, <1>6, <1>7

End(n) == datatab[n].address + datatab[n].bytec

\* DataTiles without its condition.
Tiles ==
    /\ datatab # <<>> => SameAddress(datatab[1].address, 0)
    /\ \A n \in 1 .. Len(datatab) - 1 : SameAddress(datatab[n+1].address, End(n))
    /\ SameAddress(address, IF datatab = <<>> THEN 0 ELSE End(Len(datatab)))

LEMMA TilesIsDataTiles == DataTiles <=> (NoOrigin => Tiles)
BY DEF DataTiles, Tiles, End

\* An entry where the location counter is, masked or not, fits to the others.
LEMMA AddDataTiles ==
    ASSUME ImageOK, Tiles, UNCHANGED address_mask,
           NEW a \in Nat, NEW n \in Nat, NEW type, AddData(a, n, type),
           SameAddress(a, address)
    PROVE  Tiles'
<1> DEFINE e == [address |-> a, bytec |-> n, type |-> type]
           L == Len(datatab)
<1>1. datatab' = Append(datatab, e) /\ address' = Advance(n)
  BY DEF AddData
<1>2. /\ L \in Nat /\ DOMAIN datatab = 1 .. L /\ (datatab = <<>> <=> L = 0)
      /\ \A k \in 1 .. L : datatab[k] \in DataSet
  BY LenProperties, EmptySeq, ElementOfSeq DEF ImageOK
<1>3. /\ Len(datatab') = L + 1 /\ datatab' # <<>> /\ datatab'[L + 1] = e
      /\ \A k \in 1 .. L : datatab'[k] = datatab[k]
  BY <1>1, <1>2, AppendProperties DEF ImageOK
<1>4. e.address = a /\ e.bytec = n
  OBVIOUS
<1>5. Len(datatab') - 1 = L
  BY <1>2, <1>3
<1> HIDE DEF L, e
<1>6. SameAddress(datatab'[1].address, 0)
  <2>1. CASE L = 0
    BY <1>2, <1>3, <1>4, <2>1 DEF Tiles, SameAddress
  <2>2. CASE L # 0
    BY <1>2, <1>3, <2>2 DEF Tiles
  <2> QED BY <2>1, <2>2
<1>7. ASSUME NEW k \in 1 .. L
      PROVE  SameAddress(datatab'[k + 1].address, End(k))
  <2>1. CASE k < L
    <3>1. k \in 1 .. L - 1 /\ k + 1 \in 1 .. L
      BY <1>2, <2>1
    <3> QED BY <1>3, <3>1 DEF Tiles, L
  <2>2. CASE k = L
    BY <1>2, <1>3, <1>4, <2>2 DEF Tiles, SameAddress, L
  <2> QED BY <1>2, <2>1, <2>2
<1>8. SameAddress(address', a + n)
  <2>1. address \in Int
    BY SizesAssumption DEF ImageOK
  <2>2. Masked(Advance(n)) = Masked(address + n)
    BY MaskedSum
  <2>3. /\ Masked(Masked(address) + n) = Masked(address + n)
        /\ Masked(Masked(a) + n) = Masked(a + n)
    BY <2>1, MaskedSum
  <2> QED BY <1>1, <2>2, <2>3 DEF SameAddress
<1>9. /\ \A k \in 1 .. L : datatab'[k].address + datatab'[k].bytec = End(k)
      /\ datatab'[L + 1].address + datatab'[L + 1].bytec = a + n
  BY <1>3, <1>4 DEF End
<1>10. Len(datatab') = L + 1 /\ datatab' # <<>>
  BY <1>3
<1> QED BY <1>5, <1>6, <1>7, <1>8, <1>9, <1>10 DEF Tiles, SameAddress, Masked, End

\* The entry that SetData adds for an argument.
LEMMA ArgEntryType ==
    ASSUME LineOK, ImageOK, SetData
    PROVE  \E n \in Nat, type \in {"BYTES", "EXPRESSION"} : AddData(Masked(address), n, type)
<1> DEFINE arg == line.argv[i + 1]
<1>1. arg \in [type : ArgTypes, str : Texts]
  <2>1. line.argv \in Seq([type : ArgTypes, str : Texts])
    BY DEF LineOK, ParsedLines
  <2>2. i + 1 \in 1 .. Len(line.argv)
    BY <2>1, LenProperties DEF SetData, LineOK
  <2> QED BY <2>1, <2>2, ElementOfSeq
<1>2. ArgEntry(arg)
  BY DEF SetData
<1> HIDE DEF arg
<1>3. Strlen[arg.str] \in Nat /\ Width[line.mnemonic] \in Nat
  <2>1. \A m \in Data : Width[m] \in Nat
    BY DEF Data, Width
  <2>2. line.mnemonic \in Data
    BY DEF SetData, Evaluating
  <2> QED BY <1>1, <2>1, <2>2, TextsAssumption
<1> QED BY <1>2, <1>3 DEF ArgEntry

\* What DataTiles needs of the rest: no parsed line has an .ORG that no source
\* line has, and .ARCH changes the mask only while the location counter is
\* still 0, where every mask sees the same.
LayoutOK ==
    NoOrigin => /\ Tiles
                /\ line.mnemonic # "ORG"
                /\ datatab = <<>> => address = 0

LEMMA LayoutInit == Init => LayoutOK
<1>1. Len(<<>>) = 0 /\ NoLine.mnemonic # "ORG"
  BY EmptySeq DEF NoLine
<1> QED BY <1>1 DEF Init, LayoutOK, Tiles, SameAddress

\* A parsed line has the mnemonic of its source line, or none.
LEMMA NoOriginRead ==
    ASSUME TypeInv, NoOrigin, line.mnemonic # "ORG", [Next]_vars
    PROVE  line'.mnemonic # "ORG"
<1>1. CASE ReadLine
  <2>1. ctx # <<>> /\ HasLine
    BY <1>1 DEF ReadLine, In, TypeInv, CallsOK
  <2>2. TextLine.mnemonic # "ORG"
    <3>1. Top.line_num \in Nat /\ Top.file \in DOMAIN program
      BY <2>1, TopCall DEF TypeInv, Frames
    <3>2. program[Top.file] \in Seq(Lines)
      BY <3>1, ProgramsAssumption DEF TypeInv, CallsOK
    <3>3. Top.line_num + 1 \in DOMAIN program[Top.file]
      BY <2>1, <3>1, <3>2, LenProperties DEF HasLine
    <3> QED BY <3>1, <3>3 DEF NoOrigin, TextLine
  <2>3. line'.mnemonic = StoredMnemonic(TextLine, "")
    BY <1>1 DEF ReadLine, Parsed
  <2> QED BY <2>2, <2>3 DEF StoredMnemonic
<1>2. CASE SetData \/ Insert \/ InsertChunk \/ NextLine
  <2>1. line' = line \/ line' = NoLine
    BY <1>2 DEF SetData, Insert, InsertChunk, NextLine
  <2>2. NoLine.mnemonic = ""
    BY DEF NoLine
  <2> QED BY <2>1, <2>2
<1>3. CASE UNCHANGED handler
  BY <1>3 DEF handler
<1> QED BY <1>1, <1>2, <1>3, HandlerFrame

LEMMA ProgramStays ==
    ASSUME [Next]_vars
    PROVE  program' = program
<1>1. CASE OpenInput \/ ReadLine \/ EndOfFile \/ Include \/ Insert \/ InsertReturns
  BY <1>1 DEF OpenInput, ReadLine, EndOfFile, Include, Insert, InsertReturns, input
<1> QED BY <1>1, CallsFrame DEF input

LEMMA LayoutStep ==
    ASSUME TypeInv, LayoutOK, [Next]_vars
    PROVE  LayoutOK'
<1> SUFFICES ASSUME NoOrigin
             PROVE  Tiles' /\ line'.mnemonic # "ORG" /\ (datatab' = <<>> => address' = 0)
  BY ProgramStays DEF LayoutOK, NoOrigin
<1>0. line'.mnemonic # "ORG"
  BY NoOriginRead DEF LayoutOK
<1>1. /\ ImageOK /\ Tiles /\ address \in Nat
      /\ \A a, n, type : AddData(a, n, type) => datatab' # <<>>
  <2>1. \A e : Append(datatab, e) # <<>>
    <3>1. Len(datatab) \in Nat
      BY LenProperties DEF TypeInv, ImageOK
    <3> QED BY <3>1, EmptySeq, AppendProperties DEF TypeInv, ImageOK
  <2> QED BY <2>1, SizesAssumption DEF TypeInv, ImageOK, LayoutOK, AddData
<1>2. CASE SetData
  <2>1. PICK n \in Nat, type \in {"BYTES", "EXPRESSION"} : AddData(Masked(address), n, type)
    BY <1>2, ArgEntryType DEF TypeInv
  <2>2. Masked(address) \in Nat /\ SameAddress(Masked(address), address)
    BY <1>1, MaskInRange, MaskedSum, SizesAssumption DEF SameAddress
  <2>3. Tiles'
    BY <1>1, <1>2, <2>1, <2>2, AddDataTiles DEF SetData, target
  <2> QED BY <1>0, <1>1, <2>1, <2>3
<1>3. CASE InsertChunk
  <2>1. ChunkSize \in Nat /\ AddData(address, ChunkSize, "BYTES")
    BY <1>3, SizesAssumption DEF InsertChunk, ChunkSize, TypeInv, LineOK
  <2>2. Tiles'
    BY <1>1, <1>3, <2>1, AddDataTiles DEF InsertChunk, target, SameAddress
  <2> QED BY <1>0, <1>1, <2>1, <2>2
<1>4. CASE Org
  BY <1>4 DEF Org, Evaluating, LayoutOK
<1>5. CASE SetArch
  BY <1>0, <1>5 DEF SetArch, image, LayoutOK, Tiles, SameAddress
<1>6. CASE UNCHANGED <<image, target>>
  BY <1>0, <1>6 DEF image, target, LayoutOK, Tiles, SameAddress, Masked, End
<1> QED BY <1>2, <1>3, <1>4, <1>5, <1>6, ImageFrame

\* Without an .ORG the entries of the data table follow one another without a
\* gap or an overlap, from 0 up to the location counter, whatever makes them.
THEOREM DataAreTiled == Spec => []DataTiles
<1>1. TypeInv /\ LayoutOK /\ [Next]_vars => LayoutOK'
  BY LayoutStep
<1>2. LayoutOK => DataTiles
  BY TilesIsDataTiles DEF LayoutOK
<1> QED BY <1>1, <1>2, LayoutInit, TypeInvariant, PTL DEF Spec

\* Until a handler has done something, the label of its line, the last symbol,
\* has the value of the location counter.
LabelIsHere ==
    phase = "evaluate" /\ i = 0 /\ line.label # {} => symtab[Len(symtab)].value = address

LEMMA LabelIsHereStep ==
    ASSUME TypeInv, LabelIsHere, [Next]_vars
    PROVE  LabelIsHere'
<1>1. CASE ReadLine \/ Insert \/ InsertChunk \/ NextLine
  BY <1>1 DEF ReadLine, Insert, InsertChunk, In, NextLine, LabelIsHere
<1>2. CASE SetData
  BY <1>2 DEF SetData, LabelIsHere, TypeInv, LineOK
<1>3. CASE AddLabel
  <2>1. PICK l \in line.label :
           symtab' = Append(symtab, [label |-> Resolved(l), value |-> address])
    BY <1>3 DEF AddLabel
  <2>2. Len(symtab') = Len(symtab) + 1
    BY <1>3, AddLabelWrites DEF TypeInv
  <2>3. symtab'[Len(symtab')].value = address
    BY <2>1, <2>2, LenProperties DEF TypeInv, SymbolsOK
  <2> QED BY <1>3, <2>3 DEF AddLabel, image, LabelIsHere
<1>4. CASE ~NextLine /\ ~SetData /\ ~InsertChunk /\ ~AddLabel /\ UNCHANGED handler
  <2>1. UNCHANGED <<symbols, image>>
    BY <1>4, SymbolsFrame, ImageFrame DEF Equ, Org, SetArch
  <2>2. CASE phase' = phase \/ phase' # "evaluate"
    BY <1>4, <2>1, <2>2 DEF LabelIsHere, handler, symbols, image
  <2>3. CASE NoLabel
    BY <2>3 DEF NoLabel, handler, LabelIsHere
  <2> QED BY <1>4, <2>2, <2>3, HandlerFrame DEF ReadLine, Insert
<1> QED BY <1>1, <1>2, <1>3, <1>4, HandlerFrame

\* A label on a line of data is, once masked, the address of the first entry
\* of that line, whatever was included or inserted before it.
THEOREM LabelsNameData == Spec => LabelNamesData
<1> DEFINE Named == /\ datatab' # datatab /\ line.label # {}
                    /\ Evaluating(Data) /\ i = 0
                    => SameAddress(symtab[Len(symtab)].value, datatab'[Len(datatab')].address)
<1>1. Init => LabelIsHere
  BY DEF Init, LabelIsHere
<1>2. TypeInv /\ LabelIsHere /\ [Next]_vars => LabelIsHere'
  BY LabelIsHereStep
<1>3. TypeInv /\ LabelIsHere /\ [Next]_vars => [Named]_vars
  <2> SUFFICES ASSUME TypeInv, LabelIsHere, [Next]_vars, datatab' # datatab, line.label # {},
                      Evaluating(Data), i = 0
               PROVE  SameAddress(symtab[Len(symtab)].value, datatab'[Len(datatab')].address)
    OBVIOUS
  <2>1. SetData
    BY ImageFrame DEF InsertChunk, Org, SetArch, image, Evaluating, In
  <2>2. PICK n \in Nat, type \in {"BYTES", "EXPRESSION"} : AddData(Masked(address), n, type)
    BY <2>1, ArgEntryType DEF TypeInv
  <2>3. datatab'[Len(datatab')].address = Masked(address)
    BY <2>2, AppendProperties DEF AddData, TypeInv, ImageOK
  <2>4. symtab[Len(symtab)].value = address
    BY DEF LabelIsHere, Evaluating, In
  <2>5. address \in Int /\ ImageOK
    BY SizesAssumption DEF TypeInv, ImageOK
  <2> QED BY <2>3, <2>4, <2>5, MaskedSum DEF SameAddress
<1> QED BY <1>1, <1>2, <1>3, TypeInvariant, PTL DEF Spec, LabelNamesData

-----------------------------------------------------------------------------
(* The program as built.  It passes over the places of the text in their   *)
(* order: what it has read, looked up and entered so far are sets of       *)
(* places, and the table holds the labels of the places entered, each at   *)
(* its rank.  When the process ends these are all places of the text, or   *)
(* the place it stopped at is what makes the text unclean.                 *)

\* The line being handled, the places whose line was read, and of those the
\* ones whose mnemonic was looked up and whose label was entered.
Here     == <<next_input - 1, Top.line_num>>
LinesRead == {p \in Places : /\ p[1] < next_input
                             /\ ctx # <<>> /\ p[1] = next_input - 1 => p[2] <= Top.line_num}
LookedUp == {p \in LinesRead : phase \in {"label", "evaluate"} => p # Here}
Entered  == {p \in LinesRead : /\ LineAt(p).label # {}
                               /\ phase = "label" => p # Here}

\* Files are not nested, and the line is that of its place.
PassOK ==
    /\ \A f \in 1 .. next_input - 1 : Inputs[f] \in DOMAIN program
    /\ phase # "insert"
    /\ ctx # <<>> => /\ Len(ctx) = 1 /\ next_input > 1
                     /\ Top.file = Inputs[next_input - 1]
    /\ phase \in {"label", "evaluate"} => Top.line_num > 0 /\ line = Parsed(LineAt(Here))

LinesOK ==
    /\ \A p \in LinesRead : Fits(LineAt(p))
    /\ \A p \in LookedUp : Exists(LineAt(p))

\* The table holds the labels entered, and last_parent is the last global one.
NamesOK ==
    /\ IsFiniteSet(Entered) /\ Len(symtab) = Cardinality(Entered)
    /\ \A p \in Entered : Rank(p) \in DOMAIN symtab /\ symtab[Rank(p)].label = FullName(p)
    /\ \A n \in DOMAIN symtab : \E p \in Entered : Rank(p) = n
    /\ \A p \in Entered : LabelAt(p).local => Globals(p) # {}
    /\ \A p, q \in Entered : FullName(p) = FullName(q) => p = q

ParentOK ==
    LET globals == {p \in Entered : ~LabelAt(p).local}
    IN  IF globals = {} THEN last_parent = <<>>
        ELSE \E g \in globals : /\ last_parent = LabelAt(g).path
                                /\ \A h \in globals : ~Before(g, h)

BuiltInv ==
    /\ status = "running" => PassOK /\ LinesOK /\ NamesOK /\ ParentOK
    /\ AcceptsExactlyClean /\ EntersEveryLabel

-----------------------------------------------------------------------------
\* Places are pairs, compared by the file and then the line.
LEMMA PlaceIs ==
    ASSUME TypeInv, NEW p
    PROVE  p \in Places <=> /\ p = <<p[1], p[2]>> /\ p[1] \in Available
                            /\ p[2] \in 1 .. Len(program[Inputs[p[1]]])
<1>1. \A f \in Available : Inputs[f] \in DOMAIN program
  BY ProgramsAssumption, LenProperties DEF Available
<1>2. \A f \in Available : DOMAIN program[Inputs[f]] = 1 .. Len(program[Inputs[f]])
  BY <1>1, ProgramsAssumption, LenProperties DEF TypeInv, CallsOK
<1> QED BY <1>2 DEF Places

LEMMA PlaceType ==
    ASSUME TypeInv, NEW p \in Places
    PROVE  /\ p = <<p[1], p[2]>> /\ p[1] \in 1 .. Len(Inputs) /\ p[2] \in Nat \ {0}
           /\ p[1] \in Available /\ Inputs[p[1]] \in DOMAIN program
           /\ LineAt(p) \in Lines /\ OneLabel(LineAt(p))
<1>1. /\ p = <<p[1], p[2]>> /\ p[1] \in Available
      /\ p[2] \in 1 .. Len(program[Inputs[p[1]]])
  BY PlaceIs
<1>2. Len(Inputs) \in Nat /\ DOMAIN Inputs = 1 .. Len(Inputs)
  BY ProgramsAssumption, LenProperties
<1>3. p[1] \in 1 .. Len(Inputs) /\ Inputs[p[1]] \in DOMAIN program
  BY <1>1, <1>2 DEF Available
<1>4. /\ program[Inputs[p[1]]] \in Seq(Lines)
      /\ \A n \in DOMAIN program[Inputs[p[1]]] : OneLabel(program[Inputs[p[1]]][n])
  BY <1>3, ProgramsAssumption DEF TypeInv, CallsOK
<1>5. /\ Len(program[Inputs[p[1]]]) \in Nat
      /\ DOMAIN program[Inputs[p[1]]] = 1 .. Len(program[Inputs[p[1]]])
  BY <1>4, LenProperties
<1>6. LineAt(p) \in Lines /\ OneLabel(LineAt(p))
  BY <1>1, <1>4, <1>5, ElementOfSeq DEF LineAt
<1> QED BY <1>1, <1>2, <1>3, <1>5, <1>6

\* Of two places one comes before the other.
LEMMA Ordered ==
    ASSUME TypeInv, NEW p \in Places, NEW q \in Places
    PROVE  Before(p, q) \/ Before(q, p) \/ p = q
BY PlaceType DEF Before

\* The only label of a labelled line.
LEMMA TheLabel ==
    ASSUME TypeInv, NEW p \in Places, NEW l \in LineAt(p).label
    PROVE  LabelAt(p) = l /\ l \in Labels
<1>1. LabelAt(p) \in LineAt(p).label
  BY DEF LabelAt
<1>2. LineAt(p) \in Lines /\ OneLabel(LineAt(p))
  BY PlaceType
<1> QED BY <1>1, <1>2 DEF OneLabel, Lines, SourceLines

\* What is said of the text changes with no step.
LEMMA TextStays ==
    ASSUME program' = program
    PROVE  /\ Places' = Places /\ Available' = Available /\ Labelled' = Labelled /\ Clean' = Clean
           /\ \A p : /\ LineAt(p)' = LineAt(p) /\ LabelAt(p)' = LabelAt(p)
                     /\ Globals(p)' = Globals(p) /\ FullName(p)' = FullName(p)
                     /\ Rank(p)' = Rank(p)
<1>1. Places' = Places /\ Available' = Available
  BY DEF Places, Available
<1>2. \A p : LineAt(p)' = LineAt(p)
  BY DEF LineAt
<1>3. \A p : LabelAt(p)' = LabelAt(p)
  BY <1>2 DEF LabelAt
<1>4. Labelled' = Labelled
  BY <1>1, <1>2 DEF Labelled
<1>5. \A p : Globals(p)' = Globals(p)
  BY <1>3, <1>4 DEF Globals
<1>6. \A p : Scope(p)' = Scope(p)
  BY <1>5 DEF Scope
<1>7. \A p : FullName(p)' = FullName(p)
  BY <1>3, <1>6 DEF FullName
<1>8. \A p : Rank(p)' = Rank(p)
  BY <1>4 DEF Rank
<1>9. Clean' = Clean
  BY <1>1, <1>2, <1>3, <1>4, <1>5, <1>7 DEF Clean
<1> QED BY <1>1, <1>2, <1>3, <1>4, <1>5, <1>7, <1>8, <1>9

\* What is said of the symbols stays when no label is entered.
LEMMA NamesStay ==
    ASSUME TypeInv, NamesOK, ParentOK, program' = program, UNCHANGED symbols, Entered' = Entered
    PROVE  NamesOK' /\ ParentOK'
<1>1. /\ \A p : /\ LabelAt(p)' = LabelAt(p) /\ Globals(p)' = Globals(p)
                /\ FullName(p)' = FullName(p) /\ Rank(p)' = Rank(p)
  BY TextStays
<1>2. symtab' = symtab /\ last_parent' = last_parent
  BY DEF symbols
<1>3. NamesOK'
  BY <1>1, <1>2 DEF NamesOK
<1>4. ParentOK'
  BY <1>1, <1>2 DEF ParentOK
<1> QED BY <1>3, <1>4

-----------------------------------------------------------------------------
\* As built no handler runs.
LEMMA BuiltActions ==
    ASSUME ~EVALUATE, PassOK, status = "running", Next
    PROVE  Main \/ Assemble
<1>1. ~Handler
  BY DEF Handler, WildArgument, NoEffect, SetData, SetDataReturns, Equ, EquError, Include,
         IncludeSkipped, Insert, InsertError, InsertChunk, InsertReturns, Org, OrgError,
         SetArch, SetArchError, Evaluating, In, PassOK
<1> QED BY <1>1 DEF Next, Ended

\* The file that is being read, and the line of it.
LEMMA HereIs ==
    ASSUME TypeInv, PassOK, ctx # <<>>
    PROVE  /\ next_input - 1 \in Available /\ next_input - 1 \in Nat \ {0}
           /\ Top.file = Inputs[next_input - 1] /\ Top.line_num \in Nat
           /\ ctx = <<Top>> /\ Len(program[Top.file]) \in Nat
           /\ Top.line_num <= Len(program[Top.file])
           /\ Top.line_num > 0 => Here \in LinesRead
<1>1. /\ Top \in Frames /\ Top.file \in DOMAIN program
      /\ Top.line_num <= Len(program[Top.file])
  BY TopCall DEF TypeInv
<1>2. next_input \in 1 .. Len(Inputs) + 1 /\ next_input > 1 /\ Len(Inputs) \in Nat
  BY ProgramsAssumption, LenProperties DEF TypeInv, CallsOK, PassOK
<1>3. next_input - 1 \in Available
  <2>1. next_input - 1 \in DOMAIN Inputs
    BY <1>2, ProgramsAssumption, LenProperties
  <2> QED BY <1>2, <2>1 DEF Available, PassOK
<1>4. ctx = <<Top>>
  <2>1. ctx \in Seq(Frames) /\ Len(ctx) = 1
    BY DEF PassOK, TypeInv, CallsOK
  <2> QED BY <2>1 DEF Top
<1>5. Len(program[Top.file]) \in Nat /\ Top.line_num \in Nat
  BY <1>1, ProgramsAssumption, LenProperties DEF TypeInv, CallsOK, Frames
<1>6. Top.file = Inputs[next_input - 1]
  BY DEF PassOK
<1>7. ASSUME Top.line_num > 0 PROVE Here \in LinesRead
  <2>1. Here[1] = next_input - 1 /\ Here[2] = Top.line_num /\ Here = <<Here[1], Here[2]>>
    BY DEF Here
  <2>2. Here \in Places
    BY <1>1, <1>3, <1>5, <1>6, <1>7, <2>1, PlaceIs
  <2> QED BY <1>2, <1>5, <2>1, <2>2 DEF LinesRead
<1> QED BY <1>1, <1>2, <1>3, <1>4, <1>5, <1>6, <1>7

LEMMA OpenStep ==
    ASSUME TypeInv, PassOK, LinesOK, NamesOK, ParentOK, OpenInput
    PROVE  PassOK' /\ LinesOK' /\ NamesOK' /\ ParentOK'
<1>1. /\ ctx = <<>> /\ phase = "main" /\ phase' = "read" /\ program' = program
      /\ next_input' = next_input + 1 /\ Inputs[next_input] \in DOMAIN program
      /\ ctx' = <<Frame(Inputs[next_input])>> /\ next_input \in Nat \ {0}
      /\ UNCHANGED symbols
  BY ProgramsAssumption, LenProperties DEF OpenInput, In, TypeInv, CallsOK
<1>2. Top' = Frame(Inputs[next_input]) /\ ctx' # <<>> /\ Len(ctx') = 1
  BY <1>1 DEF Top
<1>3. Top'.line_num = 0 /\ Top'.file = Inputs[next_input]
  BY <1>2 DEF Frame
<1>4. PassOK'
  BY <1>1, <1>2, <1>3 DEF PassOK
<1>5. /\ Places' = Places /\ \A p : LineAt(p)' = LineAt(p)
  BY <1>1, TextStays
<1>6. LinesRead' = LinesRead
  <2>1. ASSUME NEW p \in Places
        PROVE  p \in LinesRead' <=> p \in LinesRead
    <3>1. p[1] \in Nat /\ p[2] \in Nat \ {0}
      BY PlaceType
    <3> QED BY <3>1, <1>1, <1>2, <1>3, <1>5 DEF LinesRead
  <2> QED BY <2>1, <1>5 DEF LinesRead
<1>7. LookedUp' = LookedUp /\ Entered' = Entered
  BY <1>1, <1>5, <1>6 DEF LookedUp, Entered
<1>8. LinesOK'
  BY <1>5, <1>6, <1>7 DEF LinesOK
<1> QED BY <1>1, <1>4, <1>7, <1>8, NamesStay

LEMMA ReadStep ==
    ASSUME TypeInv, PassOK, LinesOK, NamesOK, ParentOK, ReadLine
    PROVE  PassOK' /\ LinesOK' /\ NamesOK' /\ ParentOK'
<1>1. /\ ctx # <<>> /\ phase = "read" /\ phase' = "label" /\ program' = program
      /\ next_input' = next_input /\ UNCHANGED symbols
      /\ Fits(TextLine) /\ line' = Parsed(TextLine) /\ HasLine
      /\ ctx' = [ctx EXCEPT ![Len(ctx)] = LineRead]
  BY DEF ReadLine, In, input, TypeInv, CallsOK, Fits
<1>2. ctx' = <<LineRead>> /\ Top' = LineRead
  BY <1>1, HereIs DEF Top
<1>3. Top'.line_num = Top.line_num + 1 /\ Top'.file = Top.file /\ Len(ctx') = 1 /\ ctx' # <<>>
  BY <1>2 DEF LineRead
<1>4. /\ Here' = <<next_input - 1, Top.line_num + 1>> /\ LineAt(Here') = TextLine
      /\ Here'[1] = next_input - 1 /\ Here'[2] = Top.line_num + 1
  BY <1>1, <1>3, HereIs DEF Here, LineAt, TextLine
<1>5. PassOK'
  <2>1. LineAt(Here)' = LineAt(Here')
    BY <1>1 DEF LineAt
  <2> QED BY <1>1, <1>3, <1>4, <2>1, HereIs DEF PassOK
<1>6. /\ Places' = Places /\ \A p : LineAt(p)' = LineAt(p)
  BY <1>1, TextStays
<1>7. Here' \in Places
  BY <1>1, <1>4, HereIs, PlaceIs DEF HasLine
<1>8. LinesRead' = LinesRead \cup {Here'} /\ Here' \notin LinesRead
  <2>1. ASSUME NEW p \in Places
        PROVE  p \in LinesRead' <=> p \in LinesRead \/ p = Here'
    <3>1. p[1] \in Nat /\ p[2] \in Nat \ {0} /\ p = <<p[1], p[2]>>
      BY PlaceType
    <3>2. p = Here' <=> p[1] = next_input - 1 /\ p[2] = Top.line_num + 1
      BY <3>1, <1>4
    <3>3. next_input \in Nat /\ Top.line_num \in Nat
      BY <1>1, HereIs DEF TypeInv, CallsOK
    <3>4. /\ p \in LinesRead <=> /\ p[1] < next_input
                                 /\ p[1] = next_input - 1 => p[2] <= Top.line_num
          /\ p \in LinesRead' <=> /\ p[1] < next_input
                                  /\ p[1] = next_input - 1 => p[2] <= Top.line_num + 1
      BY <1>1, <1>3, <1>6 DEF LinesRead
    <3> QED BY <3>1, <3>2, <3>3, <3>4
  <2>2. Here' \notin LinesRead
    BY <1>1, <1>4, HereIs DEF LinesRead
  <2> QED BY <2>1, <2>2, <1>6, <1>7 DEF LinesRead
<1>9. LookedUp' = LookedUp /\ Entered' = Entered
  BY <1>1, <1>6, <1>8 DEF LookedUp, Entered
<1>10. LinesOK'
  BY <1>1, <1>4, <1>6, <1>8, <1>9 DEF LinesOK, Fits
<1> QED BY <1>1, <1>5, <1>9, <1>10, NamesStay

LEMMA EndStep ==
    ASSUME TypeInv, PassOK, LinesOK, NamesOK, ParentOK, EndOfFile
    PROVE  PassOK' /\ LinesOK' /\ NamesOK' /\ ParentOK'
<1>1. /\ ctx # <<>> /\ phase = "read" /\ program' = program
      /\ next_input' = next_input /\ UNCHANGED symbols /\ ~HasLine
      /\ ctx' = SubSeq(ctx, 1, Len(ctx) - 1) /\ phase' = "main"
  BY DEF EndOfFile, In, input, TypeInv, CallsOK, PassOK, Caller
<1>2. ctx' = <<>>
  BY <1>1, HereIs
<1>3. PassOK'
  BY <1>1, <1>2 DEF PassOK
<1>4. /\ Places' = Places /\ \A p : LineAt(p)' = LineAt(p)
  BY <1>1, TextStays
<1>5. LinesRead' = LinesRead
  <2>1. ASSUME NEW p \in Places, p[1] = next_input - 1
        PROVE  p[2] <= Top.line_num
    <3>1. p[2] \in 1 .. Len(program[Inputs[p[1]]])
      BY PlaceIs
    <3> QED BY <1>1, <2>1, <3>1, HereIs DEF HasLine
  <2> QED BY <2>1, <1>1, <1>2, <1>4 DEF LinesRead
<1>6. LookedUp' = LookedUp /\ Entered' = Entered
  BY <1>1, <1>4, <1>5 DEF LookedUp, Entered
<1>7. LinesOK'
  BY <1>4, <1>5, <1>6 DEF LinesOK
<1> QED BY <1>1, <1>3, <1>6, <1>7, NamesStay

\* The label of the line that was read: its full name, and its place among
\* the others.
LEMMA LabelHere ==
    ASSUME TypeInv, PassOK, NamesOK, ParentOK, phase = "label", NEW l \in line.label
    PROVE  /\ Here \in Labelled /\ Here \in LinesRead /\ LabelAt(Here) = l
           /\ Here \notin Entered /\ Rank(Here) = Len(symtab) + 1
           /\ Globals(Here) = {q \in Entered : ~LabelAt(q).local}
           /\ Orphan(l) <=> l.local /\ Globals(Here) = {}
           /\ ~Orphan(l) => Resolved(l) = FullName(Here)
<1>1. /\ ctx # <<>> /\ Here \in LinesRead /\ Here \in Places
      /\ line.label = LineAt(Here).label
  <2>1. ctx # <<>> /\ Top.line_num > 0 /\ line = Parsed(LineAt(Here))
    BY DEF TypeInv, CallsOK, PassOK
  <2> QED BY <2>1, HereIs DEF Parsed, LinesRead
<1>2. Here \in Labelled /\ LabelAt(Here) = l /\ l \in Labels
  BY <1>1, TheLabel DEF Labelled
<1>3. Here \notin Entered /\ Entered \subseteq Labelled
  BY DEF Entered, Labelled, LinesRead
<1>4. ASSUME NEW q \in Labelled
      PROVE  /\ ~Before(Here, q) <=> q \in Entered \cup {Here}
             /\ Before(q, Here) <=> q \in Entered
  <2>1. /\ q \in Places /\ q = <<q[1], q[2]>> /\ q[1] \in Nat /\ q[2] \in Nat
        /\ LineAt(q).label # {}
    BY PlaceType DEF Labelled
  <2>2. next_input \in Nat /\ Top.line_num \in Nat
    BY <1>1, HereIs DEF TypeInv, CallsOK
  <2>3. /\ q = Here <=> q[1] = next_input - 1 /\ q[2] = Top.line_num
        /\ Here[1] = next_input - 1 /\ Here[2] = Top.line_num
    BY <2>1 DEF Here
  <2>4. q \in Entered <=> /\ q[1] < next_input
                          /\ q[1] = next_input - 1 => q[2] <= Top.line_num
                          /\ q # Here
    BY <1>1, <2>1 DEF Entered, LinesRead
  <2> QED BY <2>1, <2>2, <2>3, <2>4 DEF Before
<1>5. Rank(Here) = Len(symtab) + 1
  <2>1. {q \in Labelled : ~Before(Here, q)} = Entered \cup {Here}
    BY <1>2, <1>3, <1>4
  <2>2. Cardinality(Entered \cup {Here}) = Cardinality(Entered) + 1
    BY <1>3, FS_AddElement DEF NamesOK
  <2> QED BY <2>1, <2>2 DEF Rank, NamesOK
<1>6. Globals(Here) = {q \in Entered : ~LabelAt(q).local}
  BY <1>3, <1>4 DEF Globals
<1>7. Orphan(l) <=> l.local /\ Globals(Here) = {}
  <2>1. ASSUME NEW g \in Entered PROVE LabelAt(g).path # <<>>
    <3>1. g \in Places /\ LineAt(g).label # {}
      BY <2>1 DEF Entered, LinesRead
    <3> QED BY <3>1, TheLabel DEF Labels, Paths
  <2> QED BY <1>6, <2>1 DEF Orphan, ParentOK
<1>8. ASSUME ~Orphan(l) PROVE Resolved(l) = FullName(Here)
  <2>1. CASE ~l.local
    BY <1>2, <2>1 DEF Resolved, FullName
  <2>2. CASE l.local
    <3>1. Globals(Here) # {}
      BY <1>7, <1>8, <2>2
    <3>2. PICK g \in Globals(Here) : /\ last_parent = LabelAt(g).path
                                     /\ \A h \in Globals(Here) : ~Before(g, h)
      BY <1>6, <3>1 DEF ParentOK
    <3>3. /\ Scope(Here) \in Globals(Here)
          /\ \A h \in Globals(Here) : ~Before(Scope(Here), h)
      BY <3>2 DEF Scope
    <3>4. Scope(Here) = g
      BY <3>2, <3>3, Ordered DEF Globals, Labelled
    <3> QED BY <1>2, <2>2, <3>2, <3>4 DEF Resolved, FullName
  <2> QED BY <2>1, <2>2
<1> QED BY <1>1, <1>2, <1>3, <1>5, <1>6, <1>7, <1>8

\* A name is defined when a label entered has it.
LEMMA DefinedNames ==
    ASSUME TypeInv, NamesOK, NEW name
    PROVE  Defined(name) <=> \E p \in Entered : FullName(p) = name
BY DEF Defined, NamesOK

LEMMA LabelStep ==
    ASSUME TypeInv, PassOK, LinesOK, NamesOK, ParentOK, AddLabel
    PROVE  PassOK' /\ LinesOK' /\ NamesOK' /\ ParentOK'
<1>1. PICK l \in line.label :
         /\ l \in Labels /\ ~Orphan(l) /\ ~Defined(Resolved(l))
         /\ symtab' \in Seq(Symbol) /\ Len(symtab') = Len(symtab) + 1
         /\ \A n \in 1 .. Len(symtab) : symtab'[n] = symtab[n]
         /\ symtab'[Len(symtab) + 1].label = Resolved(l)
         /\ last_parent' = Parent(l)
  BY AddLabelWrites DEF TypeInv
<1>2. /\ phase = "label" /\ phase' = "evaluate" /\ program' = program
      /\ UNCHANGED <<next_input, ctx, line>>
  BY DEF AddLabel, In, input, calls, handler
<1>3. /\ Here \in Labelled /\ Here \in LinesRead /\ LabelAt(Here) = l
      /\ Here \notin Entered /\ Rank(Here) = Len(symtab) + 1
      /\ Globals(Here) = {q \in Entered : ~LabelAt(q).local}
      /\ Orphan(l) <=> l.local /\ Globals(Here) = {}
      /\ Resolved(l) = FullName(Here)
  BY <1>1, <1>2, LabelHere
<1>4. Top' = Top /\ Here' = Here
  BY <1>2 DEF Top, Here
<1>5. /\ Places' = Places
      /\ \A p : /\ LineAt(p)' = LineAt(p) /\ LabelAt(p)' = LabelAt(p)
                /\ Globals(p)' = Globals(p) /\ FullName(p)' = FullName(p)
                /\ Rank(p)' = Rank(p)
  BY <1>2, TextStays
<1>6. LinesRead' = LinesRead /\ LookedUp' = LookedUp
  BY <1>2, <1>4, <1>5 DEF LinesRead, LookedUp
<1>7. Entered' = Entered \cup {Here}
  BY <1>2, <1>3, <1>4, <1>5, <1>6 DEF Entered, Labelled
<1>8. PassOK'
  <2>1. LineAt(Here)' = LineAt(Here)
    BY <1>4, <1>5 DEF LineAt
  <2> QED BY <1>2, <1>4, <2>1 DEF PassOK, Parsed
<1>9. LinesOK'
  BY <1>5, <1>6 DEF LinesOK
<1>10. NamesOK'
  <2>1. /\ DOMAIN symtab = 1 .. Len(symtab) /\ DOMAIN symtab' = 1 .. Len(symtab) + 1
        /\ Len(symtab) \in Nat
    BY <1>1, LenProperties DEF TypeInv, SymbolsOK
  <2>2. IsFiniteSet(Entered') /\ Len(symtab') = Cardinality(Entered')
    BY <1>1, <1>3, <1>7, FS_AddElement DEF NamesOK
  <2>3. ASSUME NEW p \in Entered'
        PROVE  /\ Rank(p)' \in DOMAIN symtab' /\ symtab'[Rank(p)'].label = FullName(p)'
               /\ LabelAt(p)'.local => Globals(p)' # {}
    <3>1. CASE p \in Entered
      BY <1>1, <1>5, <2>1, <3>1 DEF NamesOK
    <3>2. CASE p = Here
      BY <1>1, <1>3, <1>5, <2>1, <3>2
    <3> QED BY <1>7, <3>1, <3>2
  <2>4. ASSUME NEW n \in DOMAIN symtab'
        PROVE  \E p \in Entered' : Rank(p)' = n
    <3>1. CASE n \in DOMAIN symtab
      BY <1>5, <1>7, <3>1 DEF NamesOK
    <3>2. CASE n = Len(symtab) + 1
      BY <1>3, <1>5, <1>7, <3>2
    <3> QED BY <2>1, <3>1, <3>2
  <2>5. ASSUME NEW p \in Entered', NEW q \in Entered', FullName(p)' = FullName(q)'
        PROVE  p = q
    <3>1. \A r \in Entered : FullName(r) # FullName(Here)
      BY <1>1, <1>3, DefinedNames
    <3> QED BY <1>5, <1>7, <2>5, <3>1 DEF NamesOK
  <2> QED BY <2>2, <2>3, <2>4, <2>5 DEF NamesOK
<1>11. ParentOK'
  <2> DEFINE globals == {q \in Entered : ~LabelAt(q).local}
             after   == {q \in Entered' : ~LabelAt(q).local}
  <2>1. CASE l.local
    <3>1. after = globals /\ globals # {}
      BY <1>1, <1>3, <1>5, <1>7, <2>1
    <3>2. last_parent' = last_parent
      BY <1>1, <2>1 DEF Parent
    <3>3. globals = {q \in Entered' : ~LabelAt(q)'.local}
      BY <1>5, <3>1
    <3> QED BY <1>5, <3>1, <3>2, <3>3 DEF ParentOK, Before
  <2>2. CASE ~l.local
    <3>1. after = globals \cup {Here}
      BY <1>3, <1>5, <1>7, <2>2
    <3>2. last_parent' = LabelAt(Here).path
      BY <1>1, <1>3, <2>2 DEF Parent
    <3>3. \A h \in after : ~Before(Here, h)
      <4>1. ASSUME NEW h \in globals PROVE ~Before(Here, h)
        <5>1. h \in Globals(Here)
          BY <1>3
        <5>2. Before(h, Here) /\ h \in Places /\ Here \in Places
          BY <1>3, <5>1 DEF Globals, Labelled
        <5> QED BY <5>2, PlaceType DEF Before
      <4>2. ~Before(Here, Here)
        BY <1>3, PlaceType DEF Before, Labelled
      <4> QED BY <3>1, <4>1, <4>2
    <3> HIDE DEF globals
    <3>4. Here \in after /\ after # {}
      BY <3>1
    <3> HIDE DEF after
    <3>5. \E g \in after : last_parent' = LabelAt(g).path /\ \A h \in after : ~Before(g, h)
      BY <3>2, <3>3, <3>4
    <3>6. after = {q \in Entered' : ~LabelAt(q)'.local}
      BY <1>5 DEF after
    <3> QED BY <1>5, <3>4, <3>5, <3>6 DEF ParentOK, Before
  <2> QED BY <2>1, <2>2
<1> QED BY <1>8, <1>9, <1>10, <1>11

\* A line without a label, and a mnemonic that exists.
LEMMA NoLabelStep ==
    ASSUME TypeInv, PassOK, LinesOK, NamesOK, ParentOK, NoLabel
    PROVE  PassOK' /\ LinesOK' /\ NamesOK' /\ ParentOK'
<1>1. /\ phase = "label" /\ phase' = "evaluate" /\ program' = program /\ line.label = {}
      /\ UNCHANGED <<next_input, ctx, line, symbols>>
  BY DEF NoLabel, In, input, calls, handler
<1>2. Top' = Top /\ Here' = Here
  BY <1>1 DEF Top, Here
<1>3. Places' = Places /\ \A p : LineAt(p)' = LineAt(p)
  BY <1>1, TextStays
<1>4. LinesRead' = LinesRead /\ LookedUp' = LookedUp
  BY <1>1, <1>2, <1>3 DEF LinesRead, LookedUp
<1>5. Entered' = Entered
  <2>1. line = Parsed(LineAt(Here))
    BY <1>1 DEF PassOK
  <2>2. LineAt(Here).label = {}
    BY <1>1, <2>1 DEF Parsed
  <2> QED BY <1>1, <1>2, <1>3, <1>4, <2>2 DEF Entered
<1>6. PassOK'
  <2>1. LineAt(Here)' = LineAt(Here)
    BY <1>2, <1>3 DEF LineAt
  <2> QED BY <1>1, <1>2, <2>1 DEF PassOK, Parsed
<1>7. LinesOK'
  BY <1>3, <1>4 DEF LinesOK
<1> QED BY <1>1, <1>5, <1>6, <1>7, NamesStay

LEMMA EvaluateStep ==
    ASSUME TypeInv, PassOK, LinesOK, NamesOK, ParentOK, NoMnemonic \/ NotEvaluated
    PROVE  PassOK' /\ LinesOK' /\ NamesOK' /\ ParentOK'
<1>1. /\ phase = "evaluate" /\ phase' = "read" /\ program' = program
      /\ line.mnemonic # "unknown"
      /\ UNCHANGED <<next_input, ctx, symbols>>
  BY DEF NoMnemonic, NotEvaluated, NextLine, In, input, calls, Known, PseudoOps, Data, Width
<1>2. Top' = Top
  BY <1>1 DEF Top
<1>3. Places' = Places /\ \A p : LineAt(p)' = LineAt(p)
  BY <1>1, TextStays
<1>4. LinesRead' = LinesRead /\ Here \in LinesRead
  <2>1. ctx # <<>> /\ Top.line_num > 0
    BY <1>1 DEF TypeInv, CallsOK, PassOK
  <2> QED BY <1>1, <1>2, <1>3, <2>1, HereIs DEF LinesRead
<1>5. LookedUp' = LookedUp \cup {Here} /\ Entered' = Entered
  BY <1>1, <1>3, <1>4 DEF LookedUp, Entered
<1>6. PassOK'
  BY <1>1, <1>2 DEF PassOK
<1>7. LinesOK'
  <2>1. line = Parsed(LineAt(Here))
    BY <1>1 DEF PassOK
  <2>2. Exists(LineAt(Here))
    BY <1>1, <2>1 DEF Exists, Parsed
  <2> QED BY <1>3, <1>4, <1>5, <2>2 DEF LinesOK
<1> QED BY <1>1, <1>5, <1>6, <1>7, NamesStay

-----------------------------------------------------------------------------
\* The errors, each at a place that makes the text one that is not clean.
LEMMA ErrorStep ==
    ASSUME TypeInv, PassOK, NamesOK, ParentOK,
           TooManyArguments \/ InvalidMnemonic \/ LabelError
    PROVE  ~Clean
<1>1. ctx # <<>> /\ phase \in {"read", "label", "evaluate"}
  BY DEF TooManyArguments, InvalidMnemonic, LabelError, In, TypeInv, CallsOK
<1>2. CASE TooManyArguments
  <2> DEFINE p == <<next_input - 1, Top.line_num + 1>>
  <2>1. HasLine /\ ~Fits(TextLine)
    BY <1>2 DEF TooManyArguments, Fits
  <2>2. p[1] = next_input - 1 /\ p[2] = Top.line_num + 1
    OBVIOUS
  <2>3. p \in Places /\ LineAt(p) = TextLine
    BY <1>1, <2>1, <2>2, HereIs, PlaceIs DEF HasLine, LineAt, TextLine
  <2> QED BY <2>1, <2>3 DEF Clean, CleanLine
<1>3. CASE InvalidMnemonic
  <2>1. Here \in Places /\ line = Parsed(LineAt(Here)) /\ line.mnemonic = "unknown"
    BY <1>1, <1>3, HereIs DEF InvalidMnemonic, In, PassOK, LinesRead
  <2> QED BY <2>1 DEF Clean, CleanLine, Exists, Parsed
<1>4. CASE LabelError
  <2>1. PICK l \in line.label : phase = "label" /\ (Orphan(l) \/ Defined(Resolved(l)))
    BY <1>4 DEF LabelError, In
  <2>2. /\ Here \in Labelled /\ LabelAt(Here) = l /\ Here \notin Entered
        /\ Orphan(l) <=> l.local /\ Globals(Here) = {}
        /\ ~Orphan(l) => Resolved(l) = FullName(Here)
    BY <2>1, LabelHere
  <2>3. CASE Orphan(l)
    BY <2>2, <2>3 DEF Clean
  <2>4. CASE ~Orphan(l)
    <3>1. PICK q \in Entered : FullName(q) = FullName(Here)
      BY <2>1, <2>2, <2>4, DefinedNames
    <3>2. q \in Labelled /\ q # Here
      BY <2>2, <3>1 DEF Entered, LinesRead, Labelled
    <3> QED BY <2>2, <3>1, <3>2 DEF Clean
  <2> QED BY <2>3, <2>4
<1> QED BY <1>2, <1>3, <1>4

\* main ends with success once every place has been read.
LEMMA SuccessStep ==
    ASSUME TypeInv, PassOK, LinesOK, NamesOK, ParentOK, InputMissing \/ Finish
    PROVE  /\ Clean /\ Len(symtab) = Cardinality(Labelled)
           /\ \A p \in Labelled : symtab[Rank(p)].label = FullName(p)
<1>1. /\ ctx = <<>> /\ phase = "main" /\ next_input \in Nat \ {0}
      /\ \/ next_input > Len(Inputs)
         \/ next_input <= Len(Inputs) /\ Inputs[next_input] \notin DOMAIN program
  BY ProgramsAssumption, LenProperties DEF InputMissing, Finish, In, TypeInv, CallsOK
<1>2. ASSUME NEW p \in Places PROVE p[1] < next_input
  <2>1. p[1] \in 1 .. Len(Inputs) /\ p[1] \in Available /\ Len(Inputs) \in Nat
    BY PlaceType, ProgramsAssumption, LenProperties
  <2>2. \A g \in 1 .. p[1] : Inputs[g] \in DOMAIN program
    BY <2>1 DEF Available
  <2> QED BY <1>1, <2>1, <2>2
<1>3. LinesRead = Places /\ LookedUp = Places /\ Entered = Labelled
  BY <1>1, <1>2 DEF LinesRead, LookedUp, Entered, Labelled
<1> QED BY <1>3 DEF LinesOK, NamesOK, Clean, CleanLine

LEMMA BuiltInit == Init => BuiltInv
<1> SUFFICES ASSUME Init PROVE BuiltInv
  OBVIOUS
<1>1. /\ next_input = 1 /\ ctx = <<>> /\ phase = "main" /\ symtab = <<>>
      /\ last_parent = <<>> /\ status = "running" /\ TypeInv
  BY TypeInvInit DEF Init
<1>2. LinesRead = {}
  <2>1. \A p \in Places : p[1] \in Nat \ {0}
    BY <1>1, PlaceType
  <2> QED BY <1>1, <2>1 DEF LinesRead
<1>3. LookedUp = {} /\ Entered = {}
  BY <1>2 DEF LookedUp, Entered
<1>4. NamesOK
  BY <1>1, <1>3, FS_EmptySet DEF NamesOK
<1>5. ParentOK
  BY <1>1, <1>3 DEF ParentOK
<1> QED BY <1>1, <1>2, <1>3, <1>4, <1>5
        DEF BuiltInv, PassOK, LinesOK, AcceptsExactlyClean, EntersEveryLabel

LEMMA BuiltStep ==
    ASSUME ~EVALUATE, TypeInv, BuiltInv, [Next]_vars
    PROVE  BuiltInv'
<1>1. CASE status # "running" \/ UNCHANGED vars
  <2>1. UNCHANGED vars
    BY <1>1 DEF Next, Main, Assemble, Handler, OpenInput, InputMissing, Finish,
         ReadLine, TooManyArguments, EndOfFile, AddLabel, LabelError, NoLabel,
         NoMnemonic, InvalidMnemonic, NotEvaluated, WildArgument, NoEffect, SetData,
         SetDataReturns, Equ, EquError, Include, IncludeSkipped, Insert, InsertError,
         InsertChunk, InsertReturns, Org, OrgError, SetArch, SetArchError,
         Evaluating, In, Ended
  <2>2. UNCHANGED <<program, status, next_input, ctx, phase, line, symtab, last_parent>>
    BY <2>1 DEF vars
  <2>3. /\ Places' = Places /\ Labelled' = Labelled /\ Clean' = Clean
        /\ \A p : /\ LineAt(p)' = LineAt(p) /\ FullName(p)' = FullName(p)
                  /\ Rank(p)' = Rank(p)
    BY <2>2, TextStays
  <2>4. AcceptsExactlyClean' /\ EntersEveryLabel'
    BY <2>2, <2>3 DEF BuiltInv, AcceptsExactlyClean, EntersEveryLabel
  <2>5. ASSUME status' = "running" PROVE PassOK' /\ LinesOK' /\ NamesOK' /\ ParentOK'
    <3>1. PassOK /\ LinesOK /\ NamesOK /\ ParentOK
      BY <2>2, <2>5 DEF BuiltInv
    <3>2. Top' = Top /\ Here' = Here
      BY <2>2 DEF Top, Here
    <3>3. LinesRead' = LinesRead /\ LookedUp' = LookedUp /\ Entered' = Entered
      BY <2>2, <2>3, <3>2 DEF LinesRead, LookedUp, Entered
    <3>4. PassOK'
      <4>1. LineAt(Here)' = LineAt(Here)
        BY <2>3, <3>2 DEF LineAt
      <4> QED BY <2>2, <3>1, <3>2, <4>1 DEF PassOK, Parsed
    <3>5. LinesOK'
      BY <2>3, <3>1, <3>3 DEF LinesOK
    <3> QED BY <2>2, <3>1, <3>3, <3>4, <3>5, NamesStay DEF symbols
  <2> QED BY <2>4, <2>5 DEF BuiltInv
<1>2. CASE status = "running" /\ Next
  <2> USE <1>2
  <2>1. PassOK /\ LinesOK /\ NamesOK /\ ParentOK
    BY DEF BuiltInv
  <2>2. CASE InputMissing \/ Finish
    <3>1. /\ Clean /\ Len(symtab) = Cardinality(Labelled)
          /\ \A p \in Labelled : symtab[Rank(p)].label = FullName(p)
      BY <2>1, <2>2, SuccessStep
    <3>2. status' = "succeeded" /\ program' = program /\ symtab' = symtab
      BY <2>2 DEF InputMissing, Finish, Stop, input, symbols
    <3>3. /\ Labelled' = Labelled /\ Clean' = Clean
          /\ \A p : FullName(p)' = FullName(p) /\ Rank(p)' = Rank(p)
      BY <3>2, TextStays
    <3> QED BY <3>1, <3>2, <3>3 DEF BuiltInv, AcceptsExactlyClean, EntersEveryLabel
  <2>3. CASE TooManyArguments \/ InvalidMnemonic \/ LabelError
    <3>1. ~Clean
      BY <2>1, <2>3, ErrorStep
    <3>2. status' \in {"died", "crashed"} /\ program' = program
      BY <2>3 DEF TooManyArguments, InvalidMnemonic, LabelError, Fail, Stop, input
    <3>3. ~Clean'
      BY <3>1, <3>2, TextStays
    <3> QED BY <3>2, <3>3 DEF BuiltInv, AcceptsExactlyClean, EntersEveryLabel
  <2>4. CASE \/ OpenInput \/ ReadLine \/ EndOfFile \/ AddLabel \/ NoLabel
             \/ NoMnemonic \/ NotEvaluated
    <3>1. PassOK' /\ LinesOK' /\ NamesOK' /\ ParentOK'
      BY <2>1, <2>4, OpenStep, ReadStep, EndStep, LabelStep, NoLabelStep, EvaluateStep
    <3>2. status' = "running"
      BY <2>4 DEF OpenInput, ReadLine, EndOfFile, AddLabel, NoLabel, NoMnemonic, NotEvaluated
    <3> QED BY <3>1, <3>2 DEF BuiltInv, AcceptsExactlyClean, EntersEveryLabel
  <2> QED BY <2>1, <2>2, <2>3, <2>4, BuiltActions DEF Main, Assemble
<1> QED BY <1>1, <1>2

LEMMA BuiltInvariant == ~EVALUATE => (Spec => []BuiltInv)
<1> SUFFICES ASSUME ~EVALUATE PROVE Spec => []BuiltInv
  OBVIOUS
<1>1. TypeInv /\ BuiltInv /\ [Next]_vars => BuiltInv'
  BY BuiltStep
<1> QED BY <1>1, BuiltInit, TypeInvariant, PTL DEF Spec

\* The program as built ends with success on exactly the texts without an
\* error, whatever its input files and however many there are.
THEOREM AcceptsCleanPrograms == ~EVALUATE => (Spec => []AcceptsExactlyClean)
<1>1. BuiltInv => AcceptsExactlyClean
  BY DEF BuiltInv
<1> QED BY <1>1, BuiltInvariant, PTL

\* When it does, the symbol table is the labels of those files, each under its
\* full name, in the order of the text.
THEOREM EveryLabelIsEntered == ~EVALUATE => (Spec => []EntersEveryLabel)
<1>1. BuiltInv => EntersEveryLabel
  BY DEF BuiltInv
<1> QED BY <1>1, BuiltInvariant, PTL

-----------------------------------------------------------------------------
(* With the handlers enabled, the pass carries out one text.  What is left *)
(* of it is a sequence of statements.                                      *)

\* A label, bytes, the value .EQU gives, an .ORG, or a line that stops it all.
Statements ==
    [op : {"label"}, label : Labels] \cup [op : {"bytes"}, count : Nat]
    \cup [op : {"equ", "origin"}, value : Int] \cup [op : {"error"}]

LEMMA SingleStatement ==
    ASSUME NEW x \in Statements
    PROVE  <<x>> \in Seq(Statements) /\ Len(<<x>>) = 1 /\ <<x>>[1] = x
OBVIOUS

\* t begins with x, then s, and r comes after them; x is the next of t.
Begins(t, x, s, r) == t = (<<x>> \o s) \o r
IsNext(t, x, s, r) == t # <<>> /\ Head(t) = x /\ Tail(t) = s \o r /\ t = <<x>> \o (s \o r)

\* A statement in front of others is the next, and they come after it.
LEMMA NextIs ==
    ASSUME NEW x \in Statements, NEW s \in Seq(Statements), NEW r \in Seq(Statements), NEW t,
           Begins(t, x, s, r)
    PROVE  IsNext(t, x, s, r)
<1>1. s \o r \in Seq(Statements) /\ <<x>> \in Seq(Statements)
  BY ConcatProperties, SingleStatement
<1>2. t = <<x>> \o (s \o r)
  BY <1>1, ConcatAssociative DEF Begins
<1>3. /\ t \in Seq(Statements) /\ Len(t) = 1 + Len(s \o r)
      /\ \A k \in 1 .. 1 + Len(s \o r) : t[k] = IF k <= 1 THEN <<x>>[k] ELSE (s \o r)[k - 1]
  BY <1>1, <1>2, SingleStatement, ConcatProperties
<1>4. Len(s \o r) \in Nat
  BY <1>1, LenProperties
<1>5. t # <<>> /\ t[1] = x
  BY <1>3, <1>4, SingleStatement, EmptySeq
<1>6. /\ Tail(t) \in Seq(Statements) /\ Len(Tail(t)) = Len(t) - 1
      /\ \A k \in 1 .. Len(Tail(t)) : Tail(t)[k] = t[k + 1]
  BY <1>3, <1>5, HeadTailProperties
<1>7. \A k \in 1 .. Len(Tail(t)) : Tail(t)[k] = (s \o r)[k]
  <2> TAKE k \in 1 .. Len(Tail(t))
  <2>1. k + 1 \in 1 .. 1 + Len(s \o r) /\ ~(k + 1 <= 1) /\ (k + 1) - 1 = k
    BY <1>3, <1>4, <1>6
  <2> QED BY <1>3, <1>6, <2>1
<1>8. Tail(t) = s \o r
  <2>1. PICK u \in Seq(Statements), v \in Seq(Statements) : u = s \o r /\ v = Tail(t)
    BY <1>1, <1>6
  <2>2. Len(u) = Len(v) /\ \A k \in 1 .. Len(v) : v[k] = u[k]
    BY <1>3, <1>4, <1>6, <1>7, <2>1
  <2>3. u = v
    BY <2>2, SeqEqual
  <2> QED BY <2>1, <2>3
<1>9. Head(t) = t[1]
  BY <1>3, <1>5
<1> QED BY <1>2, <1>5, <1>8, <1>9 DEF IsNext

LEMMA LabelType ==
    ASSUME NEW l, l.label \in SUBSET Labels
    PROVE  LabelStatement(l) \in Seq(Statements)
<1>1. CASE l.label = {}
  BY <1>1, EmptySeq DEF LabelStatement
<1>2. CASE l.label # {}
  <2> DEFINE k == CHOOSE k \in l.label : TRUE
  <2>1. k \in Labels
    BY <1>2
  <2> HIDE DEF k
  <2>2. [op |-> "label", label |-> k] \in Statements
    BY <2>1 DEF Statements
  <2>3. LabelStatement(l) = <<[op |-> "label", label |-> k]>>
    BY <1>2 DEF LabelStatement, k
  <2> QED BY <2>2, <2>3, SingleStatement
<1> QED BY <1>1, <1>2

\* What each mnemonic stands for.
LEMMA ErrorType == Error \in Seq(Statements) /\ Error = <<[op |-> "error"]>> /\ [op |-> "error"] \in Statements
<1>1. [op |-> "error"] \in Statements
  BY DEF Statements
<1> QED BY <1>1, SingleStatement DEF Error

LEMMA StandsForNothing ==
    ASSUME NEW l, NEW p, NEW inc, l.mnemonic \notin Data \cup {"EQU", "INCLUDE", "INSERT", "ORG", "unknown"}
    PROVE  MnemonicStatements(l, p, inc) = <<>>
BY DEF MnemonicStatements, Data, Width

LEMMA StandsForError ==
    ASSUME NEW l, NEW p, NEW inc, l.mnemonic = "unknown"
    PROVE  MnemonicStatements(l, p, inc) = Error
BY DEF MnemonicStatements, Data, Width

LEMMA StandsForData ==
    ASSUME NEW l, NEW p, NEW inc, l.mnemonic \in Data
    PROVE  MnemonicStatements(l, p, inc) = [k \in DOMAIN l.argv |-> ArgBytes(l, l.argv[k])]
BY DEF MnemonicStatements, Data, Width

LEMMA StandsForEqu ==
    ASSUME NEW l, NEW p, NEW inc, l.mnemonic = "EQU"
    PROVE  MnemonicStatements(l, p, inc)
             = IF l.label # {} /\ Len(l.argv) = 1 /\ l.argv[1].str \in DOMAIN Value
               THEN <<[op |-> "equ", value |-> Value[l.argv[1].str]]>> ELSE Error
BY DEF MnemonicStatements, Data, Width

LEMMA StandsForFile ==
    ASSUME NEW l, NEW p, NEW inc, l.mnemonic = "INCLUDE"
    PROVE  MnemonicStatements(l, p, inc)
             = IF l.argv[1].type = "STRING" /\ l.argv[1].str \in DOMAIN inc
               THEN inc[l.argv[1].str] ELSE <<>>
BY DEF MnemonicStatements, Data, Width

LEMMA StandsForInsert ==
    ASSUME NEW l, NEW p, NEW inc, l.mnemonic = "INSERT"
    PROVE  MnemonicStatements(l, p, inc)
             = IF l.argv[1].type = "STRING" /\ l.argv[1].str \in DOMAIN RawSize /\ p < OPEN_MAX
               THEN <<Bytes(RawSize[l.argv[1].str])>> ELSE Error
BY DEF MnemonicStatements, Data, Width

LEMMA StandsForOrigin ==
    ASSUME NEW l, NEW p, NEW inc, l.mnemonic = "ORG"
    PROVE  MnemonicStatements(l, p, inc)
             = IF l.argv[1].str \in DOMAIN Value
               THEN <<[op |-> "origin", value |-> Value[l.argv[1].str]]>> ELSE Error
BY DEF MnemonicStatements, Data, Width

LEMMA BytesType ==
    ASSUME NEW n \in Nat
    PROVE  Bytes(n) \in Statements /\ Bytes(n).op = "bytes" /\ Bytes(n).count = n
BY DEF Bytes, Statements

LEMMA DataType ==
    ASSUME NEW l \in ParsedLines, l.mnemonic \in Data, NEW k \in 1 .. Len(l.argv)
    PROVE  /\ ArgBytes(l, l.argv[k]) \in Statements /\ DOMAIN l.argv = 1 .. Len(l.argv)
           /\ l.argv[k].type = "STRING" =>
                 ArgBytes(l, l.argv[k]) = Bytes(Strlen[l.argv[k].str]) /\ Strlen[l.argv[k].str] \in Nat
           /\ l.argv[k].type # "STRING" =>
                 ArgBytes(l, l.argv[k]) = Bytes(Width[l.mnemonic]) /\ Width[l.mnemonic] \in Nat
<1> DEFINE A == [type : ArgTypes, str : Texts]
           arg == l.argv[k]
           str == arg.str
<1>1. l.argv \in Seq(A)
  BY DEF ParsedLines
<1>2. arg \in A /\ DOMAIN l.argv = 1 .. Len(l.argv)
  <2> HIDE DEF A
  <2> QED BY <1>1, ElementOfSeq, LenProperties
<1>3. str \in Texts
  BY <1>2
<1>4. Width[l.mnemonic] \in Nat
  BY DEF Data, Width
<1> HIDE DEF str
<1>5. Strlen[str] \in Nat
  <2>1. Strlen[str] \in 0 .. 255
    BY <1>3, TextsAssumption
  <2>2. \A n \in 0 .. 255 : n \in Nat
    OBVIOUS
  <2> QED BY <2>1, <2>2, Zenon
<1>6. ArgBytes(l, arg) = Bytes(IF arg.type = "STRING" THEN Strlen[str] ELSE Width[l.mnemonic])
  BY DEF ArgBytes, str
<1> QED BY <1>2, <1>4, <1>5, <1>6, BytesType DEF str

LEMMA MnemonicType ==
    ASSUME NEW l \in ParsedLines, l.mnemonic # "ARCH", NEW p, NEW inc,
           \A f \in DOMAIN inc : inc[f] \in Seq(Statements)
    PROVE  MnemonicStatements(l, p, inc) \in Seq(Statements)
<1>0. <<>> \in Seq(Statements)
  BY EmptySeq
<1>8. l.mnemonic \in Data \cup {"RES", "EQU", "INCLUDE", "INSERT", "ORG", "ABX", "", "unknown"}
  BY DEF ParsedLines, Mnemonics, Known, PseudoOps
<1>1. CASE l.mnemonic \in Data
  <2>1. l.argv \in Seq([type : ArgTypes, str : Texts])
    BY DEF ParsedLines
  <2>2. Len(l.argv) \in Nat /\ DOMAIN l.argv = 1 .. Len(l.argv)
    BY <2>1, LenProperties
  <2>3. \A k \in 1 .. Len(l.argv) : ArgBytes(l, l.argv[k]) \in Statements
    BY <1>1, DataType
  <2>4. [k \in 1 .. Len(l.argv) |-> ArgBytes(l, l.argv[k])] \in Seq(Statements)
    BY <2>2, <2>3
  <2> QED BY <1>1, <2>2, <2>4, StandsForData
<1>2. CASE l.mnemonic = "EQU"
  <2>1. CASE l.label # {} /\ Len(l.argv) = 1 /\ l.argv[1].str \in DOMAIN Value
    <3> DEFINE v == Value[l.argv[1].str]
    <3>1. v \in Int
      BY <2>1, TextsAssumption
    <3> HIDE DEF v
    <3>2. [op |-> "equ", value |-> v] \in Statements
      BY <3>1 DEF Statements
    <3>3. MnemonicStatements(l, p, inc) = <<[op |-> "equ", value |-> v]>>
      BY <1>2, <2>1, StandsForEqu DEF v
    <3> QED BY <3>2, <3>3, SingleStatement
  <2>2. CASE ~(l.label # {} /\ Len(l.argv) = 1 /\ l.argv[1].str \in DOMAIN Value)
    BY <1>2, <2>2, StandsForEqu, ErrorType
  <2> QED BY <2>1, <2>2
<1>3. CASE l.mnemonic = "INCLUDE"
  BY <1>0, <1>3, StandsForFile
<1>4. CASE l.mnemonic = "INSERT"
  <2>1. CASE l.argv[1].type = "STRING" /\ l.argv[1].str \in DOMAIN RawSize /\ p < OPEN_MAX
    <3> DEFINE v == RawSize[l.argv[1].str]
    <3>1. v \in Nat
      BY <2>1, TextsAssumption
    <3> HIDE DEF v
    <3>2. MnemonicStatements(l, p, inc) = <<Bytes(v)>>
      BY <1>4, <2>1, StandsForInsert DEF v
    <3> QED BY <3>1, <3>2, BytesType, SingleStatement
  <2>2. CASE ~(l.argv[1].type = "STRING" /\ l.argv[1].str \in DOMAIN RawSize /\ p < OPEN_MAX)
    BY <1>4, <2>2, StandsForInsert, ErrorType
  <2> QED BY <2>1, <2>2
<1>5. CASE l.mnemonic = "ORG"
  <2>1. CASE l.argv[1].str \in DOMAIN Value
    <3> DEFINE v == Value[l.argv[1].str]
    <3>1. v \in Int
      BY <2>1, TextsAssumption
    <3> HIDE DEF v
    <3>2. [op |-> "origin", value |-> v] \in Statements
      BY <3>1 DEF Statements
    <3>3. MnemonicStatements(l, p, inc) = <<[op |-> "origin", value |-> v]>>
      BY <1>5, <2>1, StandsForOrigin DEF v
    <3> QED BY <3>2, <3>3, SingleStatement
  <2>2. CASE l.argv[1].str \notin DOMAIN Value
    BY <1>5, <2>2, StandsForOrigin, ErrorType
  <2> QED BY <2>1, <2>2
<1>6. CASE l.mnemonic = "unknown"
  BY <1>6, StandsForError, ErrorType
<1>7. CASE l.mnemonic \in {"", "RES", "ABX"}
  <2>1. MnemonicStatements(l, p, inc) = <<>>
    <3>1. l.mnemonic \notin Data \cup {"EQU", "INCLUDE", "INSERT", "ORG", "unknown"}
      BY <1>7 DEF Data, Width
    <3> QED BY <3>1, StandsForNothing
  <2> QED BY <1>0, <2>1
<1> QED BY <1>1, <1>2, <1>3, <1>4, <1>5, <1>6, <1>7, <1>8

-----------------------------------------------------------------------------
(* The text of a program, line by line.                                    *)

LEMMA ParsedType ==
    ASSUME NEW l \in Lines, ~Overflows(l, LINE_ARG_MAX)
    PROVE  Parsed(l) \in ParsedLines /\ Parsed(l).label = l.label /\ l.label \in SUBSET Labels
<1>1. StoredArgs(l) \in Seq([type : ArgTypes, str : Texts])
  BY StoredArgsType DEF Lines
<1>2. StoredMnemonic(l, "") \in Mnemonics /\ l.label \in SUBSET Labels
  BY DEF Lines, SourceLines, StoredMnemonic, Mnemonics
<1> QED BY <1>1, <1>2 DEF Parsed, ParsedLines

LEMMA LineType ==
    ASSUME NEW l \in Lines, l.mnemonic # "ARCH", NEW p, NEW inc,
           \A f \in DOMAIN inc : inc[f] \in Seq(Statements)
    PROVE  LineStatements(l, p, inc) \in Seq(Statements)
<1>1. CASE Overflows(l, LINE_ARG_MAX)
  BY <1>1, ErrorType DEF LineStatements
<1>2. CASE ~Overflows(l, LINE_ARG_MAX)
  <2>1. Parsed(l) \in ParsedLines /\ Parsed(l).mnemonic # "ARCH"
    BY <1>2, ParsedType DEF Parsed, StoredMnemonic
  <2>2. MnemonicStatements(Parsed(l), p, inc) \in Seq(Statements)
    BY <2>1, MnemonicType
  <2>3. LabelStatement(l) \in Seq(Statements)
    BY <1>2, ParsedType, LabelType
  <2> QED BY <1>2, <2>2, <2>3, ConcatProperties DEF LineStatements
<1> QED BY <1>1, <1>2
\* Sequences from the n-th on are the n-th, and those after it.
LEMMA FromNext ==
    ASSUME NEW S, NEW s \in Rows(S), NEW n \in 1 .. Len(s) + 1
    PROVE  /\ From(s, n) \in Seq(S)
           /\ n = Len(s) + 1 => From(s, n) = <<>>
           /\ n # Len(s) + 1 => From(s, n) = s[n] \o From(s, n + 1)
<1> DEFINE N == Len(s)
           Cut(k) == SubSeq(s, k, N)
<1>1. N \in Nat /\ \A k \in 1 .. N : s[k] \in Seq(S)
  BY RowFacts
<1>2. ASSUME NEW k \in 1 .. N + 1
      PROVE  /\ Cut(k) \in Rows(S) /\ Len(Cut(k)) = N - k + 1
             /\ \A m \in 1 .. N - k + 1 : Cut(k)[m] = s[k + m - 1]
  <2> DEFINE R == Seq(S)
  <2>1. k \in Int /\ N \in Int /\ \A m \in k .. N : s[m] \in R
    BY <1>1
  <2>2. \A m \in 1 .. N - k + 1 : k + m - 1 = k + m - 1
    OBVIOUS
  <2> HIDE DEF R, N
  <2>3. /\ SubSeq(s, k, N) \in Seq(R)
        /\ Len(SubSeq(s, k, N)) = IF k <= N THEN N - k + 1 ELSE 0
        /\ \A m \in 1 .. N - k + 1 : SubSeq(s, k, N)[m] = s[k + m - 1]
    BY <2>1, SubSeqProperties
  <2>4. Len(SubSeq(s, k, N)) = N - k + 1
    BY <1>1, <2>3
  <2> QED BY <2>3, <2>4 DEF Rows, R
<1>3. \A k \in 1 .. N + 1 : From(s, k) = FlattenSeq(Cut(k))
  BY DEF From
<1> HIDE DEF N, Cut
<1>4. n \in 1 .. N + 1
  BY DEF N
<1>5. From(s, n) \in Seq(S) /\ (n = N + 1 => From(s, n) = <<>>)
  BY <1>1, <1>2, <1>3, <1>4, FlattenType
<1>6. ASSUME n # N + 1 PROVE From(s, n) = s[n] \o From(s, n + 1)
  <2>1. n + 1 \in 1 .. N + 1 /\ 1 \in 1 .. N - n + 1 /\ n + 1 - 1 = n
    BY <1>1, <1>4, <1>6
  <2>2. PICK a \in Rows(S) : a = Cut(n)
    BY <1>2, <1>4
  <2>3. PICK b \in Rows(S) : b = Cut(n + 1)
    BY <1>2, <2>1
  <2>4. Len(a) = Len(b) + 1 /\ a[1] = s[n]
    <3>1. Len(a) = N - n + 1 /\ a[1] = s[n + 1 - 1]
      BY <1>2, <1>4, <2>1, <2>2
    <3>2. Len(b) = N - (n + 1) + 1
      BY <1>2, <2>1, <2>3
    <3>3. n \in Nat /\ N \in Nat /\ n + 1 - 1 = n /\ N - n + 1 = (N - (n + 1) + 1) + 1
      BY <1>1, <1>4
    <3> QED BY <3>1, <3>2, <3>3
  <2>5. ASSUME NEW m \in 1 .. Len(b) PROVE a[m + 1] = b[m]
    <3>1. m \in 1 .. N - (n + 1) + 1
      BY <1>2, <2>1, <2>3
    <3>2. m + 1 \in 1 .. N - n + 1 /\ n + (m + 1) - 1 = (n + 1) + m - 1
      BY <1>1, <1>4, <3>1
    <3>3. a[m + 1] = s[n + (m + 1) - 1]
      BY <1>2, <1>4, <2>2, <3>2
    <3>4. b[m] = s[(n + 1) + m - 1]
      BY <1>2, <2>1, <2>3, <3>1
    <3> QED BY <3>2, <3>3, <3>4
  <2>6. FlattenSeq(a) = a[1] \o FlattenSeq(b)
    BY <2>4, <2>5, FlattenCons
  <2> QED BY <1>3, <1>4, <2>1, <2>2, <2>3, <2>4, <2>6
<1> QED BY <1>5, <1>6 DEF N

\* What is said of a table of the statements of files, when p files are open.
Listed(table, p, inc) ==
    /\ DOMAIN table = DOMAIN program
    /\ \A f \in DOMAIN program :
          /\ table[f][Len(program[f]) + 1] = <<>>
          /\ \A n \in 1 .. Len(program[f]) + 1 : table[f][n] \in Seq(Statements)
          /\ \A n \in 1 .. Len(program[f]) :
                table[f][n] = LineStatements(program[f][n], p, inc) \o table[f][n + 1]

LEMMA FilesListed ==
    ASSUME program \in Programs, Inlinable, NEW p, NEW inc,
           \A f \in DOMAIN inc : inc[f] \in Seq(Statements)
    PROVE  Listed(FilesAt(p, inc), p, inc)
<1> SUFFICES ASSUME NEW f \in DOMAIN program
             PROVE  LET table == FilesAt(p, inc)
                    IN  /\ table[f][Len(program[f]) + 1] = <<>>
                        /\ \A n \in 1 .. Len(program[f]) + 1 : table[f][n] \in Seq(Statements)
                        /\ \A n \in 1 .. Len(program[f]) :
                              table[f][n] = LineStatements(program[f][n], p, inc) \o table[f][n + 1]
  <2>1. DOMAIN FilesAt(p, inc) = DOMAIN program
    BY DEF FilesAt
  <2> QED BY <2>1 DEF Listed
<1>1. /\ program[f] \in Seq(Lines)
      /\ \A n \in DOMAIN program[f] : program[f][n].mnemonic # "ARCH"
  BY ProgramsAssumption DEF Inlinable
<1>2. PICK N \in Nat : N = Len(program[f])
  BY <1>1, LenProperties
<1> DEFINE row == [k \in DOMAIN program[f] |-> LineStatements(program[f][k], p, inc)]
<1>3. DOMAIN program[f] = 1 .. N
  BY <1>1, <1>2, LenProperties
<1>4. ASSUME NEW k \in 1 .. N
      PROVE  row[k] = LineStatements(program[f][k], p, inc) /\ row[k] \in Seq(Statements)
  <2>1. program[f][k] \in Lines /\ program[f][k].mnemonic # "ARCH"
    BY <1>1, <1>2, <1>3, ElementOfSeq
  <2>2. row[k] = LineStatements(program[f][k], p, inc)
    BY <1>3
  <2> QED BY <2>1, <2>2, LineType
<1>5. DOMAIN row = 1 .. N /\ row = [k \in 1 .. N |-> row[k]]
  BY <1>3
<1>6. FilesAt(p, inc)[f] = [n \in 1 .. Len(row) + 1 |-> From(row, n)]
  BY DEF FilesAt
<1> HIDE DEF row
<1>7. row \in Rows(Statements) /\ Len(row) = N
  BY <1>4, <1>5, RowsOf
<1>8. \A n \in 1 .. N + 1 : FilesAt(p, inc)[f][n] = From(row, n)
  BY <1>6, <1>7
<1>9. ASSUME NEW n \in 1 .. N + 1
      PROVE  /\ From(row, n) \in Seq(Statements)
             /\ n = N + 1 => From(row, n) = <<>>
             /\ n # N + 1 => From(row, n) = row[n] \o From(row, n + 1)
  BY <1>7, FromNext
<1>10. FilesAt(p, inc)[f][N + 1] = <<>>
  <2>1. N + 1 \in 1 .. N + 1
    OBVIOUS
  <2> QED BY <1>8, <1>9, <2>1
<1>11. \A n \in 1 .. N + 1 : FilesAt(p, inc)[f][n] \in Seq(Statements)
  BY <1>8, <1>9
<1>12. ASSUME NEW n \in 1 .. N
      PROVE  FilesAt(p, inc)[f][n] = LineStatements(program[f][n], p, inc) \o FilesAt(p, inc)[f][n + 1]
  <2>1. n \in 1 .. N + 1 /\ n + 1 \in 1 .. N + 1 /\ n # N + 1
    OBVIOUS
  <2> QED BY <1>4, <1>8, <1>9, <2>1
<1> QED BY <1>2, <1>10, <1>11, <1>12

\* The files that can be included when p are open, by the table below.
Below(p, files) == IF p = OPEN_MAX THEN <<>> ELSE Whole(files[p + 1])

LEMMA ExpansionIs ==
    \A p \in 1 .. OPEN_MAX : Expansion[p] = FilesAt(p, Below(p, Expansion))
<1>1. OPEN_MAX \in Nat \ {0}
  BY SizesAssumption
<1> DEFINE Holds(h, p) == h[p] = FilesAt(p, Below(p, h))
           Deep(k) == \E h : \A p \in OPEN_MAX - k + 1 .. OPEN_MAX : Holds(h, p)
           Bad     == {k \in 0 .. OPEN_MAX : ~Deep(k)}
<1>2. Bad = {}
  <2> SUFFICES ASSUME Bad # {} PROVE FALSE
    OBVIOUS
  <2>1. PICK k \in Bad : \A m \in Bad : k <= m
    <3> HIDE DEF Deep
    <3>1. Bad \in SUBSET Nat
      BY <1>1
    <3> HIDE DEF Bad
    <3> QED BY <3>1, LeastNat
  <2>2. CASE k = 0
    <3>1. OPEN_MAX - 0 + 1 .. OPEN_MAX = {}
      BY <1>1
    <3>2. Deep(0)
      BY <3>1
    <3> HIDE DEF Deep
    <3> QED BY <2>1, <2>2, <3>2
  <2>3. CASE k # 0
    <3>1. k - 1 \in 0 .. OPEN_MAX /\ ~(k <= k - 1) /\ k \in Nat
      BY <1>1, <2>1, <2>3
    <3>2. Deep(k - 1)
      <4> HIDE DEF Deep
      <4> QED BY <2>1, <3>1
    <3>3. PICK h : \A p \in OPEN_MAX - (k - 1) + 1 .. OPEN_MAX : Holds(h, p)
      BY <3>2
    <3>4. PICK q : q = OPEN_MAX - k + 1
      OBVIOUS
    <3> DEFINE g == [p \in q .. OPEN_MAX |-> IF p = q THEN FilesAt(q, Below(q, h)) ELSE h[p]]
    <3>5. q \in 1 .. OPEN_MAX /\ OPEN_MAX - (k - 1) + 1 = q + 1
      BY <1>1, <2>1, <2>3, <3>4
    <3>6. ASSUME NEW p \in q .. OPEN_MAX PROVE Below(p, g) = Below(p, h)
      <4>1. CASE p = OPEN_MAX
        BY <4>1 DEF Below
      <4>2. CASE p # OPEN_MAX
        <5>1. p + 1 \in q .. OPEN_MAX /\ p + 1 # q
          BY <1>1, <3>5, <4>2
        <5>2. g[p + 1] = h[p + 1]
          BY <5>1
        <5> HIDE DEF g
        <5> QED BY <5>2 DEF Below
      <4> QED BY <4>1, <4>2
    <3>7. ASSUME NEW p \in q .. OPEN_MAX PROVE Holds(g, p)
      <4>1. CASE p = q
        <5>1. g[q] = FilesAt(q, Below(q, h))
          BY <4>1
        <5> HIDE DEF g
        <5> QED BY <3>6, <4>1, <5>1
      <4>2. CASE p # q
        <5>1. g[p] = h[p]
          BY <4>2
        <5>2. p \in OPEN_MAX - (k - 1) + 1 .. OPEN_MAX
          BY <3>5, <4>2
        <5>3. Holds(h, p)
          BY <3>3, <5>2
        <5> HIDE DEF g
        <5> QED BY <3>6, <5>1, <5>3
      <4> QED BY <4>1, <4>2
    <3> HIDE DEF g, Holds
    <3>8. Deep(k)
      BY <3>4, <3>7
    <3> HIDE DEF Deep
    <3> QED BY <2>1, <3>8
  <2> QED BY <2>2, <2>3
<1>3. Deep(OPEN_MAX)
  <2>1. OPEN_MAX \in 0 .. OPEN_MAX
    BY <1>1
  <2> HIDE DEF Deep
  <2> QED BY <1>2, <2>1
<1>4. PICK h : \A p \in 1 .. OPEN_MAX : Holds(h, p)
  <2>1. OPEN_MAX - OPEN_MAX + 1 = 1
    BY <1>1
  <2> HIDE DEF Holds
  <2> QED BY <1>3, <2>1
<1> DEFINE Meets(e) == e = [p \in 1 .. OPEN_MAX |-> FilesAt(p, Below(p, e))]
           e == [p \in 1 .. OPEN_MAX |-> h[p]]
<1>5. \A p \in 1 .. OPEN_MAX : Below(p, e) = Below(p, h)
  <2> TAKE p \in 1 .. OPEN_MAX
  <2>1. CASE p = OPEN_MAX
    BY <2>1 DEF Below
  <2>2. CASE p # OPEN_MAX
    <3>1. p + 1 \in 1 .. OPEN_MAX
      BY <1>1, <2>2
    <3>2. e[p + 1] = h[p + 1]
      BY <3>1
    <3> HIDE DEF e
    <3> QED BY <3>2 DEF Below
  <2> QED BY <2>1, <2>2
<1>6. Meets(e)
  BY <1>4, <1>5
<1>7. Expansion = CHOOSE x : Meets(x)
  BY DEF Expansion, Below
<1>8. Meets(Expansion)
  <2> HIDE DEF Meets, e
  <2> QED BY <1>6, <1>7
<1> HIDE DEF e
<1> QED BY <1>8

LEMMA BelowType ==
    ASSUME NEW p \in 1 .. OPEN_MAX, NEW files, NEW inc, program \in Programs,
           p # OPEN_MAX => Listed(files[p + 1], p + 1, inc)
    PROVE  /\ p = OPEN_MAX => DOMAIN Below(p, files) = {}
           /\ p # OPEN_MAX => DOMAIN Below(p, files) = DOMAIN program
           /\ \A f \in DOMAIN Below(p, files) :
                 /\ Below(p, files)[f] = files[p + 1][f][1]
                 /\ Below(p, files)[f] \in Seq(Statements)
<1>1. CASE p = OPEN_MAX
  <2>1. DOMAIN <<>> = {}
    OBVIOUS
  <2> QED BY <1>1, <2>1 DEF Below
<1>2. CASE p # OPEN_MAX
  <2>1. Below(p, files) = Whole(files[p + 1]) /\ Listed(files[p + 1], p + 1, inc)
    BY <1>2 DEF Below
  <2>2. DOMAIN Below(p, files) = DOMAIN program
    BY <2>1 DEF Whole, Listed
  <2>3. ASSUME NEW f \in DOMAIN program
        PROVE  Below(p, files)[f] = files[p + 1][f][1] /\ files[p + 1][f][1] \in Seq(Statements)
    <3>1. Below(p, files)[f] = files[p + 1][f][1]
      BY <2>1 DEF Whole, Listed
    <3>2. 1 \in 1 .. Len(program[f]) + 1
      <4>1. program[f] \in Seq(Lines)
        BY ProgramsAssumption
      <4>2. Len(program[f]) \in Nat
        BY <4>1, LenProperties
      <4> QED BY <4>2
    <3> QED BY <2>1, <3>1, <3>2 DEF Listed
  <2> QED BY <1>2, <2>2, <2>3
<1> QED BY <1>1, <1>2

\* What is said of the tables at every depth.
TablesOK(files) == \A p \in 1 .. OPEN_MAX : Listed(files[p], p, Below(p, files))

LEMMA ExpansionListed ==
    ASSUME program \in Programs, Inlinable
    PROVE  TablesOK(Expansion)
<1>1. OPEN_MAX \in Nat \ {0}
  BY SizesAssumption
<1> DEFINE Good(p) == Listed(Expansion[p], p, Below(p, Expansion))
           Bad     == {k \in 0 .. OPEN_MAX - 1 : ~Good(OPEN_MAX - k)}
<1>2. Bad = {}
  <2> SUFFICES ASSUME Bad # {} PROVE FALSE
    OBVIOUS
  <2>1. PICK k \in Bad : \A m \in Bad : k <= m
    <3> HIDE DEF Good
    <3>1. Bad \in SUBSET Nat
      BY <1>1
    <3> HIDE DEF Bad
    <3> QED BY <3>1, LeastNat
  <2>2. PICK p \in 1 .. OPEN_MAX : p = OPEN_MAX - k
    BY <1>1, <2>1
  <2>3. p # OPEN_MAX => Good(p + 1)
    <3> HIDE DEF Good
    <3> SUFFICES ASSUME p # OPEN_MAX PROVE Good(p + 1)
      OBVIOUS
    <3>1. k - 1 \in 0 .. OPEN_MAX - 1 /\ ~(k <= k - 1) /\ OPEN_MAX - (k - 1) = p + 1
      BY <1>1, <2>1, <2>2
    <3> QED BY <2>1, <3>1
  <2>4. \A f \in DOMAIN Below(p, Expansion) : Below(p, Expansion)[f] \in Seq(Statements)
    BY <2>3, BelowType
  <2>5. Listed(FilesAt(p, Below(p, Expansion)), p, Below(p, Expansion))
    BY <2>4, FilesListed
  <2>6. Good(p)
    BY <2>5, ExpansionIs
  <2> HIDE DEF Good
  <2> QED BY <2>1, <2>2, <2>6
<1> SUFFICES ASSUME NEW p \in 1 .. OPEN_MAX PROVE Good(p)
  BY DEF TablesOK
<1>3. OPEN_MAX - p \in 0 .. OPEN_MAX - 1 /\ OPEN_MAX - (OPEN_MAX - p) = p
  BY <1>1
<1> HIDE DEF Good
<1> QED BY <1>2, <1>3

-----------------------------------------------------------------------------
(* The invariant: the tables are those of the program, and no line makes   *)
(* its handler read what is not on it.                                     *)

InlineInv ==
    /\ TypeInv
    /\ TablesOK(inlined)
    /\ arch = DefaultArch
    /\ line.mnemonic # "ARCH"
    /\ line.mnemonic \in {"ORG", "INCLUDE", "INSERT"} => line.argv # <<>>
    /\ phase = "evaluate" /\ i # 0 => line.mnemonic \in Data

LEMMA InlineInvInit ==
    ASSUME Inlinable, InlineInit
    PROVE  InlineInv
<1>1. TypeInv /\ TablesOK(inlined)
  BY TypeInvInit, ExpansionListed DEF InlineInit, Init
<1> QED BY <1>1 DEF InlineInit, Init, InlineInv, NoLine

\* A parsed line has the mnemonic of its source line and the arguments that
\* are stored of it.
LEMMA LineWritten ==
    ASSUME Inlinable, TypeInv, ReadLine
    PROVE  /\ line'.mnemonic # "ARCH"
           /\ line'.mnemonic \in {"ORG", "INCLUDE", "INSERT"} => line'.argv # <<>>
<1>1. ctx # <<>> /\ HasLine
  BY DEF ReadLine, In, TypeInv, CallsOK
<1>2. /\ TextLine.mnemonic # "ARCH"
      /\ TextLine.mnemonic \in {"ORG", "INCLUDE", "INSERT"} => StoredArgs(TextLine) # <<>>
  <2>1. Top.line_num \in Nat /\ Top.file \in DOMAIN program
    BY <1>1, TopCall DEF TypeInv, Frames
  <2>2. program[Top.file] \in Seq(Lines) /\ program \in Programs
    BY <2>1, ProgramsAssumption DEF TypeInv, CallsOK
  <2>3. Top.line_num + 1 \in DOMAIN program[Top.file]
    BY <1>1, <2>1, <2>2, LenProperties DEF HasLine
  <2> QED BY <2>1, <2>2, <2>3 DEF Inlinable, TextLine
<1>3. line'.mnemonic = StoredMnemonic(TextLine, "") /\ line'.argv = StoredArgs(TextLine)
  BY DEF ReadLine, Parsed
<1> QED BY <1>2, <1>3 DEF StoredMnemonic

LEMMA InlineInvStep ==
    ASSUME Inlinable, InlineInv, [InlineNext]_<<vars, inlined>>
    PROVE  InlineInv'
<1>0. [Next]_vars /\ inlined' = inlined
  BY DEF InlineNext
<1>1. TypeInv'
  BY <1>0, TypeInvStep DEF InlineInv
<1>2. TablesOK(inlined)'
  <2>1. program' = program /\ TablesOK(inlined)
    BY <1>0, ProgramStays DEF InlineInv
  <2> QED BY <1>0, <2>1 DEF TablesOK, Listed, Below
<1>3. arch' = arch
  <2>1. CASE SetData \/ InsertChunk \/ Org
    BY <2>1 DEF SetData, InsertChunk, Org, target
  <2>2. CASE SetArch
    BY <2>2 DEF SetArch, Evaluating, InlineInv
  <2>3. CASE UNCHANGED <<image, target>>
    BY <2>3 DEF target
  <2> QED BY <1>0, <2>1, <2>2, <2>3, ImageFrame
<1>4. /\ line'.mnemonic # "ARCH"
      /\ line'.mnemonic \in {"ORG", "INCLUDE", "INSERT"} => line'.argv # <<>>
      /\ phase' = "evaluate" /\ i' # 0 => line'.mnemonic \in Data
  <2>1. CASE ReadLine
    BY <2>1, LineWritten DEF InlineInv, ReadLine
  <2>2. CASE SetData
    BY <2>2 DEF InlineInv, SetData, Evaluating
  <2>3. CASE Insert \/ InsertChunk
    BY <2>3 DEF InlineInv, Insert, InsertChunk, In
  <2>4. CASE NextLine
    BY <2>4 DEF NextLine, NoLine
  <2>5. CASE UNCHANGED handler /\ phase' = phase
    BY <2>5 DEF handler, InlineInv
  <2>6. CASE UNCHANGED handler /\ phase' # "evaluate"
    BY <2>6 DEF handler, InlineInv
  <2>7. CASE UNCHANGED handler /\ phase = "label"
    BY <2>7 DEF handler, InlineInv, TypeInv, LineOK
  <2> QED BY <1>0, <2>1, <2>2, <2>3, <2>4, <2>5, <2>6, <2>7, HandlerFrame
<1> QED BY <1>1, <1>2, <1>3, <1>4 DEF InlineInv

-----------------------------------------------------------------------------
(* What is left to do: of the calls, and of the input files.               *)

\* What is left of a call when it is the p-th.
Text(p, call) == inlined[p][call.file][call.line_num + 1]

\* A call that stands in a file of the program.
Stands(call) ==
    /\ call \in Frames /\ call.file \in DOMAIN program
    /\ call.line_num <= Len(program[call.file])

LEMMA TextIs ==
    ASSUME TablesOK(inlined), program \in Programs, NEW p \in 1 .. OPEN_MAX, NEW call, Stands(call)
    PROVE  /\ Text(p, call) \in Seq(Statements)
           /\ call.line_num \in Nat /\ Len(program[call.file]) \in Nat
           /\ call.line_num = Len(program[call.file]) => Text(p, call) = <<>>
           /\ call.line_num < Len(program[call.file]) =>
                 Text(p, call) = LineStatements(program[call.file][call.line_num + 1], p, Included(p))
                                   \o inlined[p][call.file][call.line_num + 2]
<1>1. PICK f \in DOMAIN program : f = call.file
  BY DEF Stands
<1>2. PICK n \in Nat : n = call.line_num
  BY DEF Stands, Frames
<1>3. program[f] \in Seq(Lines)
  BY ProgramsAssumption
<1>4. PICK N \in Nat : N = Len(program[f])
  BY <1>3, LenProperties
<1>5. n <= N
  BY <1>1, <1>2, <1>4 DEF Stands
<1>6. Listed(inlined[p], p, Below(p, inlined)) /\ Below(p, inlined) = Included(p)
  BY DEF TablesOK, Below, Included
<1>7. /\ inlined[p][f][N + 1] = <<>>
      /\ \A k \in 1 .. N + 1 : inlined[p][f][k] \in Seq(Statements)
      /\ \A k \in 1 .. N :
            inlined[p][f][k] = LineStatements(program[f][k], p, Included(p)) \o inlined[p][f][k + 1]
  BY <1>4, <1>6 DEF Listed
<1>8. n + 1 \in 1 .. N + 1 /\ (n + 1) + 1 = n + 2 /\ (n < N => n + 1 \in 1 .. N)
  BY <1>5
<1>9. Text(p, call) = inlined[p][f][n + 1]
  BY <1>1, <1>2 DEF Text
<1>10. n < N => inlined[p][f][n + 1] = LineStatements(program[f][n + 1], p, Included(p)) \o inlined[p][f][n + 2]
  BY <1>7, <1>8
<1> QED BY <1>1, <1>2, <1>4, <1>7, <1>8, <1>9, <1>10

\* The calls c, innermost last.
CallsOf(c) == Reverse([p \in DOMAIN c |-> Text(p, c[p])])
Left(c)    == FlattenSeq(CallsOf(c))
Nested(c) == c \in Seq(Frames) /\ Len(c) <= OPEN_MAX /\ \A n \in 1 .. Len(c) : Stands(c[n])

LEMMA CallsRows ==
    ASSUME TablesOK(inlined), program \in Programs, NEW c, Nested(c)
    PROVE  /\ CallsOf(c) \in Rows(Statements) /\ Len(CallsOf(c)) = Len(c) /\ Len(c) \in Nat
           /\ \A k \in 1 .. Len(c) : CallsOf(c)[k] = Text(Len(c) - k + 1, c[Len(c) - k + 1])
<1>1. PICK N \in Nat : N = Len(c) /\ N <= OPEN_MAX /\ DOMAIN c = 1 .. N
  BY LenProperties DEF Nested
<1>2. \A p \in 1 .. N : Text(p, c[p]) \in Seq(Statements)
  <2> TAKE p \in 1 .. N
  <2>1. p \in 1 .. OPEN_MAX
    BY <1>1, SizesAssumption
  <2> QED BY <1>1, <2>1, TextIs DEF Nested
<1> DEFINE t == [p \in DOMAIN c |-> Text(p, c[p])]
<1>3. t = [p \in 1 .. N |-> Text(p, c[p])] /\ \A p \in 1 .. N : t[p] = Text(p, c[p])
  BY <1>1
<1>4. DOMAIN t = 1 .. N /\ t = [p \in 1 .. N |-> t[p]]
  BY <1>3
<1> HIDE DEF t
<1>5. t \in Rows(Statements) /\ Len(t) = N
  BY <1>2, <1>3, <1>4, RowsOf
<1> DEFINE r == [k \in 1 .. N |-> t[N - k + 1]]
<1>6. CallsOf(c) = r
  BY <1>5 DEF CallsOf, Reverse, t
<1>7. ASSUME NEW k \in 1 .. N
      PROVE  r[k] = Text(N - k + 1, c[N - k + 1]) /\ r[k] \in Seq(Statements)
  <2>1. N - k + 1 \in 1 .. N
    OBVIOUS
  <2>2. r[k] = t[N - k + 1]
    OBVIOUS
  <2> QED BY <1>2, <1>3, <2>1, <2>2
<1>8. DOMAIN r = 1 .. N /\ r = [k \in 1 .. N |-> r[k]]
  OBVIOUS
<1> HIDE DEF r
<1>9. r \in Rows(Statements) /\ Len(r) = N
  BY <1>7, <1>8, RowsOf
<1> QED BY <1>1, <1>6, <1>7, <1>9

LEMMA LeftType ==
    ASSUME TablesOK(inlined), program \in Programs, NEW c, Nested(c)
    PROVE  Left(c) \in Seq(Statements) /\ (c = <<>> => Left(c) = <<>>)
<1>1. Len(<<>>) = 0
  OBVIOUS
<1> QED BY <1>1, CallsRows, FlattenType DEF Left

\* One call more does its own part first.
LEMMA LeftPush ==
    ASSUME TablesOK(inlined), program \in Programs, NEW c, Nested(c), NEW d, Nested(d),
           Len(d) = Len(c) + 1, \A n \in 1 .. Len(c) : d[n] = c[n]
    PROVE  Left(d) = Text(Len(d), d[Len(d)]) \o Left(c)
<1>1. PICK s \in Rows(Statements) :
         /\ s = CallsOf(c) /\ Len(s) = Len(c)
         /\ \A k \in 1 .. Len(c) : s[k] = Text(Len(c) - k + 1, c[Len(c) - k + 1])
  BY CallsRows
<1>2. PICK t \in Rows(Statements) :
         /\ t = CallsOf(d) /\ Len(t) = Len(d)
         /\ \A k \in 1 .. Len(d) : t[k] = Text(Len(d) - k + 1, d[Len(d) - k + 1])
  BY CallsRows
<1>3. PICK N \in Nat : N = Len(c) /\ Len(d) = N + 1
  BY CallsRows
<1>4. ASSUME NEW k \in 1 .. Len(s) PROVE t[k + 1] = s[k]
  <2>1. /\ k \in 1 .. N /\ k + 1 \in 1 .. N + 1 /\ N - k + 1 \in 1 .. N
        /\ (N + 1) - (k + 1) + 1 = N - k + 1
    BY <1>1, <1>3
  <2>2. t[k + 1] = Text(N - k + 1, d[N - k + 1])
    BY <1>2, <1>3, <2>1
  <2>3. s[k] = Text(N - k + 1, c[N - k + 1])
    BY <1>1, <1>3, <2>1
  <2>4. d[N - k + 1] = c[N - k + 1]
    BY <1>3, <2>1
  <2> QED BY <2>2, <2>3, <2>4
<1>5. t[1] = Text(Len(d), d[Len(d)])
  <2>1. 1 \in 1 .. Len(d) /\ Len(d) - 1 + 1 = Len(d)
    BY <1>3
  <2> QED BY <1>2, <2>1
<1>6. FlattenSeq(t) = t[1] \o FlattenSeq(s)
  <2>1. Len(t) = Len(s) + 1
    BY <1>1, <1>2
  <2> QED BY <1>4, <2>1, FlattenCons
<1> QED BY <1>1, <1>2, <1>5, <1>6 DEF Left

\* All but the last of the calls.
LEMMA LeftPop ==
    ASSUME TablesOK(inlined), program \in Programs, NEW c, Nested(c), c # <<>>,
           NEW b, b = SubSeq(c, 1, Len(c) - 1)
    PROVE  /\ Nested(b) /\ Len(b) = Len(c) - 1 /\ \A n \in 1 .. Len(c) - 1 : b[n] = c[n]
           /\ Left(c) = Text(Len(c), c[Len(c)]) \o Left(b)
<1>1. c \in Seq(Frames) /\ Len(c) \in Nat \ {0} /\ Len(c) <= OPEN_MAX
  BY EmptySeq DEF Nested
<1>2. /\ b \in Seq(Frames) /\ Len(b) = Len(c) - 1
      /\ \A n \in 1 .. Len(c) - 1 : b[n] = c[n]
  BY <1>1, PoppedStack
<1>3. Nested(b)
  <2>1. \A n \in 1 .. Len(b) : n \in 1 .. Len(c) /\ b[n] = c[n]
    BY <1>1, <1>2
  <2>2. \A n \in 1 .. Len(c) : Stands(c[n])
    BY DEF Nested
  <2>3. Len(b) <= OPEN_MAX
    BY <1>1, <1>2, SizesAssumption
  <2> QED BY <1>2, <2>1, <2>2, <2>3 DEF Nested
<1>4. Len(c) = Len(b) + 1 /\ \A n \in 1 .. Len(b) : c[n] = b[n]
  BY <1>1, <1>2
<1>5. Left(c) = Text(Len(c), c[Len(c)]) \o Left(b)
  BY <1>3, <1>4, LeftPush
<1> QED BY <1>2, <1>3, <1>5

LEMMA CallsFit ==
    ASSUME CallsOK
    PROVE  /\ Nested(ctx) /\ CallsTodo = Left(ctx) /\ Len(ctx) \in Nat
           /\ ctx # <<>> => Len(ctx) \in 1 .. OPEN_MAX
<1>1. Len(ctx) \in Nat /\ DOMAIN ctx = 1 .. Len(ctx) /\ ctx \in Seq(Frames)
  BY LenProperties DEF CallsOK
<1>2. Len(ctx) <= OPEN_MAX
  <2>1. open = Len(ctx) + (IF phase = "insert" THEN 1 ELSE 0) /\ open <= OPEN_MAX
    BY DEF CallsOK, StreamsBalanced
  <2>2. PICK N \in Nat : N = Len(ctx)
    BY <1>1
  <2> QED BY <2>1, <2>2, SizesAssumption
<1>3. \A n \in 1 .. Len(ctx) : Stands(ctx[n])
  BY <1>1, ElementOfSeq DEF CallsOK, Stands
<1>4. CallsTodo = Left(ctx)
  BY DEF CallsTodo, CallTodo, Left, CallsOf, Text
<1>5. ctx # <<>> => Len(ctx) # 0
  BY <1>1, EmptySeq
<1> QED BY <1>1, <1>2, <1>3, <1>4, <1>5, SizesAssumption DEF Nested

\* The input files from the n-th on.
LEMMA InputsLeft ==
    ASSUME TablesOK(inlined), program \in Programs, Inlinable, NEW n \in 1 .. Len(Inputs) + 1
    PROVE  /\ InputsTodo(n) \in Seq(Statements)
           /\ n = Len(Inputs) + 1 => InputsTodo(n) = <<>>
           /\ n # Len(Inputs) + 1 =>
                 InputsTodo(n) = inlined[1][Inputs[n]][1] \o InputsTodo(n + 1)
<1>1. PICK N \in Nat : N = Len(Inputs) /\ DOMAIN Inputs = 1 .. N
  BY ProgramsAssumption, LenProperties
<1> DEFINE s == [k \in DOMAIN Inputs |-> inlined[1][Inputs[k]][1]]
<1>2. \A k \in 1 .. N : inlined[1][Inputs[k]][1] \in Seq(Statements)
  <2> TAKE k \in 1 .. N
  <2>1. Inputs[k] \in DOMAIN program
    BY <1>1 DEF Inlinable
  <2>2. program[Inputs[k]] \in Seq(Lines)
    BY <2>1, ProgramsAssumption
  <2>3. 1 \in 1 .. Len(program[Inputs[k]]) + 1
    BY <2>2, LenProperties
  <2>4. Listed(inlined[1], 1, Below(1, inlined))
    BY SizesAssumption DEF TablesOK
  <2> QED BY <2>1, <2>3, <2>4 DEF Listed
<1>3. \A k \in 1 .. N : s[k] = inlined[1][Inputs[k]][1]
  BY <1>1
<1>4. DOMAIN s = 1 .. N /\ s = [k \in 1 .. N |-> s[k]]
  BY <1>1
<1>5. \A k : InputsTodo(k) = From(s, k)
  BY DEF InputsTodo
<1> HIDE DEF s
<1>6. s \in Rows(Statements) /\ Len(s) = N
  BY <1>2, <1>3, <1>4, RowsOf
<1>7. /\ From(s, n) \in Seq(Statements)
      /\ n = N + 1 => From(s, n) = <<>>
      /\ n # N + 1 => From(s, n) = s[n] \o From(s, n + 1)
  BY <1>1, <1>6, FromNext
<1>8. n # N + 1 => n \in 1 .. N
  BY <1>1
<1> QED BY <1>1, <1>3, <1>5, <1>7, <1>8

-----------------------------------------------------------------------------
(* What is left to do of the current line.                                 *)

\* The statements the current line's mnemonic stands for.
Rest == MnemonicStatements(line, Len(ctx), Included(Len(ctx)))

\* What comes after the current line.
After == CallsTodo \o InputsTodo(next_input)

LEMMA IncludedType ==
    ASSUME Inlinable, InlineInv, NEW p \in 1 .. OPEN_MAX
    PROVE  /\ p = OPEN_MAX => DOMAIN Included(p) = {}
           /\ p # OPEN_MAX => DOMAIN Included(p) = DOMAIN program
           /\ \A f \in DOMAIN Included(p) :
                 /\ Included(p)[f] = inlined[p + 1][f][1]
                 /\ Included(p)[f] \in Seq(Statements)
<1>1. Included(p) = Below(p, inlined)
  BY DEF Included, Below
<1>2. p # OPEN_MAX => Listed(inlined[p + 1], p + 1, Below(p + 1, inlined))
  <2>1. p # OPEN_MAX => p + 1 \in 1 .. OPEN_MAX
    BY SizesAssumption
  <2> QED BY <2>1 DEF InlineInv, TablesOK
<1>3. program \in Programs
  BY DEF InlineInv, TypeInv, CallsOK
<1>4. PICK inc : p # OPEN_MAX => Listed(inlined[p + 1], p + 1, inc)
  BY <1>2
<1>5. /\ p = OPEN_MAX => DOMAIN Below(p, inlined) = {}
      /\ p # OPEN_MAX => DOMAIN Below(p, inlined) = DOMAIN program
      /\ \A f \in DOMAIN Below(p, inlined) :
            /\ Below(p, inlined)[f] = inlined[p + 1][f][1]
            /\ Below(p, inlined)[f] \in Seq(Statements)
  BY <1>3, <1>4, BelowType
<1> QED BY <1>1, <1>5

LEMMA RestType ==
    ASSUME Inlinable, InlineInv, phase # "main"
    PROVE  /\ ctx # <<>> /\ Len(ctx) \in 1 .. OPEN_MAX
           /\ Rest \in Seq(Statements)
<1>1. ctx # <<>> /\ Len(ctx) \in 1 .. OPEN_MAX
  BY CallsFit DEF InlineInv, TypeInv, CallsOK
<1>2. \A f \in DOMAIN Included(Len(ctx)) : Included(Len(ctx))[f] \in Seq(Statements)
  BY <1>1, IncludedType
<1>3. line \in ParsedLines /\ line.mnemonic # "ARCH"
  BY DEF InlineInv, TypeInv, LineOK
<1> QED BY <1>1, <1>2, <1>3, MnemonicType DEF Rest

LEMMA AfterType ==
    ASSUME Inlinable, InlineInv
    PROVE  /\ CallsTodo \in Seq(Statements) /\ InputsTodo(next_input) \in Seq(Statements)
           /\ After \in Seq(Statements) /\ (phase = "main" => CallsTodo = <<>>)
<1>1. CallsTodo \in Seq(Statements) /\ (ctx = <<>> => CallsTodo = <<>>)
  BY CallsFit, LeftType DEF InlineInv, TypeInv, CallsOK
<1>2. InputsTodo(next_input) \in Seq(Statements)
  BY InputsLeft DEF InlineInv, TypeInv, CallsOK
<1>3. phase = "main" => ctx = <<>>
  BY DEF InlineInv, TypeInv, CallsOK
<1> QED BY <1>1, <1>2, <1>3, ConcatLaws DEF After

\* What is left of the line, phase by phase.
LEMMA LineTodoIs ==
    ASSUME Inlinable, InlineInv
    PROVE  /\ phase \in {"main", "read"} => LineTodo = <<>>
           /\ phase = "label" => LineTodo = LabelStatement(line) \o Rest
           /\ phase = "evaluate" /\ line.mnemonic \notin Data => LineTodo = Rest
           /\ phase = "evaluate" => LineTodo = SubSeq(Rest, i + 1, Len(Rest))
           /\ phase = "insert" => LineTodo = IF size = 0 THEN <<>> ELSE <<Bytes(size)>>
<1>1. phase = "evaluate" => LineTodo = SubSeq(Rest, i + 1, Len(Rest))
  BY DEF LineTodo, Rest
<1>2. phase = "evaluate" /\ line.mnemonic \notin Data => LineTodo = Rest
  <2> SUFFICES ASSUME phase = "evaluate", line.mnemonic \notin Data PROVE LineTodo = Rest
    OBVIOUS
  <2>1. i = 0
    BY DEF InlineInv
  <2>2. Rest \in Seq(Statements)
    BY RestType
  <2>3. 0 \in 0 .. Len(Rest)
    BY <2>2, LenProperties
  <2> QED BY <1>1, <2>1, <2>2, <2>3, FromIndex
<1> QED BY <1>1, <1>2 DEF LineTodo, Rest

\* A data pseudo operation stands for the bytes of each of its arguments.
LEMMA DataRest ==
    ASSUME Inlinable, InlineInv, phase = "evaluate", line.mnemonic \in Data
    PROVE  /\ Rest = [k \in 1 .. Len(line.argv) |-> ArgBytes(line, line.argv[k])]
           /\ Rest \in Seq(Statements) /\ Len(Rest) = Len(line.argv)
           /\ i \in 0 .. Len(Rest)
           /\ \A k \in 1 .. Len(line.argv) : Rest[k] = ArgBytes(line, line.argv[k])
<1>1. line.argv \in Seq([type : ArgTypes, str : Texts]) /\ i \in 0 .. Len(line.argv)
  BY DEF InlineInv, TypeInv, LineOK, ParsedLines
<1>2. PICK N \in Nat : N = Len(line.argv) /\ DOMAIN line.argv = 1 .. N
  BY <1>1, LenProperties
<1>3. Rest \in Seq(Statements)
  BY RestType
<1>4. Rest = [k \in 1 .. N |-> ArgBytes(line, line.argv[k])]
  BY <1>2, StandsForData DEF Rest
<1>5. Len(Rest) = N
  <2>1. DOMAIN Rest = 1 .. N
    BY <1>4
  <2>2. DOMAIN Rest = 1 .. Len(Rest) /\ Len(Rest) \in Nat
    BY <1>3, LenProperties
  <2> QED BY <2>1, <2>2
<1>6. \A k \in 1 .. N : Rest[k] = ArgBytes(line, line.argv[k])
  BY <1>4
<1> QED BY <1>1, <1>2, <1>3, <1>4, <1>5, <1>6

LEMMA LineTodoType ==
    ASSUME Inlinable, InlineInv
    PROVE  LineTodo \in Seq(Statements)
<1>1. <<>> \in Seq(Statements)
  BY EmptySeq
<1>2. CASE phase \in {"main", "read"}
  BY <1>1, <1>2, LineTodoIs
<1>3. CASE phase = "label"
  <2>1. line.label \in SUBSET Labels
    BY DEF InlineInv, TypeInv, LineOK, ParsedLines
  <2>2. LabelStatement(line) \in Seq(Statements) /\ Rest \in Seq(Statements)
    BY <1>3, <2>1, RestType, LabelType
  <2> QED BY <1>3, <2>2, LineTodoIs, ConcatLaws
<1>4. CASE phase = "evaluate"
  <2>1. Rest \in Seq(Statements)
    BY <1>4, RestType
  <2>2. CASE line.mnemonic \notin Data
    BY <1>4, <2>1, <2>2, LineTodoIs
  <2>3. CASE line.mnemonic \in Data
    <3>1. i \in 0 .. Len(Rest)
      BY <1>4, <2>3, DataRest
    <3> QED BY <1>4, <2>1, <3>1, LineTodoIs, FromIndex
  <2> QED BY <2>2, <2>3
<1>5. CASE phase = "insert"
  <2>1. size \in Nat
    BY DEF InlineInv, TypeInv, LineOK
  <2>2. <<Bytes(size)>> \in Seq(Statements)
    BY <2>1, BytesType, SingleStatement
  <2> QED BY <1>1, <1>5, <2>2, LineTodoIs
<1> QED BY <1>2, <1>3, <1>4, <1>5 DEF InlineInv, TypeInv, CallsOK

-----------------------------------------------------------------------------
(* The symbols and the bytes, seen through the mask.                       *)

LEMMA MaskIs ==
    ASSUME Inlinable, InlineInv
    PROVE  /\ AddressSpace[DefaultArch] \in Nat \ {0}
           /\ \A n : Masked(n) = n % AddressSpace[DefaultArch]
           /\ ImageOK /\ address \in Nat
           /\ \A n \in Int : Masked(n) \in Nat
<1>1. AddressSpace[DefaultArch] \in Nat \ {0}
  BY SizesAssumption
<1>2. address_mask = AddressSpace[DefaultArch] - 1 /\ ImageOK
  BY DEF InlineInv, TypeInv, ImageOK, Inlinable, AddressMask
<1>3. PICK S \in Nat \ {0} : S = AddressSpace[DefaultArch]
  BY <1>1
<1>4. address_mask + 1 = S
  BY <1>2, <1>3
<1>5. \A n : Masked(n) = n % S
  BY <1>4 DEF Masked
<1>6. \A n \in Int : n % S \in Nat
  BY Modulo
<1>7. address \in Nat
  BY <1>2, SizesAssumption DEF ImageOK
<1> QED BY <1>1, <1>2, <1>3, <1>5, <1>6, <1>7

LEMMA SameNames ==
    ASSUME UNCHANGED <<symbols, target>>
    PROVE  Names' = Names /\ last_parent' = last_parent
BY DEF symbols, target, Names, Masked

LEMMA SameImage ==
    ASSUME UNCHANGED <<image, target>>
    PROVE  Image' = Image /\ Masked(address)' = Masked(address)
BY DEF image, target, Image, Addresses, Masked

\* An address of the only processor.
Wrapped(n) == n % AddressSpace[DefaultArch]

LEMMA WrappedIs ==
    ASSUME Inlinable, InlineInv
    PROVE  /\ \A n : Masked(n) = Wrapped(n)
           /\ UNCHANGED target => \A n : n % (address_mask' + 1) = Wrapped(n)
<1>1. \A n : Masked(n) = Wrapped(n)
  BY MaskIs DEF Wrapped
<1>2. address_mask + 1 = AddressSpace[DefaultArch]
  BY SizesAssumption DEF InlineInv, TypeInv, ImageOK, Inlinable, AddressMask
<1>3. UNCHANGED target => address_mask' = address_mask
  BY DEF target
<1> QED BY <1>1, <1>2, <1>3 DEF Wrapped

LEMMA WrappedType ==
    ASSUME NEW n \in Int
    PROVE  Wrapped(n) \in Nat
<1>1. PICK S \in Nat \ {0} : S = AddressSpace[DefaultArch]
  BY SizesAssumption
<1>2. n % S \in Nat
  BY Modulo
<1> QED BY <1>1, <1>2 DEF Wrapped

Entries == [label : Paths, value : Int]
NamesOf(table) == [n \in DOMAIN table |-> [label |-> table[n].label, value |-> Wrapped(table[n].value)]]

LEMMA NamesAre ==
    ASSUME Inlinable, InlineInv
    PROVE  Names = NamesOf(symtab) /\ (UNCHANGED target => Names' = NamesOf(symtab'))
BY WrappedIs DEF Names, NamesOf, Masked

LEMMA NamesType ==
    ASSUME NEW table \in Seq(Symbol)
    PROVE  /\ NamesOf(table) \in Seq(Entries) /\ Len(NamesOf(table)) = Len(table)
           /\ DOMAIN NamesOf(table) = 1 .. Len(table)
           /\ \A n \in 1 .. Len(table) :
                 NamesOf(table)[n] = [label |-> table[n].label, value |-> Wrapped(table[n].value)]
<1>1. PICK N \in Nat : N = Len(table) /\ DOMAIN table = 1 .. N
  BY LenProperties
<1> DEFINE entry(n) == [label |-> table[n].label, value |-> Wrapped(table[n].value)]
<1>2. ASSUME NEW n \in 1 .. N PROVE entry(n) \in Entries
  <2>1. table[n] \in Symbol
    BY <1>1, ElementOfSeq
  <2>2. table[n].label \in Paths /\ table[n].value \in Int
    BY <2>1 DEF Symbol
  <2>3. Wrapped(table[n].value) \in Nat
    BY <2>2, WrappedType
  <2> QED BY <2>2, <2>3 DEF Entries
<1>3. NamesOf(table) = [n \in 1 .. N |-> entry(n)]
  BY <1>1 DEF NamesOf
<1> HIDE DEF entry
<1>4. /\ NamesOf(table) \in Seq(Entries) /\ Len(NamesOf(table)) = N
      /\ DOMAIN NamesOf(table) = 1 .. N
      /\ \A n \in 1 .. N : NamesOf(table)[n] = entry(n)
  BY <1>2, <1>3
<1> QED BY <1>1, <1>4 DEF entry

LEMMA NamesAppend ==
    ASSUME Inlinable, InlineInv, UNCHANGED target, NEW p, NEW v,
           [label |-> p, value |-> v] \in Symbol,
           symtab' = Append(symtab, [label |-> p, value |-> v])
    PROVE  Names' = Append(Names, [label |-> p, value |-> Masked(v)])
<1>1. PICK e \in Symbol : e = [label |-> p, value |-> v]
  OBVIOUS
<1>2. PICK s \in Seq(Symbol) : s = symtab
  BY DEF InlineInv, TypeInv, SymbolsOK
<1>3. PICK t : t = symtab'
  OBVIOUS
<1>4. PICK N \in Nat : N = Len(s)
  BY <1>2, LenProperties
<1>5. /\ t \in Seq(Symbol) /\ Len(t) = N + 1 /\ t[N + 1] = e
      /\ \A n \in 1 .. N : t[n] = s[n]
  <2>1. t = Append(s, e)
    BY <1>1, <1>2, <1>3
  <2> QED BY <1>4, <2>1, PushedStack
<1>6. PICK a \in Seq(Entries) :
         /\ a = NamesOf(s) /\ Len(a) = N
         /\ \A n \in 1 .. N : a[n] = [label |-> s[n].label, value |-> Wrapped(s[n].value)]
  BY <1>4, NamesType
<1>7. PICK b \in Seq(Entries) :
         /\ b = NamesOf(t) /\ Len(b) = N + 1
         /\ \A n \in 1 .. N + 1 : b[n] = [label |-> t[n].label, value |-> Wrapped(t[n].value)]
  BY <1>5, NamesType
<1>8. PICK x : x = [label |-> e.label, value |-> Wrapped(e.value)]
  OBVIOUS
<1>9. b[N + 1] = x /\ x \in Entries
  <2>1. N + 1 \in 1 .. N + 1
    BY <1>4
  <2>2. b[N + 1] = x
    BY <1>5, <1>7, <1>8, <2>1
  <2> QED BY <1>7, <2>1, <2>2, ElementOfSeq
<1>10. \A n \in 1 .. N : b[n] = a[n]
  <2> TAKE n \in 1 .. N
  <2>1. n \in 1 .. N + 1
    BY <1>4
  <2> QED BY <1>5, <1>6, <1>7, <2>1
<1>11. /\ Append(a, x) \in Seq(Entries) /\ Len(Append(a, x)) = N + 1
       /\ \A n \in 1 .. N : Append(a, x)[n] = a[n]
       /\ Append(a, x)[N + 1] = x
  BY <1>6, <1>9, PushedStack
<1>12. \A n \in 1 .. N + 1 : b[n] = Append(a, x)[n]
  <2> TAKE n \in 1 .. N + 1
  <2>1. n \in 1 .. N \/ n = N + 1
    BY <1>4
  <2> QED BY <1>9, <1>10, <1>11, <2>1
<1>13. b = Append(a, x)
  BY <1>7, <1>11, <1>12, SeqEqual
<1>14. Names = a /\ Names' = b /\ Masked(v) = Wrapped(v)
  BY <1>2, <1>3, <1>6, <1>7, NamesAre, WrappedIs
<1>15. x = [label |-> p, value |-> Masked(v)]
  BY <1>1, <1>8, <1>14
<1> QED BY <1>13, <1>14, <1>15

LEMMA NamesEqu ==
    ASSUME Inlinable, InlineInv, UNCHANGED target, symtab # <<>>, NEW v \in Int,
           symtab' = [symtab EXCEPT ![Len(symtab)].value = v], symtab' \in Seq(Symbol)
    PROVE  Names' = [Names EXCEPT ![Len(Names)].value = Wrapped(v)]
<1>1. PICK s \in Seq(Symbol) : s = symtab
  BY DEF InlineInv, TypeInv, SymbolsOK
<1>2. PICK t \in Seq(Symbol) : t = symtab'
  OBVIOUS
<1>3. PICK N \in Nat : N = Len(s) /\ DOMAIN s = 1 .. N /\ N \in 1 .. N
  BY <1>1, LenProperties, EmptySeq
<1>4. /\ Len(t) = N /\ \A n \in 1 .. N : n # N => t[n] = s[n]
      /\ t[N] = [s[N] EXCEPT !.value = v]
  <2>1. t = [s EXCEPT ![N].value = v]
    BY <1>1, <1>2, <1>3
  <2>2. DOMAIN t = 1 .. N
    BY <1>3, <2>1
  <2>3. Len(t) = N
    BY <1>3, <2>2, LenProperties
  <2> QED BY <1>3, <2>1, <2>3
<1>5. PICK a \in Seq(Entries) :
         /\ a = NamesOf(s) /\ Len(a) = N /\ DOMAIN a = 1 .. N
         /\ \A n \in 1 .. N : a[n] = [label |-> s[n].label, value |-> Wrapped(s[n].value)]
  BY <1>3, NamesType
<1>6. PICK b \in Seq(Entries) :
         /\ b = NamesOf(t) /\ Len(b) = N /\ DOMAIN b = 1 .. N
         /\ \A n \in 1 .. N : b[n] = [label |-> t[n].label, value |-> Wrapped(t[n].value)]
  BY <1>4, NamesType
<1>7. s[N] \in Symbol
  BY <1>3, ElementOfSeq
<1>8. t[N].label = s[N].label /\ t[N].value = v
  BY <1>4, <1>7 DEF Symbol
<1>9. b[N] = [a[N] EXCEPT !.value = Wrapped(v)]
  <2>1. b[N] = [label |-> s[N].label, value |-> Wrapped(v)]
    BY <1>3, <1>6, <1>8
  <2>2. a[N] = [label |-> s[N].label, value |-> Wrapped(s[N].value)]
    BY <1>3, <1>5
  <2> QED BY <2>1, <2>2
<1>10. ASSUME NEW n \in 1 .. N, n # N
       PROVE  b[n] = a[n]
  <2>1. t[n] = s[n]
    BY <1>4, <1>10
  <2>2. b[n] = [label |-> t[n].label, value |-> Wrapped(t[n].value)]
    BY <1>6, <1>10
  <2>3. a[n] = [label |-> s[n].label, value |-> Wrapped(s[n].value)]
    BY <1>5, <1>10
  <2> QED BY <2>1, <2>2, <2>3
<1>11. b = [n \in 1 .. N |-> b[n]] /\ a = [n \in 1 .. N |-> a[n]]
  BY <1>5, <1>6
<1>12. b = [a EXCEPT ![N].value = Wrapped(v)]
  BY <1>3, <1>5, <1>9, <1>10, <1>11
<1>13. Names = a /\ Names' = b
  BY <1>1, <1>2, <1>5, <1>6, NamesAre
<1> QED BY <1>5, <1>12, <1>13

\* The addresses of the bytes of one data entry, and of n bytes from here on.
BytesOf(entry) == [j \in 1 .. entry.bytec |-> Wrapped(entry.address + j - 1)]
Run(n)         == [j \in 1 .. n |-> Wrapped(Wrapped(address) + j - 1)]
ChunksOf(data) == [n \in DOMAIN data |-> BytesOf(data[n])]

LEMMA ImageIs ==
    ASSUME Inlinable, InlineInv
    PROVE  /\ Image = FlattenSeq(ChunksOf(datatab))
           /\ UNCHANGED target => Image' = FlattenSeq(ChunksOf(datatab'))
<1>1. \A e : Addresses(e) = BytesOf(e)
  BY WrappedIs DEF Addresses, BytesOf
<1>2. Image = FlattenSeq(ChunksOf(datatab))
  BY <1>1 DEF Image, ChunksOf
<1>3. ASSUME UNCHANGED target PROVE Image' = FlattenSeq(ChunksOf(datatab'))
  <2>1. \A n : n % (address_mask' + 1) = Wrapped(n)
    BY <1>3, WrappedIs
  <2> QED BY <2>1 DEF Image, Addresses, Masked, ChunksOf, BytesOf
<1> QED BY <1>2, <1>3

LEMMA BytesOfType ==
    ASSUME NEW e \in DataSet
    PROVE  BytesOf(e) \in Seq(Nat) /\ Len(BytesOf(e)) = e.bytec /\ e.bytec \in Nat /\ e.address \in Nat
<1>1. PICK n \in Nat : n = e.bytec
  BY DEF DataSet
<1>2. PICK a \in Nat : a = e.address
  BY DEF DataSet
<1>3. \A j \in 1 .. n : Wrapped(a + j - 1) \in Nat
  <2> TAKE j \in 1 .. n
  <2>1. a + j - 1 \in Int
    OBVIOUS
  <2> QED BY <2>1, WrappedType
<1>4. BytesOf(e) = [j \in 1 .. n |-> Wrapped(a + j - 1)]
  BY <1>1, <1>2 DEF BytesOf
<1>5. BytesOf(e) \in Seq(Nat) /\ Len(BytesOf(e)) = n
  BY <1>3, <1>4
<1> QED BY <1>1, <1>2, <1>5

LEMMA ChunksRows ==
    ASSUME NEW data \in Seq(DataSet)
    PROVE  /\ ChunksOf(data) \in Rows(Nat) /\ Len(ChunksOf(data)) = Len(data)
           /\ \A k \in 1 .. Len(data) : ChunksOf(data)[k] = BytesOf(data[k])
<1>1. PICK N \in Nat : N = Len(data) /\ DOMAIN data = 1 .. N
  BY LenProperties
<1> DEFINE t == ChunksOf(data)
<1>2. t = [k \in 1 .. N |-> BytesOf(data[k])]
  BY <1>1 DEF ChunksOf
<1>3. DOMAIN t = 1 .. N /\ t = [k \in 1 .. N |-> t[k]] /\ \A k \in 1 .. N : t[k] = BytesOf(data[k])
  BY <1>2
<1>4. ASSUME NEW k \in 1 .. N PROVE BytesOf(data[k]) \in Seq(Nat)
  <2>1. data[k] \in DataSet
    BY <1>1, ElementOfSeq
  <2> QED BY <2>1, BytesOfType
<1> HIDE DEF t
<1>5. t \in Rows(Nat) /\ Len(t) = N
  <2>1. \A k \in 1 .. N : t[k] \in Seq(Nat)
    BY <1>3, <1>4
  <2> QED BY <1>3, <2>1, RowsOf
<1> QED BY <1>1, <1>3, <1>5 DEF t

\* An entry of n bytes at the location counter lays them down there, wherever
\* in the entry its address was masked.
LEMMA DataPlaced ==
    ASSUME Inlinable, InlineInv, UNCHANGED target, NEW a \in Nat, NEW n \in Nat,
           NEW type \in {"BYTES", "EXPRESSION"}, AddData(a, n, type), Masked(a) = Masked(address)
    PROVE  /\ Image' = Image \o Run(n)
           /\ Masked(address)' = Wrapped(Wrapped(address) + n)
<1>1. PICK e \in DataSet : e = [address |-> a, bytec |-> n, type |-> type]
  BY DEF DataSet
<1>2. PICK d \in Seq(DataSet) : d = datatab
  BY DEF InlineInv, TypeInv, ImageOK
<1>3. PICK c : c = datatab'
  OBVIOUS
<1>4. PICK N \in Nat : N = Len(d)
  BY LenProperties
<1>5. /\ c \in Seq(DataSet) /\ Len(c) = N + 1 /\ c[N + 1] = e
      /\ \A k \in 1 .. N : c[k] = d[k]
  <2>1. c = Append(d, e)
    BY <1>1, <1>2, <1>3 DEF AddData
  <2> QED BY <1>4, <2>1, PushedStack
<1>6. PICK s \in Rows(Nat) : s = ChunksOf(d) /\ Len(s) = N /\ \A k \in 1 .. N : s[k] = BytesOf(d[k])
  BY <1>4, ChunksRows
<1>7. PICK t \in Rows(Nat) : /\ t = ChunksOf(c) /\ Len(t) = N + 1
                             /\ \A k \in 1 .. N + 1 : t[k] = BytesOf(c[k])
  BY <1>5, ChunksRows
<1>8. \A k \in 1 .. Len(s) : t[k] = s[k]
  <2> TAKE k \in 1 .. Len(s)
  <2>1. k \in 1 .. N /\ k \in 1 .. N + 1
    BY <1>4, <1>6
  <2> QED BY <1>5, <1>6, <1>7, <2>1
<1>9. t[N + 1] = BytesOf(e)
  <2>1. N + 1 \in 1 .. N + 1
    BY <1>4
  <2> QED BY <1>5, <1>7, <2>1
<1>10. FlattenSeq(t) = FlattenSeq(s) \o BytesOf(e)
  <2>1. Len(t) = Len(s) + 1 /\ Len(t) = N + 1
    BY <1>6, <1>7
  <2>2. FlattenSeq(t) = FlattenSeq(s) \o t[Len(t)]
    BY <1>8, <2>1, FlattenAppend
  <2> QED BY <1>9, <2>1, <2>2
<1>11. Image' = Image \o BytesOf(e)
  <2>1. Image = FlattenSeq(s) /\ Image' = FlattenSeq(t)
    BY <1>2, <1>3, <1>6, <1>7, ImageIs
  <2> QED BY <1>10, <2>1
<1>12. ImageOK /\ address \in Nat /\ \A k : Masked(k) = Wrapped(k)
  BY MaskIs, WrappedIs
<1>13. ASSUME NEW j \in 1 .. n PROVE Wrapped(a + j - 1) = Wrapped(Wrapped(address) + j - 1)
  <2>1. PICK m \in Int : m = j - 1
    OBVIOUS
  <2>2. Masked(Masked(a) + m) = Masked(a + m) /\ Masked(Masked(address) + m) = Masked(address + m)
    <3>1. ASSUME NEW k \in Int PROVE Masked(Masked(k) + m) = Masked(k + m)
      BY <1>12, <2>1, MaskedSum
    <3>2. a \in Int /\ address \in Int
      BY <1>12
    <3> QED BY <3>1, <3>2
  <2>3. Wrapped(a + m) = Wrapped(Wrapped(address) + m)
    BY <1>12, <2>2
  <2>4. Wrapped(address) \in Nat
    BY <1>12, WrappedType
  <2>5. a + j - 1 = a + m /\ Wrapped(address) + j - 1 = Wrapped(address) + m
    BY <2>1, <2>4
  <2> QED BY <2>3, <2>5
<1>14. BytesOf(e) = Run(n)
  <2>1. BytesOf(e) = [j \in 1 .. n |-> Wrapped(a + j - 1)]
    BY <1>1 DEF BytesOf
  <2> QED BY <1>13, <2>1 DEF Run
<1>15. Masked(address)' = Wrapped(Wrapped(address) + n)
  <2>1. Masked(Advance(n)) = Masked(address + n) /\ Masked(Masked(address) + n) = Masked(address + n)
    BY <1>12, MaskedSum
  <2>2. address' = Advance(n)
    BY DEF AddData
  <2>3. Masked(address)' = Wrapped(Advance(n))
    BY <2>2, WrappedIs DEF Masked
  <2> QED BY <1>12, <2>1, <2>3
<1> QED BY <1>11, <1>14, <1>15

-----------------------------------------------------------------------------
(* Steps: those that change nothing of what is left to do, those that      *)
(* reject it, and those that do the next part of it.                       *)

InlineRefines == [Inline!Next]_(Inline!vars)

LEMMA SameText ==
    ASSUME inlined' = inlined
    PROVE  /\ InputsTodo(1)' = InputsTodo(1)
           /\ UNCHANGED <<ctx, next_input>> => CallsTodo' = CallsTodo /\ After' = After
BY DEF InputsTodo, CallsTodo, CallTodo, After

LEMMA TodoIs == Todo = LineTodo \o After /\ Todo' = LineTodo' \o After'
BY DEF Todo, After

LEMMA LineOver ==
    ASSUME phase' \in {"main", "read"}
    PROVE  LineTodo' = <<>>
BY DEF LineTodo

LEMMA EvaluateLeft ==
    ASSUME phase' = "evaluate", UNCHANGED <<line, ctx, inlined>>
    PROVE  LineTodo' = SubSeq(Rest, i' + 1, Len(Rest))
BY DEF LineTodo, Rest, Included

LEMMA NextStatement ==
    ASSUME Inlinable, InlineInv, NEW x \in Statements, NEW s \in Seq(Statements),
           LineTodo = <<x>> \o s
    PROVE  Todo # <<>> /\ Head(Todo) = x /\ Tail(Todo) = s \o After /\ Todo = <<x>> \o (s \o After)
<1>1. After \in Seq(Statements)
  BY AfterType
<1>2. PICK r, t : r \in Seq(Statements) /\ r = After /\ t = Todo
  BY <1>1
<1>3. Begins(t, x, s, r)
  BY <1>2, TodoIs DEF Begins
<1>4. IsNext(t, x, s, r)
  BY <1>2, <1>3, NextIs
<1> QED BY <1>2, <1>4 DEF IsNext

LEMMA LastStatement ==
    ASSUME Inlinable, InlineInv, NEW x \in Statements, LineTodo = <<x>>
    PROVE  Todo # <<>> /\ Head(Todo) = x /\ Tail(Todo) = <<>> \o After /\ Todo = <<x>> \o (<<>> \o After)
<1>1. <<>> \in Seq(Statements) /\ LineTodo = <<x>> \o <<>>
  BY SingleStatement, ConcatLaws, EmptySeq
<1> QED BY <1>1, NextStatement

LEMMA StutterRefines ==
    ASSUME inlined' = inlined, Todo' = Todo, status' = status, UNCHANGED <<symbols, image, target>>
    PROVE  InlineRefines
<1>1. /\ InputsTodo(1)' = InputsTodo(1) /\ Names' = Names /\ last_parent' = last_parent
      /\ Image' = Image /\ Masked(address)' = Masked(address)
  BY SameText, SameNames, SameImage
<1>2. Outcome' = Outcome
  BY DEF Outcome
<1> QED BY <1>1, <1>2 DEF InlineRefines, Inline!vars

\* The same statements are left of the line, and the calls are the same.
LEMMA QuietRefines ==
    ASSUME inlined' = inlined, LineTodo' = LineTodo, status' = status,
           UNCHANGED <<ctx, next_input, symbols, image, target>>
    PROVE  InlineRefines
<1>1. Todo' = Todo
  BY SameText, TodoIs
<1> QED BY <1>1, StutterRefines

LEMMA NothingRefines ==
    ASSUME Inlinable, InlineInv, inlined' = inlined, UNCHANGED vars
    PROVE  InlineRefines
<1>1. LineTodo' = LineTodo
  BY DEF vars, LineTodo, Included
<1> QED BY <1>1, QuietRefines DEF vars, symbols, image, target

LEMMA RejectRefines ==
    ASSUME inlined' = inlined, status = "running", NEW how \in {"died", "crashed"}, Stop(how),
           Todo # <<>>,
           \/ Head(Todo).op = "error"
           \/ Head(Todo).op = "label" /\ ~Inline!Usable(Head(Todo).label)
    PROVE  InlineRefines
<1>1. LineTodo' = LineTodo
  BY DEF Stop, handler, calls, LineTodo, Included
<1>2. Todo' = Todo
  BY <1>1, SameText, TodoIs DEF Stop, calls, input
<1>3. /\ InputsTodo(1)' = InputsTodo(1) /\ Names' = Names /\ last_parent' = last_parent
      /\ Image' = Image /\ Masked(address)' = Masked(address)
  BY SameText, SameNames, SameImage DEF Stop
<1>4. Outcome = "running" /\ Outcome' = "stopped"
  BY DEF Outcome, Stop
<1>5. Inline!Reject
  BY <1>2, <1>3, <1>4 DEF Inline!Reject, Inline!Now
<1> QED BY <1>5 DEF InlineRefines, Inline!Next

\* A line that stands for an error.
LEMMA ErrorRefines ==
    ASSUME Inlinable, InlineInv, inlined' = inlined, In("evaluate"),
           line.mnemonic \notin Data, Rest = Error,
           NEW how \in {"died", "crashed"}, Stop(how)
    PROVE  InlineRefines
<1>1. status = "running" /\ LineTodo = Error
  BY LineTodoIs DEF In
<1>2. PICK x \in Statements : x = [op |-> "error"] /\ Error = <<x>>
  BY ErrorType
<1>3. Todo # <<>> /\ Head(Todo) = x
  BY <1>1, <1>2, LastStatement
<1>4. Head(Todo).op = "error"
  BY <1>2, <1>3
<1> QED BY <1>1, <1>3, <1>4, RejectRefines

LEMMA PlaceRefines ==
    ASSUME inlined' = inlined, status = "running", status' = status, UNCHANGED symbols, UNCHANGED target,
           NEW n \in Nat, NEW m \in 0 .. n, NEW r \in Seq(Statements),
           Todo # <<>>, Head(Todo) = Bytes(n), Tail(Todo) = r,
           Todo' = IF m = n THEN r ELSE <<Bytes(n - m)>> \o r,
           Image' = Image \o Run(m), Masked(address) = Wrapped(address),
           Masked(address)' = Wrapped(Wrapped(address) + m)
    PROVE  InlineRefines
<1>1. InputsTodo(1)' = InputsTodo(1) /\ Names' = Names /\ last_parent' = last_parent
  BY SameText, SameNames
<1>2. Outcome = "running" /\ Outcome' = "running"
  BY DEF Outcome
<1>3. Head(Todo).op = "bytes" /\ Head(Todo).count = n /\ m \in 0 .. Head(Todo).count
  BY BytesType
<1>4. [Head(Todo) EXCEPT !.count = @ - m] = Bytes(n - m)
  BY DEF Bytes
<1>5. Todo' = IF m = Head(Todo).count THEN Tail(Todo)
              ELSE <<[Head(Todo) EXCEPT !.count = @ - m]>> \o Tail(Todo)
  BY <1>3, <1>4
<1>6. Image' = Image \o [j \in 1 .. m |-> (Masked(address) + j - 1) % AddressSpace[DefaultArch]]
  BY DEF Run, Wrapped
<1>7. Masked(address)' = (Masked(address) + m) % AddressSpace[DefaultArch]
  BY DEF Wrapped
<1>8. Inline!Place
  BY <1>1, <1>2, <1>3, <1>5, <1>6, <1>7 DEF Inline!Place, Inline!Now
<1> QED BY <1>8 DEF InlineRefines, Inline!Next

-----------------------------------------------------------------------------
(* main and assemble.                                                      *)

LEMMA CallsAfter ==
    ASSUME InlineInv', inlined' = inlined, program' = program
    PROVE  Nested(ctx') /\ CallsTodo' = Left(ctx') /\ Len(ctx') \in Nat
<1>1. CallsOK'
  BY DEF InlineInv, TypeInv
<1>2. ctx' \in Seq(Frames) /\ DOMAIN ctx' = 1 .. Len(ctx') /\ Len(ctx') \in Nat
  BY <1>1, LenProperties DEF CallsOK
<1>3. Len(ctx') <= OPEN_MAX
  <2>1. open' = Len(ctx') + (IF phase' = "insert" THEN 1 ELSE 0) /\ open' <= OPEN_MAX
    BY <1>1 DEF CallsOK, StreamsBalanced
  <2>2. PICK N \in Nat : N = Len(ctx')
    BY <1>2
  <2> QED BY <2>1, <2>2, SizesAssumption
<1>4. \A k \in 1 .. Len(ctx') : Stands(ctx'[k])
  BY <1>1, <1>2, ElementOfSeq DEF CallsOK, Stands
<1>5. CallsTodo' = Left(ctx')
  BY DEF CallsTodo, CallTodo, Left, CallsOf, Text
<1> QED BY <1>2, <1>3, <1>4, <1>5 DEF Nested

\* A call starts with the whole of its file to do.
LEMMA CallStarts ==
    ASSUME Inlinable, InlineInv, InlineInv', inlined' = inlined, program' = program,
           NEW f \in Texts, ctx' = Append(ctx, Frame(f))
    PROVE  /\ inlined[Len(ctx) + 1][f][1] \in Seq(Statements)
           /\ CallsTodo' = inlined[Len(ctx) + 1][f][1] \o CallsTodo
<1>1. TablesOK(inlined) /\ program \in Programs /\ CallsOK
  BY DEF InlineInv, TypeInv, CallsOK
<1>2. PICK c : c = ctx /\ Nested(c) /\ CallsTodo = Left(c) /\ Len(c) \in Nat
  BY <1>1, CallsFit
<1>3. PICK d : d = ctx' /\ Nested(d) /\ CallsTodo' = Left(d)
  BY CallsAfter
<1>4. Frame(f) \in Frames /\ Frame(f).file = f /\ Frame(f).line_num = 0
  BY DEF Frame, Frames
<1>5. /\ Len(d) = Len(c) + 1 /\ d[Len(d)] = Frame(f)
      /\ \A n \in 1 .. Len(c) : d[n] = c[n]
  BY <1>2, <1>3, <1>4, PushedStack DEF Nested
<1>6. Left(d) = Text(Len(d), d[Len(d)]) \o Left(c)
  BY <1>1, <1>2, <1>3, <1>5, LeftPush
<1>7. Text(Len(d), d[Len(d)]) = inlined[Len(c) + 1][f][1]
  BY <1>4, <1>5 DEF Text
<1>8. Text(Len(d), d[Len(d)]) \in Seq(Statements)
  <2>1. Len(d) \in 1 .. OPEN_MAX /\ Stands(d[Len(d)])
    BY <1>2, <1>3, <1>5, SizesAssumption DEF Nested
  <2> QED BY <1>1, <2>1, TextIs
<1> QED BY <1>2, <1>3, <1>6, <1>7, <1>8

LEMMA OpenInputRefines ==
    ASSUME Inlinable, InlineInv, InlineInv', inlined' = inlined, OpenInput
    PROVE  InlineRefines
<1>1. /\ phase = "main" /\ ctx = <<>> /\ TablesOK(inlined) /\ program \in Programs
      /\ program' = program /\ next_input' = next_input + 1 /\ phase' = "read"
  BY DEF OpenInput, In, InlineInv, TypeInv, CallsOK
<1>2. PICK n \in 1 .. Len(Inputs) : n = next_input
  BY ProgramsAssumption, LenProperties DEF OpenInput, InlineInv, TypeInv, CallsOK
<1>3. PICK f \in Texts : f = Inputs[n]
  BY ProgramsAssumption, ElementOfSeq
<1>4. PICK X : X = inlined[1][f][1]
  OBVIOUS
<1>5. ctx' = Append(ctx, Frame(f))
  BY <1>1, <1>2, <1>3 DEF OpenInput
<1>6. X \in Seq(Statements) /\ CallsTodo' = X \o CallsTodo
  <2>1. Len(ctx) + 1 = 1
    BY <1>1
  <2>2. inlined[Len(ctx) + 1][f][1] = X
    BY <1>4, <2>1
  <2> QED BY <1>1, <1>5, <2>2, CallStarts
<1>7. CallsTodo = <<>> /\ LineTodo = <<>> /\ LineTodo' = <<>>
  BY <1>1, AfterType, LineTodoIs, LineOver
<1>8. PICK Y \in Seq(Statements) : Y = InputsTodo(n + 1)
  <2>1. n + 1 \in 1 .. Len(Inputs) + 1
    BY ProgramsAssumption, LenProperties
  <2> QED BY <1>1, <2>1, InputsLeft
<1>9. InputsTodo(n) = X \o Y
  <2>1. n \in 1 .. Len(Inputs) + 1 /\ n # Len(Inputs) + 1
    BY ProgramsAssumption, LenProperties
  <2> QED BY <1>1, <1>3, <1>4, <1>8, <2>1, InputsLeft
<1>10. After = <<>> \o (X \o Y)
  BY <1>2, <1>7, <1>9 DEF After
<1>11. After' = (X \o <<>>) \o Y
  <2>1. InputsTodo(next_input)' = Y
    BY <1>1, <1>2, <1>8 DEF InputsTodo
  <2> QED BY <1>6, <1>7, <2>1 DEF After
<1>12. After = After'
  <2>1. X \o <<>> = X /\ X \o Y \in Seq(Statements)
    BY <1>6, <1>8, ConcatLaws
  <2>2. <<>> \o (X \o Y) = X \o Y
    BY <2>1, ConcatLaws
  <2> QED BY <1>10, <1>11, <2>1, <2>2
<1>13. Todo' = Todo
  BY <1>7, <1>12, TodoIs
<1> QED BY <1>13, StutterRefines DEF OpenInput

LEMMA FinishRefines ==
    ASSUME Inlinable, InlineInv, inlined' = inlined, Finish
    PROVE  InlineRefines
<1>1. /\ phase = "main" /\ status = "running" /\ Stop("succeeded")
      /\ TablesOK(inlined) /\ program \in Programs
      /\ next_input \in 1 .. Len(Inputs) + 1 /\ next_input > Len(Inputs)
  BY DEF Finish, In, InlineInv, TypeInv, CallsOK
<1>2. next_input = Len(Inputs) + 1
  BY <1>1, ProgramsAssumption, LenProperties
<1>3. LineTodo = <<>> /\ CallsTodo = <<>> /\ InputsTodo(next_input) = <<>>
  BY <1>1, <1>2, LineTodoIs, AfterType, InputsLeft
<1>4. Todo = <<>>
  <2>1. <<>> \o <<>> = <<>>
    OBVIOUS
  <2> QED BY <1>3, <2>1 DEF Todo
<1>5. Todo' = Todo
  <2>1. LineTodo' = LineTodo
    BY <1>1 DEF Stop, handler, calls, LineTodo, Included
  <2> QED BY <1>1, <2>1, SameText, TodoIs DEF Stop, calls, input
<1>6. /\ InputsTodo(1)' = InputsTodo(1) /\ Names' = Names /\ last_parent' = last_parent
      /\ Image' = Image /\ Masked(address)' = Masked(address)
  BY <1>1, SameText, SameNames, SameImage DEF Stop
<1>7. Outcome = "running" /\ Outcome' = "assembled"
  BY <1>1 DEF Outcome, Stop
<1>8. Inline!Complete
  BY <1>4, <1>5, <1>6, <1>7 DEF Inline!Complete
<1> QED BY <1>8 DEF InlineRefines, Inline!Next

\* The innermost call, and what is left of those around it.
LEMMA TopLeft ==
    ASSUME Inlinable, InlineInv, ctx # <<>>, NEW b, b = SubSeq(ctx, 1, Len(ctx) - 1)
    PROVE  /\ Nested(b) /\ Len(b) = Len(ctx) - 1 /\ Left(b) \in Seq(Statements)
           /\ \A n \in 1 .. Len(ctx) - 1 : b[n] = ctx[n]
           /\ Len(ctx) \in 1 .. OPEN_MAX /\ Stands(Top)
           /\ CallsTodo = Text(Len(ctx), Top) \o Left(b)
           /\ Text(Len(ctx), Top) \in Seq(Statements)
<1>1. TablesOK(inlined) /\ program \in Programs /\ CallsOK
  BY DEF InlineInv, TypeInv, CallsOK
<1>2. Nested(ctx) /\ CallsTodo = Left(ctx) /\ Len(ctx) \in 1 .. OPEN_MAX
  BY <1>1, CallsFit
<1>3. /\ Nested(b) /\ Len(b) = Len(ctx) - 1 /\ \A n \in 1 .. Len(ctx) - 1 : b[n] = ctx[n]
      /\ Left(ctx) = Text(Len(ctx), ctx[Len(ctx)]) \o Left(b)
  BY <1>1, <1>2, LeftPop
<1>4. Left(b) \in Seq(Statements)
  BY <1>1, <1>3, LeftType
<1>5. Stands(Top)
  <2>1. Len(ctx) \in 1 .. Len(ctx)
    BY <1>2
  <2> QED BY <1>2, <2>1 DEF Nested, Top
<1>6. Text(Len(ctx), Top) \in Seq(Statements)
  BY <1>1, <1>2, <1>5, TextIs
<1> QED BY <1>2, <1>3, <1>4, <1>5, <1>6 DEF Top

LEMMA EndOfFileRefines ==
    ASSUME Inlinable, InlineInv, InlineInv', inlined' = inlined, EndOfFile
    PROVE  InlineRefines
<1>1. /\ phase = "read" /\ ctx # <<>> /\ phase' \in {"main", "read"} /\ ~HasLine
      /\ TablesOK(inlined) /\ program \in Programs /\ program' = program
      /\ next_input' = next_input
  BY DEF EndOfFile, In, InlineInv, TypeInv, CallsOK, Caller, input
<1>2. PICK b : b = ctx' /\ b = SubSeq(ctx, 1, Len(ctx) - 1)
  BY DEF EndOfFile
<1>3. /\ Left(b) \in Seq(Statements) /\ Len(ctx) \in 1 .. OPEN_MAX /\ Stands(Top)
      /\ CallsTodo = Text(Len(ctx), Top) \o Left(b)
  BY <1>1, <1>2, TopLeft
<1>4. Text(Len(ctx), Top) = <<>>
  <2>1. Top.line_num \in Nat /\ Len(program[Top.file]) \in Nat
    BY <1>1, <1>3, TextIs
  <2>2. Top.line_num = Len(program[Top.file])
    BY <1>1, <1>3, <2>1 DEF HasLine, Stands
  <2> QED BY <1>1, <1>3, <2>2, TextIs
<1>5. CallsTodo' = CallsTodo
  <2>1. CallsTodo' = Left(b)
    BY <1>1, <1>2, CallsAfter
  <2>2. <<>> \o Left(b) = Left(b)
    BY <1>3, ConcatLaws
  <2> QED BY <1>3, <1>4, <2>1, <2>2
<1>6. After' = After
  BY <1>1, <1>5 DEF After, InputsTodo
<1>7. LineTodo = <<>> /\ LineTodo' = <<>>
  BY <1>1, LineTodoIs, LineOver
<1>8. Todo' = Todo
  BY <1>6, <1>7, TodoIs
<1> QED BY <1>8, StutterRefines DEF EndOfFile

\* The next line of the innermost call is what is left of it, with the rest of
\* the file after it.
LEMMA LineAhead ==
    ASSUME Inlinable, InlineInv, phase = "read", HasLine, NEW b, b = SubSeq(ctx, 1, Len(ctx) - 1)
    PROVE  LET p  == Len(ctx)
               ls == LineStatements(TextLine, p, Included(p))
               t  == inlined[p][Top.file][Top.line_num + 2]
           IN  /\ ctx # <<>> /\ p \in 1 .. OPEN_MAX
               /\ ls \in Seq(Statements) /\ t \in Seq(Statements) /\ Left(b) \in Seq(Statements)
               /\ CallsTodo = (ls \o t) \o Left(b)
<1>1. /\ ctx # <<>> /\ TablesOK(inlined) /\ program \in Programs /\ CallsOK
  BY DEF InlineInv, TypeInv, CallsOK
<1>2. PICK p \in 1 .. OPEN_MAX : p = Len(ctx)
  BY <1>1, TopLeft
<1>3. Left(b) \in Seq(Statements) /\ Stands(Top) /\ CallsTodo = Text(p, Top) \o Left(b)
  BY <1>1, <1>2, TopLeft
<1>4. PICK n \in Nat : n = Top.line_num
  BY <1>1, <1>3, TextIs
<1>5. PICK f \in DOMAIN program : f = Top.file
  BY <1>3 DEF Stands
<1>6. PICK N \in Nat : N = Len(program[f])
  BY <1>1, <1>2, <1>3, <1>5, TextIs
<1>7. n < N /\ TextLine = program[f][n + 1]
  BY <1>4, <1>5, <1>6 DEF HasLine, TextLine
<1>8. Text(p, Top) = LineStatements(TextLine, p, Included(p)) \o inlined[p][f][n + 2]
  BY <1>1, <1>3, <1>4, <1>5, <1>6, <1>7, TextIs
<1>9. inlined[p][f][n + 2] \in Seq(Statements)
  <2>1. Listed(inlined[p], p, Below(p, inlined))
    BY <1>1 DEF TablesOK
  <2>2. n + 2 \in 1 .. N + 1
    BY <1>7
  <2> QED BY <1>6, <2>1, <2>2 DEF Listed
<1>10. LineStatements(TextLine, p, Included(p)) \in Seq(Statements)
  <2>1. TextLine \in Lines /\ TextLine.mnemonic # "ARCH"
    <3>1. TextLine \in Lines
      BY <1>1, TextLineType
    <3>2. program[f] \in Seq(Lines)
      BY <1>1, ProgramsAssumption
    <3>3. n + 1 \in DOMAIN program[f]
      BY <1>6, <1>7, <3>2, LenProperties
    <3> QED BY <1>1, <1>7, <3>1, <3>3 DEF Inlinable
  <2>2. \A g \in DOMAIN Included(p) : Included(p)[g] \in Seq(Statements)
    BY IncludedType
  <2> QED BY <2>1, <2>2, LineType
<1> QED BY <1>1, <1>2, <1>3, <1>4, <1>5, <1>8, <1>9, <1>10

\* Nothing before the rest of a file, of the calls and of the input, its first
\* line still in it, or that line before the rest.
Unread(s, t, u, v) == <<>> \o (((s \o t) \o u) \o v)
Read(s, t, u, v)   == s \o ((t \o u) \o v)

LEMMA Regrouped ==
    ASSUME NEW S, NEW s \in Seq(S), NEW t \in Seq(S), NEW u \in Seq(S), NEW v \in Seq(S)
    PROVE  Unread(s, t, u, v) = Read(s, t, u, v)
<1>1. s \o t \in Seq(S) /\ t \o u \in Seq(S)
  BY ConcatProperties
<1>2. (s \o t) \o u \in Seq(S)
  BY <1>1, ConcatProperties
<1>3. ((s \o t) \o u) \o v \in Seq(S)
  BY <1>2, ConcatProperties
<1>4. <<>> \o (((s \o t) \o u) \o v) = ((s \o t) \o u) \o v
  BY <1>3, ConcatEmptySeq
<1>5. (s \o t) \o u = s \o (t \o u)
  BY ConcatAssociative
<1>6. PICK x \in Seq(S) : x = t \o u
  BY <1>1
<1>7. (s \o x) \o v = s \o (x \o v)
  BY ConcatAssociative
<1> QED BY <1>4, <1>5, <1>6, <1>7 DEF Unread, Read

LEMMA ReadLineRefines ==
    ASSUME Inlinable, InlineInv, InlineInv', inlined' = inlined, ReadLine
    PROVE  InlineRefines
<1>1. /\ phase = "read" /\ HasLine /\ ~Overflows(TextLine, LINE_ARG_MAX)
      /\ line' = Parsed(TextLine) /\ ctx' = [ctx EXCEPT ![Len(ctx)] = LineRead]
      /\ phase' = "label" /\ program' = program /\ next_input' = next_input
  BY DEF ReadLine, In, input
<1>2. PICK b : b = SubSeq(ctx, 1, Len(ctx) - 1)
  OBVIOUS
<1>3. PICK p \in 1 .. OPEN_MAX : p = Len(ctx) /\ ctx # <<>>
  BY <1>1, <1>2, LineAhead
<1>4. PICK ls \in Seq(Statements), t \in Seq(Statements) :
         /\ ls = LineStatements(TextLine, p, Included(p))
         /\ t = inlined[p][Top.file][Top.line_num + 2]
         /\ Left(b) \in Seq(Statements)
         /\ CallsTodo = (ls \o t) \o Left(b)
  BY <1>1, <1>2, <1>3, LineAhead
<1>5. /\ TablesOK(inlined) /\ program \in Programs
  BY DEF InlineInv, TypeInv, CallsOK
<1>6. /\ Len(ctx') = p /\ ctx'[p] = LineRead
      /\ \A n \in 1 .. p - 1 : ctx'[n] = ctx[n]
  <2>1. ctx \in Seq(Frames) /\ DOMAIN ctx = 1 .. p /\ p \in 1 .. p
    BY <1>3, LenProperties DEF InlineInv, TypeInv, CallsOK
  <2>2. DOMAIN ctx' = 1 .. p /\ ctx'[p] = LineRead /\ \A n \in 1 .. p - 1 : ctx'[n] = ctx[n]
    BY <1>1, <1>3, <2>1
  <2>3. ctx' \in Seq(Frames)
    BY DEF InlineInv, TypeInv, CallsOK
  <2>4. Len(ctx') = p
    BY <2>2, <2>3, LenProperties
  <2> QED BY <2>2, <2>4
<1>7. CallsTodo' = t \o Left(b)
  <2>1. Nested(ctx') /\ CallsTodo' = Left(ctx')
    BY <1>1, CallsAfter
  <2>2. Nested(b) /\ Len(b) = p - 1 /\ \A n \in 1 .. p - 1 : b[n] = ctx[n]
    BY <1>2, <1>3, TopLeft
  <2>3. Len(ctx') = Len(b) + 1 /\ \A n \in 1 .. Len(b) : ctx'[n] = b[n]
    BY <1>3, <1>6, <2>2
  <2>4. Left(ctx') = Text(Len(ctx'), ctx'[Len(ctx')]) \o Left(b)
    BY <1>5, <2>1, <2>2, <2>3, LeftPush
  <2>5. Text(Len(ctx'), ctx'[Len(ctx')]) = t
    <3>1. LineRead.file = Top.file /\ LineRead.line_num + 1 = Top.line_num + 2
      <4>1. Top.line_num \in Nat
        BY <1>3, TopLeft DEF Stands, Frames
      <4> QED BY <4>1 DEF LineRead
    <3> QED BY <1>4, <1>6, <3>1 DEF Text
  <2> QED BY <2>1, <2>4, <2>5
<1>8. LineTodo = <<>> /\ LineTodo' = ls
  <2>1. LineTodo = <<>>
    BY <1>1, LineTodoIs
  <2>2. LineTodo' = LabelStatement(Parsed(TextLine)) \o MnemonicStatements(Parsed(TextLine), p, Included(p))
    <3>1. Included(p)' = Included(p)
      BY DEF Included
    <3> QED BY <1>1, <1>6, <3>1 DEF LineTodo, Included
  <2>3. LabelStatement(Parsed(TextLine)) = LabelStatement(TextLine)
    BY DEF LabelStatement, Parsed
  <2> QED BY <1>1, <1>4, <2>1, <2>2, <2>3 DEF LineStatements
<1>9. PICK Y \in Seq(Statements) : Y = InputsTodo(next_input) /\ InputsTodo(next_input)' = Y
  BY <1>1, AfterType DEF InputsTodo
<1>10. PICK B \in Seq(Statements) : B = Left(b)
  BY <1>4
<1>11. Todo = Unread(ls, t, B, Y) /\ Todo' = Read(ls, t, B, Y)
  BY <1>4, <1>7, <1>8, <1>9, <1>10, TodoIs DEF After, Unread, Read
<1>12. Todo' = Todo
  BY <1>11, Regrouped
<1> QED BY <1>12, StutterRefines DEF ReadLine

LEMMA TooManyArgumentsRefines ==
    ASSUME Inlinable, InlineInv, inlined' = inlined, TooManyArguments
    PROVE  InlineRefines
<1>1. /\ phase = "read" /\ HasLine /\ Overflows(TextLine, LINE_ARG_MAX)
      /\ status = "running" /\ Stop("crashed")
  BY DEF TooManyArguments, In, Fail
<1>2. PICK b : b = SubSeq(ctx, 1, Len(ctx) - 1)
  OBVIOUS
<1>3. PICK x \in Statements : x = [op |-> "error"] /\ Error = <<x>>
  BY ErrorType
<1>4. PICK t \in Seq(Statements) :
         /\ Left(b) \in Seq(Statements)
         /\ CallsTodo = (Error \o t) \o Left(b)
  <2>1. LineStatements(TextLine, Len(ctx), Included(Len(ctx))) = Error
    BY <1>1 DEF LineStatements
  <2> QED BY <1>1, <1>2, <2>1, LineAhead
<1>5. LineTodo = <<>>
  BY <1>1, LineTodoIs
<1>6. PICK Y \in Seq(Statements) : Y = InputsTodo(next_input)
  BY AfterType
<1>7. PICK B \in Seq(Statements) : B = Left(b)
  BY <1>4
<1>8. Todo = (<<x>> \o (t \o B)) \o Y
  <2>1. Todo = <<>> \o (((<<x>> \o t) \o B) \o Y)
    BY <1>3, <1>4, <1>5, <1>6, <1>7, TodoIs DEF After
  <2>2. <<x>> \in Seq(Statements)
    BY SingleStatement
  <2>3. (<<x>> \o t) \o B = <<x>> \o (t \o B) /\ t \o B \in Seq(Statements)
    BY <2>2, ConcatLaws
  <2>4. (<<x>> \o (t \o B)) \o Y \in Seq(Statements)
    BY <2>2, <2>3, ConcatLaws
  <2> QED BY <2>1, <2>3, <2>4, ConcatLaws
<1>9. t \o B \in Seq(Statements)
  BY ConcatLaws
<1>10. Todo # <<>> /\ Head(Todo) = x
  <2>1. Begins(Todo, x, t \o B, Y)
    BY <1>8 DEF Begins
  <2>2. IsNext(Todo, x, t \o B, Y)
    BY <1>9, <2>1, NextIs
  <2> QED BY <2>2 DEF IsNext
<1>11. Head(Todo).op = "error"
  BY <1>3, <1>10
<1> QED BY <1>1, <1>10, <1>11, RejectRefines

-----------------------------------------------------------------------------
(* The label.                                                              *)

LEMMA LabelFirst ==
    ASSUME Inlinable, InlineInv, phase = "label", NEW l \in line.label
    PROVE  /\ l \in Labels /\ [op |-> "label", label |-> l] \in Statements
           /\ Rest \in Seq(Statements)
           /\ Todo # <<>> /\ Head(Todo) = [op |-> "label", label |-> l] /\ Tail(Todo) = Rest \o After
<1>1. line.label \in SUBSET Labels /\ OneLabel(line)
  BY DEF InlineInv, TypeInv, LineOK, ParsedLines
<1>2. PICK x \in Statements : x = [op |-> "label", label |-> l]
  BY <1>1 DEF Statements
<1>3. LabelStatement(line) = <<x>>
  <2>1. (CHOOSE k \in line.label : TRUE) = l
    BY <1>1 DEF OneLabel
  <2>2. line.label # {}
    OBVIOUS
  <2> QED BY <1>2, <2>1, <2>2 DEF LabelStatement
<1>4. Rest \in Seq(Statements) /\ LineTodo = <<x>> \o Rest
  BY <1>3, RestType, LineTodoIs
<1>5. Todo # <<>> /\ Head(Todo) = x /\ Tail(Todo) = Rest \o After
  BY <1>4, NextStatement
<1> QED BY <1>1, <1>2, <1>4, <1>5

LEMMA UsableIs ==
    ASSUME Inlinable, InlineInv, NEW l \in Labels
    PROVE  /\ Inline!Usable(l) <=> ~Orphan(l) /\ ~Defined(Resolved(l))
           /\ Inline!FullName(l) = Resolved(l)
<1>1. Inline!FullName(l) = Resolved(l)
  BY DEF Inline!FullName, Resolved
<1>2. /\ DOMAIN Names = DOMAIN symtab
      /\ \A n \in DOMAIN symtab : Names[n].label = symtab[n].label
  BY DEF Names
<1> QED BY <1>1, <1>2 DEF Inline!Usable, Orphan, Defined

LEMMA RestAfterLabel ==
    ASSUME Inlinable, InlineInv, inlined' = inlined, phase = "label", phase' = "evaluate",
           UNCHANGED <<line, i, ctx>>
    PROVE  LineTodo' = Rest
<1>1. i = 0
  BY DEF InlineInv, TypeInv, LineOK
<1>2. Rest \in Seq(Statements)
  BY RestType
<1>3. LineTodo' = SubSeq(Rest, 0 + 1, Len(Rest))
  BY <1>1, EvaluateLeft
<1>4. 0 \in 0 .. Len(Rest)
  BY <1>2, LenProperties
<1> QED BY <1>2, <1>3, <1>4, FromIndex

LEMMA NoLabelRefines ==
    ASSUME Inlinable, InlineInv, inlined' = inlined, NoLabel
    PROVE  InlineRefines
<1>1. phase = "label" /\ phase' = "evaluate" /\ line.label = {} /\ UNCHANGED <<line, i, ctx>>
  BY DEF NoLabel, In, handler, calls
<1>2. LineTodo' = Rest /\ Rest \in Seq(Statements)
  BY <1>1, RestAfterLabel, RestType
<1>3. LineTodo = <<>> \o Rest
  BY <1>1, LineTodoIs DEF LabelStatement
<1>4. LineTodo' = LineTodo
  BY <1>2, <1>3, ConcatLaws
<1> QED BY <1>4, QuietRefines DEF NoLabel, calls, input

LEMMA AddLabelRefines ==
    ASSUME Inlinable, InlineInv, InlineInv', inlined' = inlined, AddLabel
    PROVE  InlineRefines
<1>1. /\ phase = "label" /\ phase' = "evaluate" /\ UNCHANGED <<line, i, ctx, next_input>>
      /\ status = "running" /\ status' = status /\ UNCHANGED <<image, target>>
  BY DEF AddLabel, In, handler, calls, input
<1>2. PICK l \in line.label :
         /\ ~Orphan(l) /\ ~Defined(Resolved(l))
         /\ symtab' = Append(symtab, [label |-> Resolved(l), value |-> address])
         /\ last_parent' = Parent(l)
  BY DEF AddLabel
<1>3. /\ l \in Labels /\ Rest \in Seq(Statements)
      /\ Todo # <<>> /\ Head(Todo) = [op |-> "label", label |-> l] /\ Tail(Todo) = Rest \o After
  BY <1>1, LabelFirst
<1>4. Todo' = Tail(Todo)
  <2>1. LineTodo' = Rest
    BY <1>1, RestAfterLabel
  <2>2. After' = After
    BY <1>1, SameText
  <2> QED BY <1>3, <2>1, <2>2, TodoIs
<1>5. Inline!Usable(l) /\ Inline!FullName(l) = Resolved(l)
  BY <1>2, <1>3, UsableIs
<1>6. Names' = Append(Names, [label |-> Resolved(l), value |-> Masked(address)])
  <2>1. [label |-> Resolved(l), value |-> address] \in Symbol
    <3>1. Resolved(l) \in Paths
      BY <1>2, <1>3, ResolvedType DEF InlineInv, TypeInv
    <3>2. address \in Int
      BY MaskIs
    <3> QED BY <3>1, <3>2 DEF Symbol
  <2>2. PICK p, v : p = Resolved(l) /\ v = address
    OBVIOUS
  <2>3. Names' = Append(Names, [label |-> p, value |-> Masked(v)])
    BY <1>1, <1>2, <2>1, <2>2, NamesAppend
  <2> QED BY <2>2, <2>3
<1>7. InputsTodo(1)' = InputsTodo(1) /\ Image' = Image /\ Masked(address)' = Masked(address)
  BY <1>1, SameText, SameImage
<1>8. Outcome = "running" /\ Outcome' = Outcome
  BY <1>1 DEF Outcome
<1>9. last_parent' = IF l.local THEN last_parent ELSE l.path
  BY <1>2 DEF Parent
<1>10. Head(Todo).op = "label" /\ Head(Todo).label = l
  BY <1>3
<1>11. Inline!Define
  BY <1>3, <1>4, <1>5, <1>6, <1>7, <1>8, <1>9, <1>10 DEF Inline!Define, Inline!Now, Inline!Done
<1> QED BY <1>11 DEF InlineRefines, Inline!Next

LEMMA LabelErrorRefines ==
    ASSUME Inlinable, InlineInv, inlined' = inlined, LabelError
    PROVE  InlineRefines
<1>1. phase = "label" /\ status = "running" /\ Stop("crashed")
  BY DEF LabelError, In, Fail
<1>2. PICK l \in line.label : Orphan(l) \/ Defined(Resolved(l))
  BY DEF LabelError
<1>3. l \in Labels /\ Todo # <<>> /\ Head(Todo).op = "label" /\ Head(Todo).label = l
  <2>1. l \in Labels /\ Todo # <<>> /\ Head(Todo) = [op |-> "label", label |-> l]
    BY <1>1, LabelFirst
  <2> QED BY <2>1
<1>4. ~Inline!Usable(l)
  BY <1>2, <1>3, UsableIs
<1> QED BY <1>1, <1>3, <1>4, RejectRefines

-----------------------------------------------------------------------------
(* The mnemonic and its handler.                                           *)

\* What a mnemonic with the statements of Rest leaves when the line is over.
LEMMA LineDone ==
    ASSUME Inlinable, InlineInv, inlined' = inlined, LineTodo = <<>>,
           NextLine, status' = status, UNCHANGED <<input, calls, symbols, target, image>>
    PROVE  InlineRefines
<1>1. LineTodo' = <<>>
  BY LineOver DEF NextLine
<1> QED BY <1>1, QuietRefines DEF input, calls

LEMMA NothingLeft ==
    ASSUME Inlinable, InlineInv, phase = "evaluate",
           \/ line.mnemonic \in {"", "ABX", "RES"}
           \/ line.mnemonic \in Data /\ i = Len(line.argv)
    PROVE  LineTodo = <<>>
<1>1. CASE line.mnemonic \in {"", "ABX", "RES"}
  <2>1. line.mnemonic \notin Data \cup {"EQU", "INCLUDE", "INSERT", "ORG", "unknown"}
    BY <1>1 DEF Data, Width
  <2>2. Rest = <<>>
    BY <2>1, StandsForNothing DEF Rest
  <2> QED BY <2>1, <2>2, LineTodoIs
<1>2. CASE line.mnemonic \in Data /\ i = Len(line.argv)
  <2>1. Rest \in Seq(Statements) /\ i \in 0 .. Len(Rest) /\ i = Len(Rest)
    BY <1>2, DataRest
  <2>2. PICK r : r \in Seq(Statements) /\ r = Rest /\ i = Len(r)
    BY <2>1
  <2>3. SubSeq(r, Len(r) + 1, Len(r)) = <<>>
    BY <2>2, FromLast
  <2> QED BY <2>2, <2>3, LineTodoIs
<1> QED BY <1>1, <1>2

LEMMA NoStatementRefines ==
    ASSUME Inlinable, InlineInv, inlined' = inlined, NoMnemonic \/ NoEffect \/ SetDataReturns
    PROVE  InlineRefines
<1>1. /\ phase = "evaluate" /\ NextLine /\ status' = status
      /\ UNCHANGED <<input, calls, symbols, target, image>>
      /\ \/ line.mnemonic \in {"", "ABX", "RES"}
         \/ line.mnemonic \in Data /\ i = Len(line.argv)
  BY DEF NoMnemonic, NoEffect, SetDataReturns, Evaluating, In
<1>2. LineTodo = <<>>
  BY <1>1, NothingLeft
<1> QED BY <1>1, <1>2, LineDone

LEMMA InvalidMnemonicRefines ==
    ASSUME Inlinable, InlineInv, inlined' = inlined, InvalidMnemonic
    PROVE  InlineRefines
<1>1. In("evaluate") /\ line.mnemonic = "unknown" /\ Stop("died")
  BY DEF InvalidMnemonic
<1>2. Rest = Error /\ line.mnemonic \notin Data
  BY <1>1, StandsForError DEF Rest, Data, Width
<1> QED BY <1>1, <1>2, ErrorRefines

\* The handlers with one argument find it on their line.
LEMMA TheArgument ==
    ASSUME InlineInv, line.mnemonic \in {"ORG", "INCLUDE", "INSERT"}
    PROVE  Argv0 = {line.argv[1]} /\ line.mnemonic \notin Data
BY DEF InlineInv, Argv0, Data, Width

\* While a mnemonic is evaluated, the open files are those of the calls.
LEMMA OpenCalls ==
    ASSUME InlineInv, phase = "evaluate"
    PROVE  open = Len(ctx)
<1>1. Len(ctx) \in Nat
  BY LenProperties DEF InlineInv, TypeInv, CallsOK
<1> QED BY <1>1 DEF InlineInv, TypeInv, CallsOK, StreamsBalanced

LEMMA SetDataRefines ==
    ASSUME Inlinable, InlineInv, inlined' = inlined, SetData
    PROVE  InlineRefines
<1>1. /\ phase = "evaluate" /\ status = "running" /\ status' = status /\ line.mnemonic \in Data
      /\ i < Len(line.argv) /\ i' = i + 1 /\ phase' = phase
      /\ ArgEntry(line.argv[i + 1])
      /\ UNCHANGED <<line, ctx, next_input>> /\ UNCHANGED symbols /\ UNCHANGED target
  BY DEF SetData, Evaluating, In, input, calls
<1>2. /\ Rest \in Seq(Statements) /\ Len(Rest) = Len(line.argv) /\ i \in 0 .. Len(Rest)
      /\ \A k \in 1 .. Len(line.argv) : Rest[k] = ArgBytes(line, line.argv[k])
  BY <1>1, DataRest
<1>3. PICK k \in 1 .. Len(line.argv) : k = i + 1
  BY <1>1, <1>2
<1>4. line \in ParsedLines /\ i \in Nat
  BY <1>2 DEF InlineInv, TypeInv, LineOK
<1>5. PICK n \in Nat, type \in {"BYTES", "EXPRESSION"} :
         Rest[k] = Bytes(n) /\ AddData(Masked(address), n, type)
  <2>1. CASE line.argv[k].type = "STRING"
    <3>1. Rest[k] = Bytes(Strlen[line.argv[k].str]) /\ Strlen[line.argv[k].str] \in Nat
      BY <1>1, <1>2, <1>4, <2>1, DataType
    <3>2. AddData(Masked(address), Strlen[line.argv[k].str], "BYTES")
      BY <1>1, <1>3, <2>1 DEF ArgEntry
    <3> QED BY <3>1, <3>2
  <2>2. CASE line.argv[k].type # "STRING"
    <3>1. Rest[k] = Bytes(Width[line.mnemonic]) /\ Width[line.mnemonic] \in Nat
      BY <1>1, <1>2, <1>4, <2>2, DataType
    <3>2. AddData(Masked(address), Width[line.mnemonic], "EXPRESSION")
      BY <1>1, <1>3, <2>2 DEF ArgEntry
    <3> QED BY <3>1, <3>2
  <2> QED BY <2>1, <2>2
<1>6. PICK s \in Seq(Statements) : s = SubSeq(Rest, i + 2, Len(Rest))
  <2>1. i + 1 \in 0 .. Len(Rest) /\ (i + 1) + 1 = i + 2
    BY <1>1, <1>2, <1>4
  <2> QED BY <1>2, <2>1, FromIndex
<1>7. LineTodo = <<Bytes(n)>> \o s
  <2>1. i # Len(Rest)
    BY <1>1, <1>2
  <2>2. SubSeq(Rest, i + 1, Len(Rest)) = <<Rest[i + 1]>> \o SubSeq(Rest, i + 2, Len(Rest))
    BY <1>2, <2>1, FromIndex
  <2> QED BY <1>1, <1>3, <1>5, <1>6, <2>2, LineTodoIs
<1>8. Todo # <<>> /\ Head(Todo) = Bytes(n) /\ Tail(Todo) = s \o After
  BY <1>7, BytesType, NextStatement
<1>9. Todo' = s \o After
  <2>1. LineTodo' = SubSeq(Rest, (i + 1) + 1, Len(Rest))
    BY <1>1, EvaluateLeft
  <2>2. (i + 1) + 1 = i + 2
    BY <1>4
  <2> QED BY <1>1, <1>6, <2>1, <2>2, SameText, TodoIs
<1>10. Image' = Image \o Run(n) /\ Masked(address)' = Wrapped(Wrapped(address) + n)
  <2>1. Masked(address) \in Nat /\ Masked(Masked(address)) = Masked(address)
    BY MaskIs, MaskedSum
  <2> QED BY <1>1, <1>5, <2>1, DataPlaced
<1>11. s \o After \in Seq(Statements) /\ Masked(address) = Wrapped(address)
  BY AfterType, WrappedIs, ConcatProperties
<1>12. n \in 0 .. n
  OBVIOUS
<1> QED BY <1>1, <1>8, <1>9, <1>10, <1>11, <1>12, PlaceRefines

LEMMA EquRefines ==
    ASSUME Inlinable, InlineInv, InlineInv', inlined' = inlined, Equ
    PROVE  InlineRefines
<1>1. /\ phase = "evaluate" /\ status = "running" /\ status' = status /\ line.mnemonic = "EQU"
      /\ CanEqu /\ NextLine /\ symtab' = [symtab EXCEPT ![Len(symtab)].value = Value[line.argv[1].str]]
      /\ UNCHANGED <<ctx, next_input, last_parent>> /\ UNCHANGED image /\ UNCHANGED target
  BY DEF Equ, Evaluating, In, input, calls
<1>2. PICK v \in Int : v = Value[line.argv[1].str]
  BY <1>1, TextsAssumption DEF CanEqu
<1>3. PICK x \in Statements : x = [op |-> "equ", value |-> v]
  BY DEF Statements
<1>4. LineTodo = <<x>>
  <2>1. line.mnemonic \notin Data
    BY <1>1 DEF Data, Width
  <2>2. Rest = <<x>>
    BY <1>1, <1>2, <1>3, StandsForEqu DEF Rest, CanEqu
  <2> QED BY <1>1, <2>1, <2>2, LineTodoIs
<1>5. Todo # <<>> /\ Head(Todo) = x /\ Tail(Todo) = <<>> \o After
  BY <1>4, LastStatement
<1>6. Todo' = Tail(Todo)
  <2>1. LineTodo' = <<>>
    BY <1>1, LineOver DEF NextLine
  <2> QED BY <1>1, <1>5, <2>1, SameText, TodoIs
<1>7. symtab # <<>>
  BY <1>1 DEF CanEqu, InlineInv, TypeInv, SymbolsOK
<1>8. Names' = [Names EXCEPT ![Len(Names)].value = Wrapped(v)]
  <2>1. symtab' \in Seq(Symbol)
    BY DEF InlineInv, TypeInv, SymbolsOK
  <2> QED BY <1>1, <1>2, <1>7, <2>1, NamesEqu
<1>9. Names' = [Names EXCEPT ![Len(Names)].value = Head(Todo).value % AddressSpace[DefaultArch]]
  <2>1. Head(Todo).value = v
    BY <1>3, <1>5
  <2> QED BY <1>8, <2>1 DEF Wrapped
<1>10. InputsTodo(1)' = InputsTodo(1) /\ Image' = Image /\ Masked(address)' = Masked(address)
  BY <1>1, SameText, SameImage
<1>11. Outcome = "running" /\ Outcome' = Outcome
  BY <1>1 DEF Outcome
<1>12. Head(Todo).op = "equ"
  BY <1>3, <1>5
<1>13. Inline!Equate
  BY <1>1, <1>5, <1>6, <1>9, <1>10, <1>11, <1>12 DEF Inline!Equate, Inline!Now, Inline!Done
<1> QED BY <1>13 DEF InlineRefines, Inline!Next

LEMMA EquErrorRefines ==
    ASSUME Inlinable, InlineInv, inlined' = inlined, EquError
    PROVE  InlineRefines
<1>1. In("evaluate") /\ line.mnemonic = "EQU" /\ Stop("crashed") /\ ~CanEqu
  BY DEF EquError, Evaluating, Fail
<1>2. Rest = Error /\ line.mnemonic \notin Data
  BY <1>1, StandsForEqu DEF Rest, CanEqu, Data, Width
<1> QED BY <1>1, <1>2, ErrorRefines

LEMMA IncludeRefines ==
    ASSUME Inlinable, InlineInv, InlineInv', inlined' = inlined, Include
    PROVE  InlineRefines
<1>1. /\ phase = "evaluate" /\ line.mnemonic = "INCLUDE" /\ status' = status /\ NextLine
      /\ UNCHANGED <<program, next_input>> /\ UNCHANGED symbols /\ UNCHANGED image /\ UNCHANGED target
  BY DEF Include, Evaluating, In, input
<1>2. PICK arg : /\ arg = line.argv[1] /\ CanInclude(arg) /\ ctx' = Append(ctx, Frame(arg.str))
                 /\ line.mnemonic \notin Data
  BY <1>1, TheArgument DEF Include
<1>3. PICK p \in 1 .. OPEN_MAX : p = Len(ctx)
  BY <1>1, RestType
<1>4. arg.type = "STRING" /\ p # OPEN_MAX /\ arg.str \in DOMAIN program
  BY <1>1, <1>2, <1>3, OpenCalls DEF CanInclude
<1>5. arg.str \in DOMAIN Included(p) /\ Included(p)[arg.str] = inlined[p + 1][arg.str][1]
  BY <1>4, IncludedType
<1>6. Rest = inlined[p + 1][arg.str][1]
  BY <1>1, <1>2, <1>3, <1>4, <1>5, StandsForFile DEF Rest
<1>7. arg.str \in Texts
  <2>1. line.argv \in Seq([type : ArgTypes, str : Texts]) /\ line.argv # <<>>
    BY <1>1 DEF InlineInv, TypeInv, LineOK, ParsedLines
  <2>2. arg \in [type : ArgTypes, str : Texts]
    BY <1>2, <2>1, FirstOfSeq
  <2> QED BY <2>2
<1>8. Rest \in Seq(Statements) /\ CallsTodo' = Rest \o CallsTodo
  <2>1. PICK f \in Texts : f = arg.str
    BY <1>7
  <2>2. CallsTodo' = inlined[Len(ctx) + 1][f][1] \o CallsTodo
    BY <1>1, <1>2, <2>1, CallStarts
  <2> QED BY <1>1, <1>3, <1>6, <2>1, <2>2, RestType
<1>9. LineTodo = Rest /\ LineTodo' = <<>>
  BY <1>1, <1>2, LineTodoIs, LineOver DEF NextLine
<1>10. PICK C \in Seq(Statements), Y \in Seq(Statements) :
          C = CallsTodo /\ Y = InputsTodo(next_input) /\ InputsTodo(next_input)' = Y
  BY <1>1, AfterType DEF InputsTodo
<1>11. PICK R \in Seq(Statements) : R = Rest
  BY <1>8
<1>12. Todo = R \o (C \o Y) /\ Todo' = <<>> \o ((R \o C) \o Y)
  BY <1>8, <1>9, <1>10, <1>11, TodoIs DEF After
<1>13. Todo' = Todo
  <2>1. R \o C \in Seq(Statements)
    BY ConcatProperties
  <2>2. (R \o C) \o Y \in Seq(Statements)
    BY <2>1, ConcatProperties
  <2>3. <<>> \o ((R \o C) \o Y) = (R \o C) \o Y
    BY <2>2, ConcatEmptySeq
  <2>4. (R \o C) \o Y = R \o (C \o Y)
    BY ConcatAssociative
  <2> QED BY <1>12, <2>3, <2>4
<1> QED BY <1>1, <1>13, StutterRefines

LEMMA IncludeSkippedRefines ==
    ASSUME Inlinable, InlineInv, inlined' = inlined, IncludeSkipped
    PROVE  InlineRefines
<1>1. /\ phase = "evaluate" /\ line.mnemonic = "INCLUDE" /\ status' = status /\ NextLine
      /\ UNCHANGED <<input, calls, symbols, target, image>>
  BY DEF IncludeSkipped, Evaluating, In
<1>2. ~CanInclude(line.argv[1]) /\ line.mnemonic \notin Data
  BY <1>1, TheArgument DEF IncludeSkipped
<1>3. PICK p \in 1 .. OPEN_MAX : p = Len(ctx)
  BY <1>1, RestType
<1>4. ~(line.argv[1].type = "STRING" /\ line.argv[1].str \in DOMAIN Included(p))
  <2>1. /\ p = OPEN_MAX => DOMAIN Included(p) = {}
        /\ p # OPEN_MAX => DOMAIN Included(p) = DOMAIN program
    BY IncludedType
  <2>2. open < OPEN_MAX <=> p # OPEN_MAX
    BY <1>1, <1>3, OpenCalls, SizesAssumption
  <2> QED BY <1>2, <2>1, <2>2 DEF CanInclude
<1>5. Rest = <<>>
  BY <1>1, <1>3, <1>4, StandsForFile DEF Rest
<1>6. LineTodo = <<>>
  BY <1>1, <1>2, <1>5, LineTodoIs
<1> QED BY <1>1, <1>6, LineDone

\* What .INSERT stands for.
LEMMA InsertRest ==
    ASSUME Inlinable, InlineInv, phase = "evaluate", line.mnemonic = "INSERT"
    PROVE  /\ LineTodo = Rest /\ Argv0 = {line.argv[1]}
           /\ CanInsert(line.argv[1]) => Rest = <<Bytes(RawSize[line.argv[1].str])>>
           /\ ~CanInsert(line.argv[1]) => Rest = Error
<1>1. Argv0 = {line.argv[1]} /\ LineTodo = Rest
  BY TheArgument, LineTodoIs
<1>2. open < OPEN_MAX <=> Len(ctx) < OPEN_MAX
  BY OpenCalls
<1> QED BY <1>1, <1>2, StandsForInsert DEF Rest, CanInsert

LEMMA InsertRefines ==
    ASSUME Inlinable, InlineInv, inlined' = inlined, Insert
    PROVE  InlineRefines
<1>1. /\ phase = "evaluate" /\ line.mnemonic = "INSERT" /\ status = "running" /\ status' = status
      /\ phase' = "insert" /\ UNCHANGED <<ctx, next_input>>
      /\ UNCHANGED symbols /\ UNCHANGED image /\ UNCHANGED target
  BY DEF Insert, Evaluating, In, input
<1>2. CanInsert(line.argv[1]) /\ size' = RawSize[line.argv[1].str]
  BY <1>1, InsertRest DEF Insert
<1>3. PICK n \in Nat : n = size' /\ LineTodo = <<Bytes(n)>>
  <2>1. RawSize[line.argv[1].str] \in Nat
    BY <1>2, TextsAssumption DEF CanInsert
  <2> QED BY <1>1, <1>2, <2>1, InsertRest
<1>4. LineTodo' = IF n = 0 THEN <<>> ELSE <<Bytes(n)>>
  BY <1>1, <1>3 DEF LineTodo, Bytes
<1>5. CASE n # 0
  <2>1. LineTodo' = LineTodo
    BY <1>3, <1>4, <1>5
  <2> QED BY <1>1, <2>1, QuietRefines DEF symbols, image, target
<1>6. CASE n = 0
  <2>1. Todo # <<>> /\ Head(Todo) = Bytes(0) /\ Tail(Todo) = <<>> \o After
    BY <1>3, <1>6, BytesType, LastStatement
  <2>2. Todo' = <<>> \o After
    BY <1>1, <1>4, <1>6, SameText, TodoIs
  <2>3. Image' = Image \o Run(0) /\ Masked(address) = Wrapped(address)
        /\ Masked(address)' = Wrapped(Wrapped(address) + 0)
    <3>1. Image' = Image /\ Masked(address)' = Masked(address) /\ Masked(address) = Wrapped(address)
      BY <1>1, SameImage, WrappedIs
    <3>2. Run(0) = <<>>
      <4>1. 1 .. 0 = {}
        OBVIOUS
      <4> QED BY <4>1 DEF Run
    <3>3. Image \in Seq(Nat)
      <4>1. datatab \in Seq(DataSet)
        BY DEF InlineInv, TypeInv, ImageOK
      <4>2. ChunksOf(datatab) \in Rows(Nat)
        BY <4>1, ChunksRows
      <4> QED BY <4>2, ImageIs, FlattenType
    <3>4. Masked(Masked(address)) = Masked(address)
      BY MaskIs, MaskedSum
    <3>5. Wrapped(address) + 0 = Wrapped(address) /\ Wrapped(Wrapped(address)) = Wrapped(address)
      BY <3>4, MaskIs, WrappedType, WrappedIs
    <3> QED BY <3>1, <3>2, <3>3, <3>5, ConcatEmptySeq
  <2>4. <<>> \o After \in Seq(Statements)
    BY AfterType, EmptySeq, ConcatProperties
  <2>5. 0 \in Nat /\ 0 \in 0 .. 0
    OBVIOUS
  <2> QED BY <1>1, <2>1, <2>2, <2>3, <2>4, <2>5, PlaceRefines
<1> QED BY <1>5, <1>6

LEMMA InsertErrorRefines ==
    ASSUME Inlinable, InlineInv, inlined' = inlined, InsertError
    PROVE  InlineRefines
<1>1. In("evaluate") /\ line.mnemonic = "INSERT" /\ Stop("crashed") /\ phase = "evaluate"
  BY DEF InsertError, Evaluating, Fail, In
<1>2. Rest = Error /\ line.mnemonic \notin Data
  BY <1>1, InsertRest DEF InsertError, Data, Width
<1> QED BY <1>1, <1>2, ErrorRefines

LEMMA InsertChunkRefines ==
    ASSUME Inlinable, InlineInv, inlined' = inlined, InsertChunk
    PROVE  InlineRefines
<1>1. /\ phase = "insert" /\ phase' = phase /\ status = "running" /\ status' = status /\ size > 0
      /\ AddData(address, ChunkSize, "BYTES") /\ size' = size - ChunkSize
      /\ UNCHANGED <<ctx, next_input>> /\ UNCHANGED symbols /\ UNCHANGED target
  BY DEF InsertChunk, In, input, calls
<1>2. PICK n \in Nat : n = size /\ n # 0
  BY <1>1 DEF InlineInv, TypeInv, LineOK
<1>3. PICK m \in 0 .. n : m = ChunkSize /\ m \in Nat
  BY <1>2, SizesAssumption DEF ChunkSize
<1>4. LineTodo = <<Bytes(n)>>
  BY <1>1, <1>2, LineTodoIs
<1>5. Todo # <<>> /\ Head(Todo) = Bytes(n) /\ Tail(Todo) = <<>> \o After
  BY <1>4, BytesType, LastStatement
<1>6. LineTodo' = IF n - m = 0 THEN <<>> ELSE <<Bytes(n - m)>>
  BY <1>1, <1>2, <1>3 DEF LineTodo, Bytes
<1>7. After \in Seq(Statements) /\ <<>> \o After = After
  BY AfterType, ConcatEmptySeq
<1>8. Todo' = IF m = n THEN After ELSE <<Bytes(n - m)>> \o After
  <2>1. After' = After
    BY <1>1, SameText
  <2>2. n - m = 0 <=> m = n
    OBVIOUS
  <2> QED BY <1>6, <1>7, <2>1, <2>2, TodoIs
<1>9. Image' = Image \o Run(m) /\ Masked(address)' = Wrapped(Wrapped(address) + m)
  BY <1>1, <1>3, MaskIs, DataPlaced
<1>10. Masked(address) = Wrapped(address)
  BY WrappedIs
<1> QED BY <1>1, <1>5, <1>7, <1>8, <1>9, <1>10, PlaceRefines

LEMMA InsertReturnsRefines ==
    ASSUME Inlinable, InlineInv, inlined' = inlined, InsertReturns
    PROVE  InlineRefines
<1>1. /\ phase = "insert" /\ size = 0 /\ phase' = "read" /\ status' = status
      /\ UNCHANGED <<ctx, next_input, symbols, image, target>>
  BY DEF InsertReturns, In, NextLine, input
<1>2. LineTodo = <<>> /\ LineTodo' = <<>>
  BY <1>1, LineTodoIs, LineOver
<1> QED BY <1>1, <1>2, QuietRefines

LEMMA OrgRefines ==
    ASSUME Inlinable, InlineInv, inlined' = inlined, Org
    PROVE  InlineRefines
<1>1. /\ phase = "evaluate" /\ status = "running" /\ status' = status /\ line.mnemonic = "ORG"
      /\ NextLine /\ datatab' = datatab
      /\ UNCHANGED <<ctx, next_input>> /\ UNCHANGED symbols /\ UNCHANGED target
  BY DEF Org, Evaluating, In, input, calls
<1>2. /\ line.argv[1].str \in DOMAIN Value /\ address' = Masked(Value[line.argv[1].str])
      /\ line.mnemonic \notin Data
  BY <1>1, TheArgument DEF Org
<1>3. PICK v \in Int : v = Value[line.argv[1].str]
  BY <1>2, TextsAssumption
<1>4. PICK x \in Statements : x = [op |-> "origin", value |-> v]
  BY DEF Statements
<1>5. LineTodo = <<x>>
  <2>1. Rest = <<x>>
    BY <1>1, <1>2, <1>3, <1>4, StandsForOrigin DEF Rest
  <2> QED BY <1>1, <1>2, <2>1, LineTodoIs
<1>6. Todo # <<>> /\ Head(Todo) = x /\ Tail(Todo) = <<>> \o After
  BY <1>5, LastStatement
<1>7. Todo' = Tail(Todo)
  <2>1. LineTodo' = <<>>
    BY <1>1, LineOver DEF NextLine
  <2> QED BY <1>1, <1>6, <2>1, SameText, TodoIs
<1>8. Masked(address)' = Wrapped(v)
  <2>1. Masked(Masked(v)) = Masked(v) /\ Masked(v) = Wrapped(v)
    BY MaskIs, MaskedSum, WrappedIs
  <2>2. Masked(address)' = Wrapped(Masked(v))
    BY <1>1, <1>2, <1>3, WrappedIs DEF Masked
  <2> QED BY <2>1, <2>2, WrappedIs
<1>9. Image' = Image
  BY <1>1 DEF Image, Addresses, Masked, target
<1>10. InputsTodo(1)' = InputsTodo(1) /\ Names' = Names /\ last_parent' = last_parent
  BY <1>1, SameText, SameNames
<1>11. Outcome = "running" /\ Outcome' = Outcome
  BY <1>1 DEF Outcome
<1>12. Head(Todo).op = "origin" /\ Head(Todo).value = v
  BY <1>4, <1>6
<1>13. Inline!SetOrigin
  BY <1>6, <1>7, <1>8, <1>9, <1>10, <1>11, <1>12
  DEF Inline!SetOrigin, Inline!Now, Inline!Done, Wrapped
<1> QED BY <1>13 DEF InlineRefines, Inline!Next

LEMMA OrgErrorRefines ==
    ASSUME Inlinable, InlineInv, inlined' = inlined, OrgError
    PROVE  InlineRefines
<1>1. In("evaluate") /\ line.mnemonic = "ORG" /\ Stop("crashed")
  BY DEF OrgError, Evaluating, Fail
<1>2. line.argv[1].str \notin DOMAIN Value /\ line.mnemonic \notin Data
  BY <1>1, TheArgument DEF OrgError
<1>3. Rest = Error
  BY <1>1, <1>2, StandsForOrigin DEF Rest
<1> QED BY <1>1, <1>2, <1>3, ErrorRefines

-----------------------------------------------------------------------------
\* What the condition on the programs rules out.
LEMMA Excluded ==
    ASSUME Inlinable, InlineInv
    PROVE  ~InputMissing /\ ~NotEvaluated /\ ~WildArgument /\ ~SetArch /\ ~SetArchError
<1>1. ~InputMissing
  <2> SUFFICES ASSUME InputMissing PROVE FALSE
    OBVIOUS
  <2>1. next_input \in 1 .. Len(Inputs) /\ program \in Programs
    BY DEF InputMissing, InlineInv, TypeInv, CallsOK
  <2>2. next_input \in DOMAIN Inputs
    BY <2>1, ProgramsAssumption, LenProperties
  <2> QED BY <2>1, <2>2 DEF InputMissing, Inlinable
<1>2. ~NotEvaluated
  BY DEF NotEvaluated, Inlinable
<1>3. ~WildArgument /\ ~SetArch /\ ~SetArchError
  BY DEF WildArgument, SetArch, SetArchError, Evaluating, InlineInv
<1> QED BY <1>1, <1>2, <1>3

LEMMA StepInlines ==
    ASSUME Inlinable, InlineInv, InlineInv', [InlineNext]_<<vars, inlined>>
    PROVE  InlineRefines
<1>1. inlined' = inlined /\ (Next \/ UNCHANGED vars)
  BY DEF InlineNext
<1>2. CASE Main
  BY <1>1, <1>2, OpenInputRefines, FinishRefines, Excluded DEF Main
<1>3. CASE Assemble
  BY <1>1, <1>3, ReadLineRefines, TooManyArgumentsRefines, EndOfFileRefines,
     AddLabelRefines, LabelErrorRefines, NoLabelRefines, NoStatementRefines,
     InvalidMnemonicRefines, Excluded DEF Assemble
<1>4. CASE Handler
  BY <1>1, <1>4, NoStatementRefines, SetDataRefines, EquRefines, EquErrorRefines,
     IncludeRefines, IncludeSkippedRefines, InsertRefines, InsertErrorRefines,
     InsertChunkRefines, InsertReturnsRefines, OrgRefines, OrgErrorRefines,
     Excluded DEF Handler
<1>5. CASE Ended \/ UNCHANGED vars
  BY <1>1, <1>5, NothingRefines DEF Ended
<1> QED BY <1>1, <1>2, <1>3, <1>4, <1>5 DEF Next

LEMMA InitInlines ==
    ASSUME Inlinable, InlineInit
    PROVE  Inline!Init
<1>1. InlineInv /\ phase = "main" /\ next_input = 1 /\ status = "running"
      /\ symtab = <<>> /\ last_parent = <<>> /\ address = 0 /\ datatab = <<>>
  BY InlineInvInit DEF InlineInit, Init
<1>2. LineTodo = <<>> /\ CallsTodo = <<>> /\ InputsTodo(1) \in Seq(Statements)
  BY <1>1, LineTodoIs, AfterType
<1>3. Todo = InputsTodo(1)
  <2>1. <<>> \o InputsTodo(1) = InputsTodo(1)
    BY <1>2, ConcatEmptySeq
  <2> QED BY <1>1, <1>2, <2>1 DEF Todo
<1>4. Names = <<>>
  BY <1>1 DEF Names
<1>5. Image = <<>>
  <2>1. <<>> \in Seq(DataSet) /\ Len(<<>>) = 0
    BY EmptySeq
  <2>2. ChunksOf(<<>>) \in Rows(Nat) /\ Len(ChunksOf(<<>>)) = 0
    BY <2>1, ChunksRows
  <2>3. FlattenSeq(ChunksOf(<<>>)) = <<>>
    BY <2>2, FlattenType
  <2> QED BY <1>1, <2>3, ImageIs
<1>6. Masked(address) = 0
  <2>1. PICK S \in Nat \ {0} : S = AddressSpace[DefaultArch]
    BY SizesAssumption
  <2>2. 0 % S = 0
    OBVIOUS
  <2> QED BY <1>1, <2>1, <2>2, WrappedIs DEF Wrapped
<1>7. Outcome = "running"
  BY <1>1 DEF Outcome
<1> QED BY <1>1, <1>3, <1>4, <1>5, <1>6, <1>7 DEF Inline!Init

\* Nested calls, chunks and skipped .INCLUDE lines come to the same as the
\* single text with every included file written out: each step of the pass
\* does the next part of what is left of that text, or none of it.
THEOREM FilesAreInlined == Inlinable => (InlineSpec => AssemblesInline)
<1> SUFFICES ASSUME Inlinable PROVE InlineSpec => AssemblesInline
  OBVIOUS
<1>1. InlineInit => InlineInv /\ Inline!Init
  BY InlineInvInit, InitInlines
<1>2. InlineInv /\ [InlineNext]_<<vars, inlined>> => InlineInv'
  BY InlineInvStep
<1>3. InlineInv /\ InlineInv' /\ [InlineNext]_<<vars, inlined>> => [Inline!Next]_(Inline!vars)
  BY StepInlines DEF InlineRefines
<1> QED BY <1>1, <1>2, <1>3, PTL DEF InlineSpec, AssemblesInline, Inline!Spec
=============================================================================
