------------------------------ MODULE Assembler ------------------------------
(***************************************************************************)
(* The assembly pass: main's loop over the input files, assemble() with    *)
(* its nested calls for .INCLUDE, the symbol table (as.c), the location    *)
(* counter and the data table, and the pseudo operations (pseudo.c).       *)
(*                                                                         *)
(* The program at this commit looks a mnemonic up and does not call its    *)
(* handler: the call m->evaluate and main's initialisation of the mask     *)
(* and the data table are disabled in the source.  EVALUATE = FALSE is     *)
(* that program; EVALUATE = TRUE has both enabled, so that the handlers,   *)
(* which are all in the source, run.                                       *)
(*                                                                         *)
(* fail() dereferences g_context, which nothing ever sets, so every error  *)
(* reported through it ends the process with a memory fault ("crashed");   *)
(* die() ends it with exit status 1 ("died").  A process that has stopped  *)
(* keeps the values its variables had before the step that stopped it.     *)
(***************************************************************************)
EXTENDS SourceLine, Integers, FiniteSets

CONSTANTS
    Texts,          \* strings that occur as arguments and file names
    Parts,          \* pieces of label names
    Inputs,         \* the files named on the command line, in order
    Programs,       \* the source texts: functions from file names to lines
    RawSize,        \* sizes of the files .INSERT can open
    Value,          \* strtol of the texts that are numbers
    Strlen,         \* strlen of the texts
    Architectures,  \* names in architectures[]
    AddressSpace,   \* of each architecture: 2 ^ (bytes_per_address * byte_size)
    DefaultArch,
    SIZE_MODULUS,   \* 2 ^ width of size_t, the type of address
    CHUNK,          \* bytes one data entry of .INSERT holds at most (255)
    LINE_ARG_MAX,
    OPEN_MAX,       \* files the process can have open
    EVALUATE

Paths  == Seq(Parts) \ {<<>>}
Labels == [local : BOOLEAN, path : Paths]

Width     == [DB |-> 1, DW |-> 2, DD |-> 4, DQ |-> 8]
Data      == DOMAIN Width
PseudoOps == Data \cup {"RES", "EQU", "INCLUDE", "INSERT", "ORG", "ARCH"}
Known     == PseudoOps \cup {"ABX"}
Mnemonics == Known \cup {"", "unknown"}

Lines  == SourceLines(Labels, Mnemonics, Texts)
NoLine == [label |-> {}, mnemonic |-> "", argv |-> <<>>]

ASSUME ProgramsAssumption ==
    /\ \A p \in Programs : \A f \in DOMAIN p :
          p[f] \in Seq(Lines) /\ \A n \in DOMAIN p[f] : OneLabel(p[f][n])
    /\ Inputs \in Seq(Texts) \ {<<>>}

ASSUME TextsAssumption ==
    /\ DOMAIN RawSize \subseteq Texts /\ \A f \in DOMAIN RawSize : RawSize[f] \in Nat
    /\ DOMAIN Value \subseteq Texts /\ \A t \in DOMAIN Value : Value[t] \in Int
    /\ Strlen \in [Texts -> 0 .. 255]

ASSUME SizesAssumption ==
    /\ DefaultArch \in Architectures
    /\ AddressSpace \in [Architectures -> Nat \ {0}]
    /\ SIZE_MODULUS \in Nat \ {0}
    /\ \A a \in Architectures : SIZE_MODULUS % AddressSpace[a] = 0
    /\ CHUNK \in Nat \ {0} /\ LINE_ARG_MAX \in Nat /\ OPEN_MAX \in Nat \ {0}
    /\ EVALUATE \in BOOLEAN

VARIABLES
    program,       \* the files, as they are on disk
    status,        \* "running", or how the process ended
    next_input,    \* main's loop variable i: the next of Inputs
    ctx,           \* the active calls of assemble, innermost last
    open,          \* number of open files
    phase,         \* what the innermost assemble is doing
    line,          \* its struct line after parse_line
    i,             \* loop variable of pseudo_set_data: arguments done
    size,          \* loop variable of pseudo_insert: bytes left
    symtab,        \* symbol table, in list order
    last_parent,   \* label of symtab.last_parent (<<>>: NULL)
    address,       \* location counter
    address_mask,
    arch,          \* g_config.arch
    datatab        \* data table, in list order

input   == <<program, next_input>>
calls   == <<ctx, open>>
handler == <<line, i, size>>
symbols == <<symtab, last_parent>>
target  == <<arch, address_mask>>
image   == <<address, datatab>>
vars == <<program, status, next_input, ctx, open, phase, line, i, size,
          symtab, last_parent, address, address_mask, arch, datatab>>

-----------------------------------------------------------------------------
Top == ctx[Len(ctx)]

\* One call of assemble.  argv0 is the type left in l.argv[0], which lives as
\* long as the call and is never cleared; "unset" until a line has arguments.
Frame(f) == [file |-> f, line_num |-> 0, argv0 |-> "unset"]

AddressMask(a) == AddressSpace[a] - 1
Masked(n)      == n % (address_mask + 1)
Advance(n)     == (address + n) % SIZE_MODULUS

Init ==
    /\ program \in Programs
    /\ status = "running" /\ phase = "main"
    /\ next_input = 1 /\ ctx = <<>> /\ open = 0
    /\ line = NoLine /\ i = 0 /\ size = 0
    /\ symtab = <<>> /\ last_parent = <<>>
    /\ arch = DefaultArch
    /\ address_mask = IF EVALUATE THEN AddressMask(DefaultArch) ELSE 0
    /\ address = 0 /\ datatab = <<>>

In(p) == status = "running" /\ phase = p

\* Definitions named ...Bug are slips one could make in the code, each put in
\* the place of the definition after it to see which property notices.
FcloseBug == open' = open

Fopen  == open' = open + 1
Fclose == open' = open - 1

Stop(how) ==
    /\ status' = how
    /\ UNCHANGED <<phase, input, calls, handler, symbols, target, image>>

Fail == Stop("crashed")

-----------------------------------------------------------------------------
(* main: the loop over the files of the command line.                      *)

OpenInput ==
    /\ In("main")
    /\ next_input <= Len(Inputs) /\ Inputs[next_input] \in DOMAIN program
    /\ ctx' = <<Frame(Inputs[next_input])>>
    /\ Fopen
    /\ next_input' = next_input + 1
    /\ phase' = "read"
    /\ UNCHANGED <<program, status, handler, symbols, target, image>>

\* fopen fails: main prints the message and cleans up with rcd still 0.
InputMissing ==
    /\ In("main")
    /\ next_input <= Len(Inputs) /\ Inputs[next_input] \notin DOMAIN program
    /\ Stop("succeeded")

Finish == In("main") /\ next_input > Len(Inputs) /\ Stop("succeeded")

-----------------------------------------------------------------------------
(* assemble: fgets and parse_line, the label, the mnemonic.                *)

NextLine ==
    /\ phase' = "read"
    /\ line' = NoLine /\ i' = 0 /\ size' = 0

TextLine == program[Top.file][Top.line_num + 1]
HasLine  == Top.line_num < Len(program[Top.file])

Parsed(l) == [label    |-> l.label,
              mnemonic |-> StoredMnemonic(l, ""),
              argv     |-> StoredArgs(l)]

\* The innermost call once it has read the line.
LineRead == [file     |-> Top.file,
             line_num |-> Top.line_num + 1,
             argv0    |-> IF StoredArgs(TextLine) = <<>> THEN Top.argv0
                          ELSE StoredArgs(TextLine)[1].type]

ReadLine ==
    /\ In("read") /\ HasLine /\ ~Overflows(TextLine, LINE_ARG_MAX)
    /\ line' = Parsed(TextLine)
    /\ ctx' = [ctx EXCEPT ![Len(ctx)] = LineRead]
    /\ phase' = "label"
    /\ UNCHANGED <<open, i, size, status, input, symbols, target, image>>

TooManyArguments ==
    In("read") /\ HasLine /\ Overflows(TextLine, LINE_ARG_MAX) /\ Fail

CallerBug == "main"

Caller == IF Len(ctx) = 1 THEN "main" ELSE "read"

\* fgets returns NULL; main or pseudo_include closes the file.
EndOfFile ==
    /\ In("read") /\ ~HasLine
    /\ ctx' = SubSeq(ctx, 1, Len(ctx) - 1)
    /\ Fclose
    /\ phase' = Caller
    /\ UNCHANGED <<status, input, handler, symbols, target, image>>

\* A label that starts with a period is local to the last one that does not.
ResolvedBug(l) == IF l.local THEN symtab[Len(symtab)].label \o l.path ELSE l.path
OrphanBug(l)   == FALSE
DefinedBug(p)  == \E n \in 1 .. Len(symtab) - 1 : symtab[n].label = p
ParentBug(l)   == IF l.local \/ last_parent # <<>> THEN last_parent ELSE l.path

Resolved(l) == IF l.local THEN last_parent \o l.path ELSE l.path
Orphan(l)   == l.local /\ last_parent = <<>>
Defined(p)  == \E n \in DOMAIN symtab : symtab[n].label = p
Parent(l)   == IF l.local THEN last_parent ELSE l.path

AddLabel ==
    /\ In("label")
    /\ \E l \in line.label :
          /\ ~Orphan(l) /\ ~Defined(Resolved(l))
          /\ symtab' = Append(symtab, [label |-> Resolved(l), value |-> address])
          /\ last_parent' = Parent(l)
    /\ phase' = "evaluate"
    /\ UNCHANGED <<status, input, calls, handler, target, image>>

LabelError ==
    /\ In("label")
    /\ \E l \in line.label : Orphan(l) \/ Defined(Resolved(l))
    /\ Fail

NoLabel ==
    /\ In("label") /\ line.label = {}
    /\ phase' = "evaluate"
    /\ UNCHANGED <<status, input, calls, handler, symbols, target, image>>

NoMnemonic ==
    /\ In("evaluate") /\ line.mnemonic = ""
    /\ NextLine
    /\ UNCHANGED <<status, input, calls, symbols, target, image>>

InvalidMnemonic == In("evaluate") /\ line.mnemonic = "unknown" /\ Stop("died")

NotEvaluated ==
    /\ In("evaluate") /\ line.mnemonic \in Known /\ ~EVALUATE
    /\ NextLine
    /\ UNCHANGED <<status, input, calls, symbols, target, image>>

-----------------------------------------------------------------------------
(* The handlers.  Those with one argument read argv[0] whether or not the  *)
(* line stored one: what they find then is the type an earlier line left   *)
(* there (or anything) and a pointer into the text of the current line.    *)

Evaluating(mnemonics) == In("evaluate") /\ EVALUATE /\ line.mnemonic \in mnemonics

Argv0 ==
    IF line.argv # <<>> THEN {line.argv[1]}
    ELSE [type : IF Top.argv0 = "unset" THEN ArgTypes ELSE {Top.argv0}, str : Texts]

\* Nothing was ever stored in argv[0]: its pointer may be invalid.
WildArgument ==
    /\ Evaluating({"ORG", "ARCH"})
    /\ line.argv = <<>> /\ Top.argv0 = "unset"
    /\ Stop("crashed")

\* process_ABX emits nothing; pseudo_reserve_data makes an entry that it does
\* not put in the table, and leaves address alone.
NoEffect ==
    /\ Evaluating({"ABX", "RES"})
    /\ NextLine
    /\ UNCHANGED <<status, input, calls, symbols, target, image>>

\* An entry of n bytes at a is added, and the location counter moves past it.
AddDataBug1(a, n, type) ==
    /\ datatab' = Append(datatab, [address |-> a, bytec |-> n, type |-> type])
    /\ address' = Advance(1)
AddDataBug2(a, n, type) ==
    /\ datatab' = Append(datatab, [address |-> a + n, bytec |-> n, type |-> type])
    /\ address' = Advance(n)

AddData(a, n, type) ==
    /\ datatab' = Append(datatab, [address |-> a, bytec |-> n, type |-> type])
    /\ address' = Advance(n)

\* A string is its characters, anything else an expression yet to be resolved
\* that has the width of the pseudo operation.
ArgEntry(arg) ==
    IF arg.type = "STRING" THEN AddData(Masked(address), Strlen[arg.str], "BYTES")
    ELSE AddData(Masked(address), Width[line.mnemonic], "EXPRESSION")

SetData ==
    /\ Evaluating(Data) /\ i < Len(line.argv)
    /\ ArgEntry(line.argv[i + 1])
    /\ i' = i + 1
    /\ UNCHANGED <<status, phase, line, size, input, calls, symbols, target>>

SetDataReturns ==
    /\ Evaluating(Data) /\ i = Len(line.argv)
    /\ NextLine
    /\ UNCHANGED <<status, input, calls, symbols, target, image>>

CanEquBug == symtab # <<>> /\ Len(line.argv) = 1 /\ line.argv[1].str \in DOMAIN Value

CanEqu == /\ line.label # {} /\ Len(line.argv) = 1
          /\ line.argv[1].str \in DOMAIN Value

\* symtab.last is taken to be the symbol of this line's label.
Equ ==
    /\ Evaluating({"EQU"}) /\ CanEqu
    /\ symtab' = [symtab EXCEPT ![Len(symtab)].value = Value[line.argv[1].str]]
    /\ NextLine
    /\ UNCHANGED <<status, last_parent, input, calls, target, image>>

EquError == Evaluating({"EQU"}) /\ ~CanEqu /\ Fail

CanIncludeBug(arg) ==
    /\ arg.type = "STRING" /\ arg.str \in DOMAIN program /\ open < OPEN_MAX
    /\ \A n \in DOMAIN ctx : ctx[n].file # arg.str

\* fopen succeeds: the file exists and the process may open one more.
CanInclude(arg) ==
    arg.type = "STRING" /\ arg.str \in DOMAIN program /\ open < OPEN_MAX

Include ==
    /\ Evaluating({"INCLUDE"})
    /\ \E arg \in Argv0 : CanInclude(arg) /\ ctx' = Append(ctx, Frame(arg.str))
    /\ Fopen
    /\ NextLine
    /\ UNCHANGED <<status, input, symbols, target, image>>

IncludeSkippedBug ==
    /\ Evaluating({"INCLUDE"})
    /\ \E arg \in Argv0 : ~CanInclude(arg)
    /\ UNCHANGED vars

\* pseudo_include returns -1 and its caller ignores it.
IncludeSkipped ==
    /\ Evaluating({"INCLUDE"})
    /\ \E arg \in Argv0 : ~CanInclude(arg)
    /\ NextLine
    /\ UNCHANGED <<status, input, calls, symbols, target, image>>

CanInsert(arg) ==
    arg.type = "STRING" /\ arg.str \in DOMAIN RawSize /\ open < OPEN_MAX

Insert ==
    /\ Evaluating({"INSERT"})
    /\ \E arg \in Argv0 : CanInsert(arg) /\ size' = RawSize[arg.str]
    /\ Fopen
    /\ phase' = "insert"
    /\ UNCHANGED <<status, ctx, line, i, input, symbols, target, image>>

InsertError ==
    Evaluating({"INSERT"}) /\ (\E arg \in Argv0 : ~CanInsert(arg)) /\ Fail

ChunkSize == IF size > CHUNK THEN CHUNK ELSE size

\* Unlike pseudo_set_data, pseudo_insert does not mask the entry's address.
InsertChunk ==
    /\ In("insert") /\ size > 0
    /\ AddData(address, ChunkSize, "BYTES")
    /\ size' = size - ChunkSize
    /\ UNCHANGED <<status, phase, line, i, input, calls, symbols, target>>

InsertReturns ==
    /\ In("insert") /\ size = 0
    /\ Fclose
    /\ NextLine
    /\ UNCHANGED <<status, ctx, input, symbols, target, image>>

Org ==
    /\ Evaluating({"ORG"})
    /\ \E arg \in Argv0 : /\ arg.str \in DOMAIN Value
                          /\ address' = Masked(Value[arg.str])
    /\ NextLine
    /\ UNCHANGED <<status, datatab, input, calls, symbols, target>>

OrgError ==
    Evaluating({"ORG"}) /\ (\E arg \in Argv0 : arg.str \notin DOMAIN Value) /\ Fail

SetArch ==
    /\ Evaluating({"ARCH"}) /\ datatab = <<>>
    /\ \E arg \in Argv0 : arg.str \in Architectures /\ arch' = arg.str
    /\ address_mask' = AddressMask(arch')
    /\ NextLine
    /\ UNCHANGED <<status, input, calls, symbols, image>>

SetArchError ==
    /\ Evaluating({"ARCH"})
    /\ datatab # <<>> \/ \E arg \in Argv0 : arg.str \notin Architectures
    /\ Fail

\* The process has ended.
Ended == status # "running" /\ UNCHANGED vars

-----------------------------------------------------------------------------
Main     == OpenInput \/ InputMissing \/ Finish
Assemble == \/ ReadLine \/ TooManyArguments \/ EndOfFile
            \/ AddLabel \/ LabelError \/ NoLabel
            \/ NoMnemonic \/ InvalidMnemonic \/ NotEvaluated
Handler  == \/ WildArgument \/ NoEffect
            \/ SetData \/ SetDataReturns
            \/ Equ \/ EquError
            \/ Include \/ IncludeSkipped
            \/ Insert \/ InsertError \/ InsertChunk \/ InsertReturns
            \/ Org \/ OrgError
            \/ SetArch \/ SetArchError

Next == Main \/ Assemble \/ Handler \/ Ended

\* One thread, which always takes its next step.
Spec == Init /\ [][Next]_vars /\ WF_vars(Next)

-----------------------------------------------------------------------------
Symbol      == [label : Paths, value : Int]
DataSet     == [address : Nat, bytec : Nat, type : {"BYTES", "EXPRESSION"}]
Frames      == [file : Texts, line_num : Nat, argv0 : ArgTypes \cup {"unset"}]
ParsedLines == [label    : SUBSET Labels,
                mnemonic : Mnemonics,
                argv     : Seq([type : ArgTypes, str : Texts])]

TypeOK ==
    /\ program \in Programs
    /\ status \in {"running", "succeeded", "died", "crashed"}
    /\ next_input \in 1 .. Len(Inputs) + 1
    /\ ctx \in Seq(Frames)
    /\ \A n \in DOMAIN ctx : /\ ctx[n].file \in DOMAIN program
                             /\ ctx[n].line_num <= Len(program[ctx[n].file])
    /\ open \in Nat
    /\ phase \in {"main", "read", "label", "evaluate", "insert"}
    /\ phase = "main" <=> ctx = <<>>
    /\ line \in ParsedLines /\ OneLabel(line) /\ Len(line.argv) <= LINE_ARG_MAX
    /\ i \in 0 .. Len(line.argv) /\ size \in Nat
    /\ symtab \in Seq(Symbol)
    /\ last_parent \in Seq(Parts)
    /\ address \in 0 .. SIZE_MODULUS - 1
    /\ arch \in Architectures
    /\ address_mask = IF EVALUATE THEN AddressMask(arch) ELSE 0
    /\ datatab \in Seq(DataSet)

\* add_label's search of the whole table before it links the new symbol keeps
\* the names of the table distinct, resolved local names included ("a.x"
\* written as a global label and ".x" after "a" are one name).
UniqueSymbols ==
    \A m, n \in DOMAIN symtab : symtab[m].label = symtab[n].label => m = n

\* resolve_label reads the name of last_parent: it is a symbol of the table,
\* and the symbols entered after it are locals, whose names extend it, also
\* when an included file or the next input file continues the scope.
ScopeIsLastGlobal ==
    /\ last_parent = <<>> <=> symtab = <<>>
    /\ symtab # <<>> =>
          \E n \in DOMAIN symtab :
             /\ symtab[n].label = last_parent
             /\ \A m \in n + 1 .. Len(symtab) :
                   SubSeq(symtab[m].label, 1, Len(last_parent)) = last_parent

\* Every fopen of main, pseudo_include and pseudo_insert is matched by its
\* fclose: the open files are those of the active calls, nested ones never
\* exceed what the process may open, and none is left when main succeeds.
StreamsBalanced ==
    /\ open = Len(ctx) + (IF phase = "insert" THEN 1 ELSE 0)
    /\ open <= OPEN_MAX
    /\ status = "succeeded" => open = 0

\* A symbol keeps its name, its place and its value once entered, but for one
\* step: .EQU, which writes symtab.last, and that is the symbol of the label
\* on its own line.
OnlyEquRedefines ==
    [][/\ Len(symtab) <= Len(symtab')
       /\ \A n \in DOMAIN symtab :
             /\ symtab'[n].label = symtab[n].label
             /\ symtab'[n] # symtab[n] =>
                   /\ line.mnemonic = "EQU"
                   /\ \E l \in line.label : symtab[n].label = Resolved(l)]_vars

\* Two addresses are one once masked.
SameAddress(a, b) == Masked(a) = Masked(b)

NoOrigin ==
    \A f \in DOMAIN program : \A n \in DOMAIN program[f] : program[f][n].mnemonic # "ORG"

\* Without an .ORG the data entries cover the memory from 0 to the location
\* counter with no gap and no overlap but for the wrap at the top: each entry
\* starts where the one before it ends, whichever handler made them.
DataTiles ==
    NoOrigin =>
        LET end(n) == datatab[n].address + datatab[n].bytec
        IN  /\ datatab # <<>> => SameAddress(datatab[1].address, 0)
            /\ \A n \in 1 .. Len(datatab) - 1 : SameAddress(datatab[n+1].address, end(n))
            /\ SameAddress(address, IF datatab = <<>> THEN 0 ELSE end(Len(datatab)))

\* A label on a line that designates data is the address of its first byte.
LabelNamesData ==
    [][/\ datatab' # datatab /\ line.label # {}
       /\ Evaluating(Data) /\ i = 0
       => SameAddress(symtab[Len(symtab)].value, datatab'[Len(datatab')].address)]_vars

\* Every assembly ends, also when files include one another in a cycle: the
\* nesting stops at the limit on open files and every file is finite.
Terminates == <>(status # "running")
=============================================================================
