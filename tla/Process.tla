------------------------------ MODULE Process ------------------------------
(***************************************************************************)
(* The program from main to exit: configure() and its growing list of      *)
(* input files, the loop over them, the linked list of symbols that        *)
(* add_label builds and the debug build takes apart, and the cleanup.      *)
(*                                                                         *)
(* Its memory is that of TrackedMemory, which smem.c implements: a block   *)
(* of salloc is tracked, one of realloc is not.  Memory may run out at     *)
(* every call.  What assemble() does with a line is Assembler's subject;   *)
(* here a line is a label, already resolved, an unknown mnemonic, or one   *)
(* that parse_line refuses.                                                *)
(* getopt is the one of glibc, which returns the arguments that are no     *)
(* options in their place, as the build with GNU_GETOPT expects.           *)
(***************************************************************************)
EXTENDS Integers, Sequences, FiniteSets

CONSTANTS
    CommandLines,   \* sequences of what getopt finds: [opt, arg]
    Disks,          \* the files, and "stdin", as sequences of lines
    Locals,         \* the labels that are local, under their resolved names
    Supported,      \* the names of architectures[]
    Builds,         \* subset of {"debug", "release"}: without and with NDEBUG
    Blocks,         \* addresses malloc can return
    NULL

Options == {"file", "m", "o", "f", "e", "h", "?", "--"}

ASSUME InputAssumption ==
    /\ \A a \in CommandLines : a \in Seq([opt : Options, arg : STRING])
    /\ \A d \in Disks : /\ "stdin" \in DOMAIN d
                        /\ \A f \in DOMAIN d : d[f] \in Seq(STRING)
    /\ Locals \subseteq STRING
    /\ Builds \subseteq {"debug", "release"} /\ NULL \notin Blocks

ERR_MSG_MEM == 3
FAULT       == 139   \* status of a process that a memory fault has ended
RUNNING     == -1    \* it has not exited

VARIABLES
    args,      \* the command line
    disk,
    build,
    pc,        \* where the program is
    optind,    \* the next argument for getopt
    list,      \* g_config.in_fnames: the block,
    names,     \* and the names in it, in_fnamec of them
    fnamesz,   \* g_config.in_fnamesz
    rcd,       \* of main
    i,         \* loop variable of main
    line,      \* lines read of the current file
    first,     \* symtab.first
    last,      \* symtab.last
    sym,       \* the symbol add_label makes, or the loop variable of main
    symbol,    \* contents of the blocks that are symbols
    ARCH,      \* ARCH_MC6809
    exit,      \* exit status
    heap, tracked, call, status   \* of TrackedMemory

Mem == INSTANCE TrackedMemory

inputs   == <<args, disk, build>>
options  == <<optind, list, names, fnamesz>>
progress == <<i, line>>
symtab   == <<first, last, symbol>>
memory   == <<heap, tracked, call, status>>
vars     == <<inputs, pc, options, rcd, progress, symtab, sym, ARCH, exit, memory>>

NoSymbol == [label |-> NULL, name |-> NULL, next |-> NULL]

Init ==
    /\ args \in CommandLines /\ disk \in Disks /\ build \in Builds
    /\ pc = "init" /\ rcd = 0 /\ exit = RUNNING
    /\ optind = 1 /\ list = NULL /\ names = <<>> /\ fnamesz = 0
    /\ i = 1 /\ line = 0
    /\ first = NULL /\ last = NULL /\ sym = NULL
    /\ symbol = [b \in Blocks |-> NoSymbol] /\ ARCH = NULL
    /\ Mem!Init

\* Definitions named ...Bug are slips one could make in the code, each put in
\* the place of the definition after it to see which property notices.

-----------------------------------------------------------------------------
(* smem, for its callers.                                                  *)

\* The program is at p and not inside smem.
At(p) == pc = p /\ status = "running" /\ call = Mem!NoCall

Salloc(b) == b \notin heap /\ Mem!Acquire /\ tracked' = tracked \cup {b}
Sfree(b)  == Mem!Call /\ call' = [op |-> "sfree", ptr |-> b]

\* What is left alone by a call of die(), or by a salloc that calls it.
Die == UNCHANGED <<inputs, pc, options, rcd, progress, symtab, sym, ARCH, exit>>

\* smem is at work.  die() ends in exit(1).
SmemWorks ==
    /\ Mem!Smem
    /\ IF status' = "died" THEN exit' = 1 /\ pc' = "exited" ELSE UNCHANGED <<exit, pc>>
    /\ UNCHANGED <<inputs, options, rcd, progress, symtab, sym, ARCH>>

-----------------------------------------------------------------------------
(* init_targets and configure.                                             *)

InitTargets ==
    /\ At("init")
    /\ \E b \in Blocks : Salloc(b) /\ ARCH' = b
    /\ pc' = "configure"
    /\ UNCHANGED <<inputs, options, rcd, progress, symtab, sym, exit>>

Option(opts) == At("configure") /\ optind <= Len(args) /\ args[optind].opt \in opts
Optarg       == args[optind].arg
NextOption   == optind' = optind + 1

\* The architecture is looked up; the names of the other files are kept, which
\* nothing reads at this commit.
SetOption ==
    /\ Option({"m", "o", "f", "e"})
    /\ args[optind].opt = "m" => Optarg \in Supported
    /\ NextOption
    /\ UNCHANGED <<inputs, pc, list, names, fnamesz, rcd, progress, symtab, sym, ARCH, exit,
                   memory>>

UnsupportedArch ==
    /\ Option({"m"}) /\ Optarg \notin Supported
    /\ Mem!Die /\ Die

FitsBug == Len(names) # fnamesz + 1

Fits == Len(names) # fnamesz

CollectName ==
    /\ Option({"file"}) /\ Fits
    /\ names' = Append(names, Optarg)
    /\ NextOption
    /\ UNCHANGED <<inputs, pc, list, fnamesz, rcd, progress, symtab, sym, ARCH, exit, memory>>

GrowListBug ==
    /\ Option({"file"}) /\ ~Fits
    /\ \E b \in (Blocks \ heap) \cup ({list} \ {NULL}) :
          list' = b /\ heap' = (heap \ {list}) \cup {b}
    /\ fnamesz' = fnamesz + 2
    /\ names' = <<Optarg>>
    /\ NextOption
    /\ UNCHANGED <<inputs, pc, rcd, progress, symtab, sym, ARCH, exit, tracked, call, status>>

\* realloc extends the block or moves it to another.
GrowList ==
    /\ Option({"file"}) /\ ~Fits
    /\ \E b \in (Blocks \ heap) \cup ({list} \ {NULL}) :
          list' = b /\ heap' = (heap \ {list}) \cup {b}
    /\ fnamesz' = fnamesz + 2
    /\ names' = Append(names, Optarg)
    /\ NextOption
    /\ UNCHANGED <<inputs, pc, rcd, progress, symtab, sym, ARCH, exit, tracked, call, status>>

\* in_fnames is NULL by the time it is freed: the old block is lost.
GrowListFails ==
    /\ Option({"file"}) /\ ~Fits
    /\ list' = NULL /\ names' = <<>> /\ fnamesz' = 0
    /\ rcd' = - ERR_MSG_MEM
    /\ pc' = "cleanup"
    /\ UNCHANGED <<inputs, optind, progress, symtab, sym, ARCH, exit, memory>>

\* The help text, and an option getopt does not know, end configure with what
\* was found before them, and with 0.
Help ==
    /\ Option({"h", "?"})
    /\ pc' = "files"
    /\ UNCHANGED <<inputs, options, rcd, progress, symtab, sym, ARCH, exit, memory>>

\* getopt ends at "--", and the names after it are looked for by nobody.
EndOptions ==
    /\ At("configure")
    /\ optind <= Len(args) => args[optind].opt = "--"
    /\ pc' = "files"
    /\ UNCHANGED <<inputs, options, rcd, progress, symtab, sym, ARCH, exit, memory>>

-----------------------------------------------------------------------------
(* The loop over the files, and the lines of each.                         *)

File == IF names = <<>> THEN "stdin" ELSE names[i]

Open ==
    /\ At("files") /\ (names = <<>> \/ i <= Len(names)) /\ File \in DOMAIN disk
    /\ pc' = "read" /\ line' = 0
    /\ UNCHANGED <<inputs, options, rcd, i, symtab, sym, ARCH, exit, memory>>

\* rcd is what the file before has left, 0.
OpenFails ==
    /\ At("files") /\ i <= Len(names) /\ File \notin DOMAIN disk
    /\ pc' = "cleanup"
    /\ UNCHANGED <<inputs, options, rcd, progress, symtab, sym, ARCH, exit, memory>>

Assembled ==
    /\ pc' = IF build = "debug" THEN "symbols" ELSE "cleanup"
    /\ sym' = IF build = "debug" THEN first ELSE sym

AllFilesRead ==
    /\ At("files") /\ names # <<>> /\ i > Len(names)
    /\ Assembled
    /\ UNCHANGED <<inputs, options, rcd, progress, symtab, ARCH, exit, memory>>

HasLine == At("read") /\ line < Len(disk[File])
Text    == disk[File][line + 1]

EndOfFile ==
    /\ At("read") /\ line = Len(disk[File])
    /\ IF names = <<>> THEN Assembled /\ UNCHANGED i
                       ELSE i' = i + 1 /\ pc' = "files" /\ UNCHANGED sym
    /\ UNCHANGED <<inputs, options, rcd, line, symtab, ARCH, exit, memory>>

IsLabel == Text \notin {"unknown", "refused"}

InvalidMnemonic == HasLine /\ Text = "unknown" /\ Mem!Die /\ Die

\* fail() faults before it comes to die().
Fault == pc' = "exited" /\ exit' = FAULT

\* parse_line calls fail(), before the line has entered anything.
RefusedLine ==
    /\ HasLine /\ Text = "refused"
    /\ Fault
    /\ UNCHANGED <<inputs, options, rcd, progress, symtab, sym, ARCH, memory>>

\* add_label: the symbol, then in resolve_label its name.
MakeSymbol ==
    /\ HasLine /\ IsLabel
    /\ \E b \in Blocks : Salloc(b) /\ sym' = b
    /\ pc' = "label"
    /\ UNCHANGED <<inputs, options, rcd, progress, symtab, ARCH, exit>>

Listed == {b \in Blocks : symbol[b].label # NULL}

\* symtab.last_parent is NULL as long as the table is empty: its first symbol
\* is no local label.
Orphan == Text \in Locals /\ first = NULL

\* resolve_label calls fail() before it allocates the name.
OrphanLabel ==
    /\ At("label") /\ Orphan
    /\ Fault
    /\ UNCHANGED <<inputs, options, rcd, progress, symtab, sym, ARCH, memory>>

LinkBug(b, l) ==
    /\ first' = b
    /\ last' = IF first = NULL THEN b ELSE last
    /\ symbol' = [symbol EXCEPT ![b] = [label |-> l, name |-> Text, next |-> first]]

\* The list with symbol b, whose label is in block l, at its end.
Link(b, l) ==
    /\ first' = IF first = NULL THEN b ELSE first
    /\ last' = b
    /\ symbol' = [s \in Blocks |->
          IF s = b THEN [label |-> l, name |-> Text, next |-> NULL]
          ELSE IF s = last THEN [symbol[s] EXCEPT !.next = b] ELSE symbol[s]]

AddLabelBug ==
    /\ At("label") /\ ~Orphan /\ \A s \in Listed \ {last} : symbol[s].name # Text
    /\ \E l \in Blocks : Salloc(l) /\ Link(sym, l)
    /\ line' = line + 1
    /\ pc' = "read"
    /\ UNCHANGED <<inputs, options, rcd, i, sym, ARCH, exit>>

AddLabel ==
    /\ At("label") /\ ~Orphan /\ \A s \in Listed : symbol[s].name # Text
    /\ \E l \in Blocks : Salloc(l) /\ Link(sym, l)
    /\ line' = line + 1
    /\ pc' = "read"
    /\ UNCHANGED <<inputs, options, rcd, i, sym, ARCH, exit>>

DuplicateLabel ==
    /\ At("label") /\ \E s \in Listed : symbol[s].name = Text
    /\ \E l \in Blocks : Salloc(l)
    /\ Fault
    /\ UNCHANGED <<inputs, options, rcd, progress, symtab, sym, ARCH>>

\* No memory in salloc, or for its cell: in init_targets, or in add_label.
SallocFails ==
    /\ At("init") \/ (HasLine /\ IsLabel) \/ (At("label") /\ ~Orphan)
    /\ Mem!OutOfMemory /\ Die

-----------------------------------------------------------------------------
(* The end of main: the loop of the debug build, which frees the label of  *)
(* a symbol and then the symbol it has stepped past, and the cleanup.      *)

FreeLabel ==
    /\ At("symbols") /\ sym # NULL
    /\ Sfree(symbol[sym].label)
    /\ pc' = "symbol"
    /\ UNCHANGED <<inputs, options, rcd, progress, symtab, sym, ARCH, exit>>

FreeSymbolBug1 ==
    /\ At("symbol")
    /\ Sfree(sym)
    /\ sym' = IF symbol[sym].next = NULL THEN NULL ELSE first
    /\ pc' = "symbols"
    /\ UNCHANGED <<inputs, options, rcd, progress, symtab, ARCH, exit>>

FreeSymbolBug2 ==
    /\ At("symbol")
    /\ heap' = heap \ {sym}
    /\ sym' = symbol[sym].next
    /\ pc' = "symbols"
    /\ UNCHANGED <<inputs, options, rcd, progress, symtab, ARCH, exit, tracked, call, status>>

FreeSymbol ==
    /\ At("symbol")
    /\ Sfree(sym)
    /\ sym' = symbol[sym].next
    /\ pc' = "symbols"
    /\ UNCHANGED <<inputs, options, rcd, progress, symtab, ARCH, exit>>

SymbolsFreed ==
    /\ At("symbols") /\ sym = NULL
    /\ pc' = "cleanup"
    /\ UNCHANGED <<inputs, options, rcd, progress, symtab, sym, ARCH, exit, memory>>

FreeListBug ==
    /\ At("cleanup")
    /\ heap' = heap
    /\ list' = NULL /\ names' = <<>> /\ fnamesz' = 0
    /\ pc' = "targets"
    /\ UNCHANGED <<inputs, optind, rcd, progress, symtab, sym, ARCH, exit, tracked, call, status>>

FreeList ==
    /\ At("cleanup")
    /\ heap' = heap \ {list}
    /\ list' = NULL /\ names' = <<>> /\ fnamesz' = 0
    /\ pc' = "targets"
    /\ UNCHANGED <<inputs, optind, rcd, progress, symtab, sym, ARCH, exit, tracked, call, status>>

DestroyTargets ==
    /\ At("targets")
    /\ Sfree(ARCH)
    /\ pc' = "release"
    /\ UNCHANGED <<inputs, options, rcd, progress, symtab, sym, ARCH, exit>>

Release ==
    /\ At("release")
    /\ Mem!Release
    /\ pc' = "return"
    /\ UNCHANGED <<inputs, options, rcd, progress, symtab, sym, ARCH, exit>>

ReturnBug ==
    /\ At("return")
    /\ exit' = rcd
    /\ pc' = "exited"
    /\ UNCHANGED <<inputs, options, rcd, progress, symtab, sym, ARCH, memory>>

Return ==
    /\ At("return")
    /\ exit' = - rcd
    /\ pc' = "exited"
    /\ UNCHANGED <<inputs, options, rcd, progress, symtab, sym, ARCH, memory>>

Exited == pc = "exited" /\ UNCHANGED vars

-----------------------------------------------------------------------------
Configure == \/ SetOption \/ UnsupportedArch
             \/ CollectName \/ GrowList \/ GrowListFails
             \/ Help \/ EndOptions
Assemble  == \/ Open \/ OpenFails \/ AllFilesRead \/ EndOfFile
             \/ InvalidMnemonic \/ RefusedLine
             \/ MakeSymbol \/ OrphanLabel \/ AddLabel \/ DuplicateLabel
Cleanup   == \/ FreeLabel \/ FreeSymbol \/ SymbolsFreed
             \/ FreeList \/ DestroyTargets \/ Release \/ Return
Next      == \/ InitTargets \/ Configure \/ Assemble \/ Cleanup
             \/ SallocFails \/ SmemWorks \/ Exited

Spec == Init /\ [][Next]_vars

-----------------------------------------------------------------------------
Pointer == Blocks \cup {NULL}
Symbol  == [label : Pointer, name : STRING \cup {NULL}, next : Pointer]

TypeOK ==
    /\ args \in CommandLines /\ disk \in Disks /\ build \in Builds
    /\ pc \in {"init", "configure", "files", "read", "label", "symbols", "symbol",
               "cleanup", "targets", "release", "return", "exited"}
    /\ optind \in 1 .. Len(args) + 1 /\ rcd \in {0, - ERR_MSG_MEM}
    /\ {list, first, last, sym, ARCH} \subseteq Pointer
    /\ names \in Seq(STRING) /\ fnamesz \in Nat
    /\ i \in Nat \ {0} /\ line \in Nat
    /\ pc \in {"read", "label"} =>
          File \in DOMAIN disk /\ line + (IF pc = "label" THEN 1 ELSE 0) <= Len(disk[File])
    /\ symbol \in [Blocks -> Symbol]
    /\ exit \in {RUNNING, 0, 1, ERR_MSG_MEM, FAULT}
    /\ tracked \subseteq heap /\ heap \subseteq Blocks
    /\ call \in [op : {"sfree"}, ptr : Blocks] \cup {Mem!NoCall}
    /\ status \in {"running", "releasing", "exiting", "died"}

\* Whatever main passes to sfree is tracked, so that no cleanup turns into the
\* die() of find_memory: no symbol, label or architecture is freed twice or
\* after it was given to release().
FreesTracked == call # Mem!NoCall => call.ptr \in tracked

\* A process that ends through main has freed all its memory.  die() leaves the
\* list of input files, and a salloc that failed for its cell one block more;
\* a list that could not grow is lost.
ExitFreesMemory ==
    /\ exit = 0 => heap = {}
    /\ exit = 1 => Cardinality(heap \ {list}) <= 1
    /\ exit = ERR_MSG_MEM => Cardinality(heap) <= 1

\* A name is only stored where the block of the list has room for it, and the
\* list is a block of realloc's, that no salloc or sfree is ever told about,
\* exactly when it has names.
NamesHaveRoom ==
    /\ Len(names) <= fnamesz /\ (list = NULL <=> names = <<>>)
    /\ list # NULL => list \in heap \ tracked

\* main, configure and add_label use memory as smem has it: what came from
\* salloc goes back through sfree or release, once, and what came from realloc
\* through free, once.
UsesMemory == Mem!Spec

-----------------------------------------------------------------------------
(* The command line as one who wrote the loop of configure would read it.  *)

\* The arguments that name a file: those before the help text or "--".
Ends(a) == a.opt \in {"h", "?", "--"}
Wanted  == {k \in DOMAIN args : args[k].opt = "file" /\ \A j \in 1 .. k : ~Ends(args[j])}

\* Which of the files the k-th argument is.
Rank(k) == Cardinality({j \in Wanted : j <= k})

\* The list of input files holds the names of the command line in order,
\* whether or not it has been moved, as soon as configure has come to them.
ListsFiles ==
    pc \in {"configure", "files", "read", "label", "symbols", "symbol"} =>
        LET found == IF pc = "configure" THEN {k \in Wanted : k < optind} ELSE Wanted
        IN  /\ Len(names) = Cardinality(found)
            /\ \A k \in found : names[Rank(k)] = args[k].arg

\* What is assembled: the arguments up to the first file that cannot be read,
\* or, if no argument names a file, the standard input, as argument 0.
Available == {k \in Wanted : \A j \in Wanted : j <= k => args[j].arg \in DOMAIN disk}
Sources   == IF Wanted = {} THEN {0} ELSE Available
Lines(k)  == disk[IF k = 0 THEN "stdin" ELSE args[k].arg]

-----------------------------------------------------------------------------
(* The lines in their order, and the symbol table in that of its links.    *)
(* A place is an argument and the number of a line of it.                  *)

LineAt(p)    == Lines(p[1])[p[2]]
Before(p, q) == p[1] < q[1] \/ (p[1] = q[1] /\ p[2] < q[2])
Places       == UNION {{k} \X DOMAIN Lines(k) : k \in Sources}

\* The lines with an error: two kinds of lines that are no labels, a local
\* label without a parent, and a label that is there already.
NoParent(p) == LineAt(p) \in Locals
               /\ \A q \in Places : Before(q, p) => LineAt(q) \in Locals
Again(p)    == \E q \in Places : Before(q, p) /\ LineAt(q) = LineAt(p)
Bad(p)      == LineAt(p) \in {"unknown", "refused"} \/ NoParent(p) \/ Again(p)

AllGood     == \A p \in Places : ~Bad(p)
FirstBad(p) == Bad(p) /\ \A q \in Places : Before(q, p) => ~Bad(q)
FailsFirst  == \E p \in Places : FirstBad(p) /\ LineAt(p) # "unknown"

\* Exit status 0 means that no line of the files that come before the first
\* one missing has an error, and the fault of fail() that the first line with
\* one has an error that fail() is called for: every one but an unknown
\* mnemonic, which the program reports.
ExitTells ==
    /\ exit = 0 => AllGood
    /\ exit = FAULT => FailsFirst

\* Which file of main's loop an argument is.
Turn(k) == IF k = 0 THEN 1 ELSE Rank(k)

\* The n-th line of argument k has been read and entered.
Done(k, n) ==
    /\ n \in DOMAIN Lines(k)
    /\ Turn(k) < i \/ (Turn(k) = i /\ pc \in {"read", "label"} /\ n <= line)

Entered == {p \in Places : Done(p[1], p[2])}

Follows(q, p) == Before(p, q) /\ \A r \in Entered : ~(Before(p, r) /\ Before(r, q))

Names(s, p) == symbol[s].name = LineAt(p)

\* The links put a symbol with the line at p where p is among the lines.
LinkedAt(s, p) ==
    /\ s = first <=> \A q \in Entered : ~Before(q, p)
    /\ IF symbol[s].next = NULL THEN \A q \in Entered : ~Before(p, q)
       ELSE \E q \in Entered : Names(symbol[s].next, q) /\ Follows(q, p)

\* The symbol table holds the labels of the lines read so far over all files,
\* each once, linked in the order of the lines, in blocks that have not been
\* freed.
ListsLabels ==
    pc \in {"files", "read", "label"} /\ status = "running" =>
        /\ \A p \in Entered : \E s \in Listed : Names(s, p)
        /\ \A s \in Listed : \E p \in Entered : Names(s, p) /\ LinkedAt(s, p)
        /\ \A s, t \in Listed : symbol[s].name = symbol[t].name => s = t
        /\ \A s \in Listed : {s, symbol[s].label} \subseteq tracked
=============================================================================
