---------------------------- MODULE ProcessProofs ----------------------------
(***************************************************************************)
(* For every command line, every content of the files, both builds and any *)
(* amount of memory: the types of Process, that only tracked blocks are    *)
(* given to sfree, what is still allocated at exit, the list of input      *)
(* files, that the exit status tells what was read, that the symbol table  *)
(* is linked in the order of the lines, and that the program uses memory   *)
(* as TrackedMemory says.                                                  *)
(*                                                                         *)
(* The invariant has three parts.  ChainOK is the linked list of symbols:  *)
(* no two symbols have one successor and the first is nobody's, which is   *)
(* all that is needed to know that a walk along next never comes back.     *)
(* LivesOK says which blocks are still to be given back at each stage of   *)
(* the program; in the loop of the debug build, that what lies ahead of    *)
(* the loop variable has not been freed.  HeapOK accounts for the blocks   *)
(* that are not tracked: the list of input files and at most one more.     *)
(***************************************************************************)
EXTENDS Process, FiniteSetTheorems, SequenceTheorems, TLAPS

\* A block that is still to be given back, and not just being.
Live(b) == b \in tracked /\ b # call.ptr

ChainOK ==
    /\ first = NULL <=> Listed = {}
    /\ first = NULL => last = NULL
    /\ first # NULL => first \in Listed /\ last \in Listed /\ symbol[last].next = NULL
    /\ \A s \in Listed :
          /\ symbol[s].next \in Listed \cup {NULL} /\ symbol[s].next # first
          /\ symbol[s].label \notin Listed \cup {ARCH}
          /\ s # ARCH
    /\ \A s, t \in Listed :
          /\ symbol[s].label = symbol[t].label => s = t
          /\ symbol[s].next = symbol[t].next /\ symbol[s].next # NULL => s = t

\* A block that is neither the architecture's nor any symbol's or label's.
Fresh(b) == b # ARCH /\ \A s \in Listed : b # s /\ b # symbol[s].label

Entering == pc \in {"configure", "files", "read", "label"}
Freeing  == pc \in {"symbols", "symbol"}

\* All symbols are live until main's loop over them, with their labels.
EnteringOK ==
    /\ call = Mem!NoCall
    /\ \A s \in Listed : Live(s) /\ Live(symbol[s].label)
    /\ pc = "label" => sym \in Blocks /\ Live(sym) /\ Fresh(sym)

\* In that loop a live symbol has only live ones after it, none before the
\* loop variable is live, and its label is but for the one just freed.
FreeingOK ==
    /\ sym # NULL => sym \in Listed /\ Live(sym)
    /\ pc = "symbol" => sym # NULL
    /\ \A s \in Listed : Live(s) =>
          /\ symbol[s].next # NULL => Live(symbol[s].next)
          /\ sym # NULL => symbol[s].next # sym
          /\ Live(symbol[s].label) \/ (pc = "symbol" /\ s = sym)

LivesOK ==
    /\ pc = "init" => Listed = {} /\ tracked = {} /\ call = Mem!NoCall
    /\ status = "running" =>
          /\ Entering \/ Freeing \/ pc \in {"cleanup", "targets"} => Live(ARCH)
          /\ Entering => EnteringOK
          /\ Freeing => FreeingOK

\* The blocks that are neither tracked nor the list of input files.
Lost == (heap \ tracked) \ {list}

HeapOK ==
    /\ call # Mem!NoCall => status = "running" /\ call.ptr \in tracked
    /\ status = "releasing" => pc = "return"
    /\ status = "died" <=> exit = 1
    /\ exit # RUNNING <=> pc = "exited"
    /\ status = "exiting" => exit = RUNNING
    /\ list # NULL => list \in heap \ tracked
    /\ pc \in {"targets", "release", "return"} \/ rcd # 0 => list = NULL
    /\ rcd # 0 => /\ pc \in {"cleanup", "targets", "release", "return", "exited"}
                  /\ status \in {"running", "releasing"}
    /\ rcd = 0 /\ status \in {"running", "releasing"} => Lost = {}
    /\ \E b \in Pointer : Lost \subseteq {b}
    /\ pc = "return" /\ status = "running" => tracked = {} /\ call = Mem!NoCall
    /\ exit = 1 => tracked = {}
    /\ exit \in {0, ERR_MSG_MEM} =>
          exit = - rcd /\ tracked = {} /\ list = NULL /\ status = "running"

ProcessInv == TypeOK /\ ChainOK /\ LivesOK /\ HeapOK

-----------------------------------------------------------------------------
(* The frames: the few actions that change each part of the state.         *)

\* Two actions write the table of symbols or the architecture.
LEMMA TableFrame ==
    ASSUME [Next]_vars
    PROVE  InitTargets \/ AddLabel \/ UNCHANGED <<symtab, ARCH>>
<1>1. CASE Configure
  BY <1>1 DEF Configure, SetOption, UnsupportedArch, CollectName, GrowList, GrowListFails,
              Help, EndOptions, Die
<1>2. CASE Assemble
  BY <1>2 DEF Assemble, Open, OpenFails, AllFilesRead, EndOfFile, InvalidMnemonic, RefusedLine,
              MakeSymbol, OrphanLabel, DuplicateLabel, Die
<1>3. CASE Cleanup
  BY <1>3 DEF Cleanup, FreeLabel, FreeSymbol, SymbolsFreed, FreeList, DestroyTargets, Release,
              Return
<1>4. CASE SallocFails \/ SmemWorks \/ Exited \/ UNCHANGED vars
  BY <1>4 DEF SallocFails, SmemWorks, Exited, Die, vars
<1> QED BY <1>1, <1>2, <1>3, <1>4 DEF Next

\* What the other actions do to the memory, one way each.
LEMMA MemoryFrame ==
    ASSUME [Next]_vars
    PROVE  \/ UNCHANGED memory
           \/ GrowList \/ FreeList
           \/ InitTargets \/ MakeSymbol \/ AddLabel \/ DuplicateLabel
           \/ FreeLabel \/ FreeSymbol \/ DestroyTargets
           \/ Release
           \/ UnsupportedArch \/ InvalidMnemonic \/ SallocFails \/ SmemWorks
<1>1. CASE Configure
  BY <1>1 DEF Configure, SetOption, CollectName, GrowListFails, Help, EndOptions
<1>2. CASE Assemble
  BY <1>2 DEF Assemble, Open, OpenFails, AllFilesRead, EndOfFile, RefusedLine, OrphanLabel
<1>3. CASE Cleanup
  BY <1>3 DEF Cleanup, SymbolsFreed, Return
<1>4. CASE Exited \/ UNCHANGED vars
  BY <1>4 DEF Exited, vars
<1> QED BY <1>1, <1>2, <1>3, <1>4 DEF Next

-----------------------------------------------------------------------------
(* The types.                                                              *)

\* What a line of the current file is.
LEMMA TextType ==
    ASSUME TypeOK, pc \in {"read", "label"}, line < Len(disk[File])
    PROVE  Text \in STRING
<1>1. disk[File] \in Seq(STRING)
  BY InputAssumption DEF TypeOK
<1>2. line + 1 \in 1 .. Len(disk[File])
  BY <1>1 DEF TypeOK
<1> QED BY <1>1, <1>2, ElementOfSeq DEF Text

LEMMA ArgumentType ==
    ASSUME TypeOK, optind <= Len(args)
    PROVE  /\ args[optind].opt \in Options /\ Optarg \in STRING
           /\ optind + 1 \in 1 .. Len(args) + 1
<1>1. args \in Seq([opt : Options, arg : STRING])
  BY InputAssumption DEF TypeOK
<1>2. optind \in 1 .. Len(args)
  BY <1>1 DEF TypeOK
<1>3. args[optind] \in [opt : Options, arg : STRING]
  BY <1>1, <1>2, ElementOfSeq
<1> QED BY <1>1, <1>2, <1>3 DEF Optarg

\* A salloc, a call of sfree, a failure and a turn of smem keep the types.
MemoryOK ==
    /\ tracked \subseteq heap /\ heap \subseteq Blocks
    /\ call \in [op : {"sfree"}, ptr : Blocks] \cup {Mem!NoCall}
    /\ status \in {"running", "releasing", "exiting", "died"}

LEMMA MemoryTypes ==
    ASSUME MemoryOK,
           \/ \E b \in Blocks : Salloc(b)
           \/ \E b : Sfree(b)
           \/ Mem!OutOfMemory \/ Mem!Die \/ Mem!Release \/ Mem!Smem
    PROVE  MemoryOK'
<1> USE DEF MemoryOK
<1>1. ASSUME NEW b \in Blocks, Salloc(b) PROVE MemoryOK'
  BY <1>1 DEF Salloc, Mem!Acquire
<1>2. ASSUME NEW b, Sfree(b) PROVE MemoryOK'
  BY <1>2 DEF Sfree, Mem!Call, Mem!Calls
<1>3. CASE Mem!OutOfMemory \/ Mem!Die \/ Mem!Release
  BY <1>3 DEF Mem!OutOfMemory, Mem!Die, Mem!Release
<1>4. CASE Mem!Serve
  <2>1. call.op # "srealloc"
    BY DEF Mem!NoCall
  <2> QED BY <1>4, <2>1 DEF Mem!Serve, Mem!Exchange
<1>5. CASE Mem!Refuse \/ Mem!ReleaseBlock \/ Mem!Released
  BY <1>5 DEF Mem!Refuse, Mem!ReleaseBlock, Mem!Released
<1> QED BY <1>1, <1>2, <1>3, <1>4, <1>5 DEF Mem!Smem

LEMMA MemoryStep ==
    ASSUME TypeOK, HeapOK, [Next]_vars
    PROVE  MemoryOK'
<1>0. MemoryOK
  BY DEF TypeOK, MemoryOK
<1>1. CASE UNCHANGED memory
  BY <1>0, <1>1 DEF memory, MemoryOK
<1>2. CASE GrowList
  BY <1>0, <1>2, InputAssumption DEF GrowList, MemoryOK, HeapOK
<1>3. CASE FreeList
  BY <1>0, <1>3, InputAssumption DEF FreeList, MemoryOK, HeapOK
<1>4. CASE InitTargets \/ MakeSymbol \/ AddLabel \/ DuplicateLabel
  BY <1>0, <1>4, MemoryTypes DEF InitTargets, MakeSymbol, AddLabel, DuplicateLabel
<1>5. CASE FreeLabel \/ FreeSymbol \/ DestroyTargets
  BY <1>0, <1>5, MemoryTypes DEF FreeLabel, FreeSymbol, DestroyTargets
<1>6. CASE Release \/ UnsupportedArch \/ InvalidMnemonic \/ SallocFails \/ SmemWorks
  BY <1>0, <1>6, MemoryTypes DEF Release, UnsupportedArch, InvalidMnemonic, SallocFails, SmemWorks
<1> QED BY <1>1, <1>2, <1>3, <1>4, <1>5, <1>6, MemoryFrame

\* The rest of the state.
ProgramOK ==
    /\ args \in CommandLines /\ disk \in Disks /\ build \in Builds
    /\ pc \in {"init", "configure", "files", "read", "label", "symbols", "symbol",
               "cleanup", "targets", "release", "return", "exited"}
    /\ optind \in 1 .. Len(args) + 1 /\ rcd \in {0, - ERR_MSG_MEM}
    /\ {list, first, last, sym, ARCH} \subseteq Pointer
    /\ names \in Seq(STRING) /\ fnamesz \in Nat
    /\ i \in Nat \ {0} /\ line \in Nat
    /\ pc \in {"read", "label"} =>
          File \in DOMAIN disk /\ line + (IF pc = "label" THEN 1 ELSE 0) <= Len(disk[File])
    /\ symbol \in [Blocks -> Symbol]
    /\ exit \in {RUNNING, 0, 1, ERR_MSG_MEM, FAULT}

LEMMA ConfigureTypes ==
    ASSUME TypeOK, Configure
    PROVE  ProgramOK'
<1> USE DEF TypeOK, ProgramOK
<1>1. CASE SetOption
  BY <1>1, ArgumentType DEF SetOption, Option, NextOption, At, inputs, progress, symtab, File
<1>2. CASE UnsupportedArch
  BY <1>2 DEF UnsupportedArch, Die, inputs, options, progress, symtab, File
<1>3. CASE CollectName \/ GrowList
  <2>1. names' = Append(names, Optarg) /\ names' \in Seq(STRING)
    <3>1. names' = Append(names, Optarg) /\ optind <= Len(args)
      BY <1>3 DEF CollectName, GrowList, Option
    <3>2. Optarg \in STRING /\ names \in Seq(STRING)
      BY <3>1, ArgumentType
    <3> QED BY <3>1, <3>2, AppendProperties
  <2>2. list' \in Pointer /\ fnamesz' \in Nat
    <3>1. CASE CollectName
      BY <3>1 DEF CollectName
    <3>2. CASE GrowList
      BY <3>2 DEF GrowList, Pointer
    <3> QED BY <1>3, <3>1, <3>2
  <2>3. pc = "configure" /\ optind' \in 1 .. Len(args) + 1
    BY <1>3, ArgumentType DEF CollectName, GrowList, Option, NextOption, At
  <2> QED BY <1>3, <2>1, <2>2, <2>3 DEF CollectName, GrowList, inputs, progress, symtab
<1>4. CASE GrowListFails
  BY <1>4, EmptySeq DEF GrowListFails, inputs, progress, symtab, Pointer
<1>5. CASE Help \/ EndOptions
  BY <1>5 DEF Help, EndOptions, inputs, options, progress, symtab
<1> QED BY <1>1, <1>2, <1>3, <1>4, <1>5 DEF Configure

LEMMA LinkType ==
    ASSUME TypeOK, NEW b \in Blocks, NEW l \in Blocks, Text \in STRING, Link(b, l)
    PROVE  {first', last'} \subseteq Pointer /\ symbol' \in [Blocks -> Symbol]
<1>1. [label |-> l, name |-> Text, next |-> NULL] \in Symbol
  BY DEF Symbol, Pointer
<1>2. \A s \in Blocks : symbol[s] \in Symbol /\ [symbol[s] EXCEPT !.next = b] \in Symbol
  BY DEF TypeOK, Symbol, Pointer
<1> QED BY <1>1, <1>2 DEF Link, TypeOK, Pointer

LEMMA AssembleTypes ==
    ASSUME TypeOK, LivesOK, Assemble
    PROVE  ProgramOK'
<1> USE DEF TypeOK, ProgramOK
<1>1. CASE Open
  <2>1. Len(disk[File]) \in Nat
    BY <1>1, InputAssumption, LenProperties DEF Open
  <2> QED BY <1>1, <2>1 DEF Open, inputs, options, symtab, File
<1>2. CASE OpenFails
  BY <1>2 DEF OpenFails, inputs, options, progress, symtab
<1>3. CASE AllFilesRead \/ EndOfFile
  BY <1>3 DEF AllFilesRead, EndOfFile, Assembled, inputs, options, progress, symtab
<1>4. CASE InvalidMnemonic
  BY <1>4 DEF InvalidMnemonic, Die, inputs, options, progress, symtab, File
<1>5. CASE MakeSymbol
  <2>1. Len(disk[File]) \in Nat /\ line < Len(disk[File]) /\ pc = "read"
    BY <1>5, InputAssumption, LenProperties DEF MakeSymbol, HasLine, At
  <2> QED BY <1>5, <2>1 DEF MakeSymbol, inputs, options, progress, symtab, File, Pointer
<1>6. CASE AddLabel
  <2>1. Len(disk[File]) \in Nat /\ line < Len(disk[File]) /\ pc = "label" /\ sym \in Blocks
    BY <1>6, InputAssumption, LenProperties DEF AddLabel, At, LivesOK, EnteringOK, Entering
  <2>2. Text \in STRING
    BY <2>1, TextType
  <2>3. {first', last'} \subseteq Pointer /\ symbol' \in [Blocks -> Symbol]
    BY <1>6, <2>1, <2>2, LinkType DEF AddLabel
  <2> QED BY <1>6, <2>1, <2>3 DEF AddLabel, inputs, options, File
<1>7. CASE RefusedLine \/ OrphanLabel \/ DuplicateLabel
  BY <1>7 DEF RefusedLine, OrphanLabel, DuplicateLabel, Fault, inputs, options, progress, symtab
<1> QED BY <1>1, <1>2, <1>3, <1>4, <1>5, <1>6, <1>7 DEF Assemble

\* Freeing goes along the list, whose links are blocks or NULL.
LEMMA CleanupTypes ==
    ASSUME TypeOK, HeapOK, Cleanup
    PROVE  ProgramOK'
<1> USE DEF TypeOK, ProgramOK
<1>1. CASE FreeLabel \/ SymbolsFreed \/ DestroyTargets \/ Release
  BY <1>1 DEF FreeLabel, SymbolsFreed, DestroyTargets, Release, inputs, options, progress, symtab
<1>2. CASE FreeSymbol
  <2>1. sym \in Blocks
    BY <1>2 DEF FreeSymbol, Sfree, Mem!Call, Mem!Calls
  <2>2. symbol[sym].next \in Pointer
    BY <2>1 DEF Symbol
  <2> QED BY <1>2, <2>2 DEF FreeSymbol, inputs, options, progress, symtab
<1>3. CASE FreeList
  BY <1>3, EmptySeq DEF FreeList, Pointer, inputs, progress, symtab
<1>4. CASE Return
  BY <1>4 DEF Return, RUNNING, FAULT, ERR_MSG_MEM, inputs, options, progress, symtab
<1> QED BY <1>1, <1>2, <1>3, <1>4 DEF Cleanup

LEMMA TypeStep ==
    ASSUME ProcessInv, [Next]_vars
    PROVE  TypeOK'
<1> SUFFICES ProgramOK'
  BY MemoryStep DEF ProcessInv, TypeOK, ProgramOK, MemoryOK
<1> USE DEF ProcessInv
<1>1. CASE InitTargets
  BY <1>1 DEF InitTargets, TypeOK, ProgramOK, Pointer, inputs, options, progress, symtab
<1>2. CASE Configure \/ Assemble \/ Cleanup
  BY <1>2, ConfigureTypes, AssembleTypes, CleanupTypes
<1>3. CASE SallocFails
  BY <1>3 DEF SallocFails, Die, TypeOK, ProgramOK, inputs, options, progress, symtab, File
<1>4. CASE SmemWorks
  BY <1>4 DEF SmemWorks, TypeOK, ProgramOK, inputs, options, progress, symtab, File
<1>5. CASE Exited \/ UNCHANGED vars
  BY <1>5 DEF Exited, vars, TypeOK, ProgramOK, inputs, options, progress, symtab, File
<1> QED BY <1>1, <1>2, <1>3, <1>4, <1>5 DEF Next

-----------------------------------------------------------------------------
(* The linked list of symbols.                                             *)

\* The list with one more symbol at its end, whose two blocks are new.
LEMMA LinkedChain ==
    ASSUME TypeOK, ChainOK, NEW b \in Blocks, NEW l \in Blocks, ARCH' = ARCH,
           Fresh(b), Fresh(l), b # l, Link(b, l)
    PROVE  /\ ChainOK' /\ Listed' = Listed \cup {b} /\ symbol'[b].label = l
           /\ \A s \in Listed : s # b /\ symbol'[s].label = symbol[s].label
<1> USE InputAssumption DEF TypeOK
<1>1. symbol'[b] = [label |-> l, name |-> Text, next |-> NULL]
  BY DEF Link
<1>2. \A s \in Blocks : s # b =>
         /\ symbol'[s].label = symbol[s].label
         /\ symbol'[s].next = IF s = last THEN b ELSE symbol[s].next
  BY DEF Link, Symbol
<1>3. Listed' = Listed \cup {b} /\ b \notin Listed
  BY <1>1, <1>2 DEF Listed, Fresh
<1>4. /\ first' = IF first = NULL THEN b ELSE first
      /\ last' = b /\ b # NULL /\ Listed \subseteq Blocks /\ symbol'[b].next = NULL
      /\ symbol'[b].label = l
  BY <1>1 DEF Link, Listed
<1>5. \A s \in Listed : s # b /\ symbol'[s].label = symbol[s].label
  BY <1>2, <1>3, <1>4
<1>6. \A s \in Listed' : /\ symbol'[s].next \in Listed' \cup {NULL}
                          /\ symbol'[s].next # first'
  BY <1>2, <1>3, <1>4 DEF ChainOK
<1>7. \A s \in Listed' : symbol'[s].label \notin Listed' \cup {ARCH} /\ s # ARCH
  BY <1>3, <1>4, <1>5 DEF ChainOK, Fresh
<1>8. \A s, t \in Listed' : symbol'[s].label = symbol'[t].label => s = t
  <2>1. \A s, t \in Listed : symbol'[s].label = symbol'[t].label => s = t
    BY <1>5 DEF ChainOK
  <2>2. \A s \in Listed : symbol'[s].label # l
    BY <1>5 DEF Fresh
  <2> QED BY <1>3, <1>4, <2>1, <2>2
<1>9. \A s, t \in Listed' :
         symbol'[s].next = symbol'[t].next /\ symbol'[s].next # NULL => s = t
  BY <1>2, <1>3, <1>4 DEF ChainOK
<1> QED BY <1>3, <1>4, <1>5, <1>6, <1>7, <1>8, <1>9 DEF ChainOK

\* A block that salloc returns is none of those that are live.
LEMMA NewIsFresh ==
    ASSUME TypeOK, EnteringOK, Live(ARCH), NEW b \in Blocks \ tracked
    PROVE  Fresh(b)
BY DEF EnteringOK, Fresh, Live

LEMMA AddLabelChain ==
    ASSUME ProcessInv, AddLabel
    PROVE  \E l \in Blocks :
              /\ Salloc(l) /\ l \notin tracked
              /\ ChainOK' /\ Listed' = Listed \cup {sym} /\ symbol'[sym].label = l
              /\ \A s \in Listed : s # sym /\ symbol'[s].label = symbol[s].label
<1> USE DEF ProcessInv
<1>1. PICK l \in Blocks : Salloc(l) /\ Link(sym, l)
  BY DEF AddLabel
<1>2. /\ EnteringOK /\ Live(ARCH) /\ sym \in Blocks /\ Live(sym) /\ Fresh(sym)
  BY DEF AddLabel, At, LivesOK, EnteringOK, Entering
<1>3. l \notin tracked /\ ARCH' = ARCH
  BY <1>1 DEF Salloc, TypeOK, AddLabel
<1>4. Fresh(l) /\ l # sym
  BY <1>2, <1>3, NewIsFresh DEF Live
<1> QED BY <1>1, <1>2, <1>3, <1>4, LinkedChain

LEMMA ChainStep ==
    ASSUME ProcessInv, [Next]_vars
    PROVE  ChainOK'
<1> USE DEF ProcessInv
<1>1. CASE InitTargets
  BY <1>1 DEF InitTargets, At, LivesOK, ChainOK, Listed, symtab
<1>2. CASE AddLabel
  BY <1>2, AddLabelChain
<1>3. CASE UNCHANGED <<symtab, ARCH>>
  BY <1>3 DEF symtab, ChainOK, Listed
<1> QED BY <1>1, <1>2, <1>3, TableFrame

-----------------------------------------------------------------------------
(* The blocks that are still to be given back.                             *)

Holdings == <<tracked, call, status, symtab, ARCH>>

\* From one line, file or argument to the next nothing changes hands.
LEMMA StillEntering ==
    ASSUME ProcessInv, status = "running", Entering, UNCHANGED Holdings,
           pc' \in {"configure", "files", "read"}
    PROVE  LivesOK'
BY DEF ProcessInv, LivesOK, Holdings, symtab, Entering, Freeing, EnteringOK, Live, Listed

LEMMA ToCleanup ==
    ASSUME ProcessInv, status = "running", Live(ARCH), UNCHANGED Holdings,
           pc' \in {"cleanup", "targets"}
    PROVE  LivesOK'
BY DEF LivesOK, Holdings, Entering, Freeing, Live

LEMMA ConfigureLives ==
    ASSUME ProcessInv, Configure
    PROVE  LivesOK'
<1> USE DEF ProcessInv
<1>1. CASE SetOption \/ CollectName \/ GrowList \/ Help \/ EndOptions
  BY <1>1, StillEntering
  DEF SetOption, CollectName, GrowList, Help, EndOptions, Option, At, Entering, Holdings, memory
<1>2. CASE GrowListFails
  BY <1>2, ToCleanup DEF GrowListFails, Option, At, Entering, Holdings, memory, LivesOK
<1>3. CASE UnsupportedArch
  BY <1>3 DEF UnsupportedArch, Option, At, Die, Mem!Die, LivesOK
<1> QED BY <1>1, <1>2, <1>3 DEF Configure

\* The debug build starts its loop at the first symbol, before which is none.
LEMMA AssembledLives ==
    ASSUME ProcessInv, status = "running", Entering, Assembled, UNCHANGED Holdings
    PROVE  LivesOK'
<1>1. CASE build = "debug"
  <2>1. pc' = "symbols" /\ sym' = first /\ Listed' = Listed /\ EnteringOK /\ Live(ARCH)
    BY <1>1 DEF Assembled, Holdings, symtab, Listed, ProcessInv, LivesOK
  <2>2. FreeingOK'
    BY <2>1 DEF ProcessInv, ChainOK, EnteringOK, FreeingOK, Live, Holdings, symtab
  <2> QED BY <2>1, <2>2 DEF LivesOK, Live, Entering, Holdings
<1>2. CASE build # "debug"
  BY <1>2, ToCleanup DEF Assembled, ProcessInv, LivesOK
<1> QED BY <1>1, <1>2

LEMMA AssembleLives ==
    ASSUME ProcessInv, Assemble
    PROVE  LivesOK'
<1> USE InputAssumption DEF ProcessInv
<1>1. CASE Open
  BY <1>1, StillEntering DEF Open, At, Entering, Holdings, memory
<1>2. CASE OpenFails
  BY <1>2, ToCleanup DEF OpenFails, At, Entering, Holdings, memory, LivesOK
<1>3. CASE AllFilesRead
  BY <1>3, AssembledLives DEF AllFilesRead, At, Entering, Holdings, memory
<1>4. CASE EndOfFile
  BY <1>4, AssembledLives, StillEntering DEF EndOfFile, At, Entering, Holdings, memory
<1>5. CASE InvalidMnemonic
  BY <1>5 DEF InvalidMnemonic, HasLine, At, Die, Mem!Die, LivesOK
<1>6. CASE MakeSymbol
  <2>1. PICK b \in Blocks : Salloc(b) /\ sym' = b
    BY <1>6 DEF MakeSymbol
  <2>2. status = "running" /\ EnteringOK /\ Live(ARCH) /\ b \notin tracked
    BY <1>6, <2>1 DEF MakeSymbol, HasLine, At, LivesOK, Entering, Salloc, TypeOK
  <2>3. Fresh(b)
    BY <2>2, NewIsFresh
  <2>4. /\ tracked' = tracked \cup {b} /\ UNCHANGED <<call, status, symtab, ARCH>>
        /\ pc' = "label"
    BY <1>6, <2>1 DEF MakeSymbol, Salloc, Mem!Acquire
  <2>5. call = Mem!NoCall /\ b # NULL
    BY <2>2 DEF EnteringOK
  <2>6. Listed' = Listed /\ Fresh(sym)'
    BY <2>1, <2>3, <2>4 DEF Listed, symtab, Fresh
  <2>7. \A a : Live(a) => Live(a)'
    BY <2>4 DEF Live
  <2>8. Live(sym)' /\ sym' \in Blocks
    BY <2>1, <2>4, <2>5 DEF Live, Mem!NoCall
  <2>9. EnteringOK' /\ Live(ARCH)'
    BY <2>2, <2>4, <2>5, <2>6, <2>7, <2>8 DEF EnteringOK, symtab
  <2> QED BY <2>4, <2>9 DEF LivesOK, Freeing
<1>7. CASE AddLabel
  <2>1. PICK l \in Blocks :
           /\ Salloc(l) /\ Listed' = Listed \cup {sym} /\ symbol'[sym].label = l
           /\ \A s \in Listed : s # sym /\ symbol'[s].label = symbol[s].label
    BY <1>7, AddLabelChain
  <2>2. status = "running" /\ EnteringOK /\ Live(ARCH) /\ Live(sym)
    BY <1>7 DEF AddLabel, At, LivesOK, EnteringOK, Entering
  <2>3. /\ tracked' = tracked \cup {l} /\ UNCHANGED <<call, status, ARCH>>
        /\ pc' = "read"
    BY <1>7, <2>1 DEF AddLabel, Salloc, Mem!Acquire
  <2>4. /\ \A a : Live(a) => Live(a)'
        /\ Live(l)'
    BY <2>2, <2>3 DEF Live, EnteringOK, Mem!NoCall
  <2>5. EnteringOK' /\ Live(ARCH)'
    BY <2>1, <2>2, <2>3, <2>4 DEF EnteringOK
  <2> QED BY <2>3, <2>5 DEF LivesOK, Freeing
<1>8. CASE RefusedLine \/ OrphanLabel \/ DuplicateLabel
  BY <1>8 DEF RefusedLine, OrphanLabel, DuplicateLabel, Fault, LivesOK, Entering, Freeing
<1> QED BY <1>1, <1>2, <1>3, <1>4, <1>5, <1>6, <1>7, <1>8 DEF Assemble

\* The loop of the debug build.  Only the block that is given back stops being
\* live: a label no other symbol has, or a symbol to which nothing live leads.
LEMMA CleanupLives ==
    ASSUME ProcessInv, Cleanup
    PROVE  LivesOK'
<1> USE InputAssumption DEF ProcessInv
<1>1. ASSUME NEW b, Sfree(b)
      PROVE  /\ call = Mem!NoCall /\ status = "running" /\ status' = "running"
             /\ \A a : Live(a)' <=> Live(a) /\ a # b
  BY <1>1 DEF Sfree, Mem!Call, Mem!Idle, Mem!NoCall, Live, TypeOK
<1>2. CASE FreeLabel
  <2>1. FreeingOK /\ Live(ARCH) /\ sym \in Listed /\ sym \in Blocks
    BY <1>2 DEF FreeLabel, At, LivesOK, FreeingOK, Freeing, Listed
  <2>2. /\ \A a : Live(a)' <=> Live(a) /\ a # symbol[sym].label
        /\ status' = "running" /\ pc' = "symbol"
        /\ UNCHANGED <<sym, symbol, ARCH>> /\ Listed' = Listed
    BY <1>1, <1>2 DEF FreeLabel, symtab, Listed
  <2>3. ARCH # symbol[sym].label /\ \A s \in Listed : s # symbol[sym].label
    BY <2>1 DEF ChainOK
  <2>4. sym # NULL /\ Live(sym)'
    BY <1>2, <2>1, <2>2, <2>3 DEF FreeLabel, FreeingOK
  <2>5. ASSUME NEW s \in Listed, Live(s)
        PROVE  /\ symbol[s].next # NULL => Live(symbol[s].next)'
               /\ symbol[s].next # sym
               /\ Live(symbol[s].label)' \/ s = sym
    <3>1. /\ symbol[s].next # NULL => Live(symbol[s].next) /\ symbol[s].next \in Listed
          /\ symbol[s].next # sym /\ Live(symbol[s].label)
      BY <1>2, <2>1, <2>4, <2>5 DEF FreeLabel, At, FreeingOK, ChainOK
    <3>2. s # sym => symbol[s].label # symbol[sym].label
      BY <2>1 DEF ChainOK
    <3> QED BY <2>2, <2>3, <3>1, <3>2
  <2>6. FreeingOK'
    BY <2>1, <2>2, <2>4, <2>5 DEF FreeingOK
  <2>7. Live(ARCH)'
    BY <2>1, <2>2, <2>3
  <2> QED BY <2>2, <2>6, <2>7 DEF LivesOK, Entering
<1>3. CASE FreeSymbol
  <2>1. FreeingOK /\ Live(ARCH) /\ sym # NULL /\ sym \in Listed /\ Live(sym)
    BY <1>3 DEF FreeSymbol, At, LivesOK, FreeingOK, Freeing
  <2>2. /\ \A a : Live(a)' <=> Live(a) /\ a # sym
        /\ status' = "running" /\ pc' = "symbols" /\ sym' = symbol[sym].next
        /\ UNCHANGED <<symbol, ARCH>> /\ Listed' = Listed
    BY <1>1, <1>3 DEF FreeSymbol, symtab, Listed
  <2>3. ARCH # sym /\ \A s \in Listed : symbol[s].label # sym
    BY <2>1 DEF ChainOK
  <2>4. sym' # NULL => sym' \in Listed /\ Live(sym)'
    <3>1. sym' # NULL => sym' \in Listed /\ Live(sym') /\ sym' # sym
      BY <2>1, <2>2 DEF FreeingOK, ChainOK
    <3> QED BY <2>2, <3>1 DEF Live
  <2>5. ASSUME NEW s \in Listed, Live(s), s # sym
        PROVE  /\ symbol[s].next # NULL => Live(symbol[s].next)'
               /\ sym' # NULL => symbol[s].next # sym'
               /\ Live(symbol[s].label)'
    <3>1. /\ symbol[s].next # NULL => Live(symbol[s].next)
          /\ symbol[s].next # sym /\ Live(symbol[s].label)
      BY <2>1, <2>5 DEF FreeingOK
    <3>2. sym' # NULL => symbol[s].next # sym'
      BY <2>1, <2>2, <2>5 DEF ChainOK
    <3> QED BY <2>2, <2>3, <3>1, <3>2
  <2>6. FreeingOK'
    BY <2>2, <2>4, <2>5 DEF FreeingOK
  <2>7. Live(ARCH)'
    BY <2>1, <2>2, <2>3
  <2> QED BY <2>2, <2>6, <2>7 DEF LivesOK, Entering
<1>4. CASE SymbolsFreed
  BY <1>4, ToCleanup DEF SymbolsFreed, At, Freeing, Holdings, memory, LivesOK
<1>5. CASE FreeList
  BY <1>5, ToCleanup DEF FreeList, At, Holdings, LivesOK
<1>6. CASE DestroyTargets \/ Release \/ Return
  BY <1>6 DEF DestroyTargets, Release, Return, LivesOK, Entering, Freeing
<1> QED BY <1>2, <1>3, <1>4, <1>5, <1>6 DEF Cleanup

LEMMA LivesStep ==
    ASSUME ProcessInv, [Next]_vars
    PROVE  LivesOK'
<1> USE InputAssumption DEF ProcessInv
<1>1. CASE InitTargets
  BY <1>1 DEF InitTargets, At, Salloc, Mem!Acquire, Mem!NoCall, symtab, Listed, TypeOK,
              LivesOK, EnteringOK, Entering, Freeing, Live
<1>2. CASE Configure \/ Assemble \/ Cleanup
  BY <1>2, ConfigureLives, AssembleLives, CleanupLives
<1>3. CASE SallocFails
  BY <1>3 DEF SallocFails, Die, Mem!OutOfMemory, symtab, Listed, LivesOK
<1>4. CASE SmemWorks
  <2>1. UNCHANGED <<symtab, sym, ARCH>> /\ pc' \in {pc, "exited"} /\ Listed' = Listed
    BY <1>4 DEF SmemWorks, symtab, Listed
  <2>2. CASE Mem!Serve
    <3>1. /\ status = "running" /\ status' = "running" /\ call # Mem!NoCall
          /\ \A a : Live(a)' <=> Live(a)
      BY <2>2 DEF Mem!Serve, Mem!Exchange, Mem!NoCall, Live, TypeOK
    <3>2. ~Entering /\ pc # "init" /\ pc' = pc
      BY <1>4, <3>1 DEF SmemWorks, LivesOK, EnteringOK
    <3>3. Freeing => FreeingOK'
      BY <2>1, <3>1, <3>2 DEF LivesOK, FreeingOK, symtab
    <3> QED BY <2>1, <3>1, <3>2, <3>3 DEF LivesOK, Entering, Freeing
  <2>3. CASE Mem!Refuse
    BY <2>1, <2>3 DEF Mem!Refuse, LivesOK
  <2>4. CASE Mem!ReleaseBlock
    BY <2>1, <2>4 DEF Mem!ReleaseBlock, Mem!Releasing, LivesOK
  <2>5. CASE Mem!Released
    BY <2>1, <2>5 DEF Mem!Released, Mem!Releasing, LivesOK, HeapOK, Entering, Freeing
  <2> QED BY <1>4, <2>2, <2>3, <2>4, <2>5 DEF SmemWorks, Mem!Smem
<1>5. CASE Exited \/ UNCHANGED vars
  BY <1>5 DEF Exited, vars, symtab, memory, Listed, LivesOK, Entering, EnteringOK, Freeing,
              FreeingOK, Live, Fresh
<1> QED BY <1>1, <1>2, <1>3, <1>4, <1>5 DEF Next

-----------------------------------------------------------------------------
(* The blocks that are not tracked.                                        *)

\* A salloc allocates a tracked block.
LEMMA SallocTracked ==
    ASSUME TypeOK, NEW b, Salloc(b)
    PROVE  /\ heap' \ tracked' = heap \ tracked
           /\ status = "running" /\ status' = "running"
           /\ call = Mem!NoCall /\ call' = Mem!NoCall
BY DEF Salloc, Mem!Acquire, Mem!Idle, Mem!NoCall, TypeOK

LEMMA ConfigureHeap ==
    ASSUME ProcessInv, Configure
    PROVE  HeapOK'
<1> USE InputAssumption DEF ProcessInv, HeapOK, TypeOK, Lost
<1>1. CASE SetOption \/ CollectName \/ Help \/ EndOptions
  BY <1>1 DEF SetOption, CollectName, Help, EndOptions, Option, At, options, memory
<1>2. CASE UnsupportedArch
  BY <1>2 DEF UnsupportedArch, Option, At, Die, Mem!Die, options, RUNNING
<1>3. CASE GrowList
  <2>1. PICK b \in (Blocks \ heap) \cup ({list} \ {NULL}) :
           list' = b /\ heap' = (heap \ {list}) \cup {b}
    BY <1>3 DEF GrowList
  <2>2. b \notin tracked /\ list' \in heap' \ tracked /\ Lost = {} /\ Lost' = {}
    BY <1>3, <2>1 DEF GrowList, Option, At
  <2>3. /\ pc = "configure" /\ status = "running"
        /\ UNCHANGED <<pc, status, call, tracked, rcd, exit>> /\ rcd = 0 /\ exit = RUNNING
    BY <1>3 DEF GrowList, Option, At
  <2>4. \E a \in Pointer : Lost' \subseteq {a}
    BY <2>2 DEF Pointer
  <2> HIDE DEF Lost
  <2> QED BY <2>2, <2>3, <2>4 DEF RUNNING, ERR_MSG_MEM
<1>4. CASE GrowListFails
  <2>1. Lost = {} /\ Lost' \subseteq {list} /\ list \in Pointer
    BY <1>4 DEF GrowListFails, Option, At, memory
  <2>2. \E b \in Pointer : Lost' \subseteq {b}
    BY <2>1
  <2>3. /\ status' = "running" /\ call' = call /\ exit' = exit /\ list' = NULL /\ rcd' # 0
        /\ pc' = "cleanup" /\ status = "running" /\ pc = "configure"
    BY <1>4 DEF GrowListFails, Option, At, memory, ERR_MSG_MEM
  <2> QED BY <2>2, <2>3, <1>4 DEF GrowListFails, Option, At, RUNNING, ERR_MSG_MEM
<1> QED BY <1>1, <1>2, <1>3, <1>4 DEF Configure

LEMMA AssembleHeap ==
    ASSUME ProcessInv, Assemble
    PROVE  HeapOK'
<1> USE InputAssumption DEF ProcessInv, HeapOK, TypeOK, Lost
<1>1. CASE Open \/ OpenFails \/ AllFilesRead \/ EndOfFile
  BY <1>1 DEF Open, OpenFails, AllFilesRead, EndOfFile, Assembled, At, options, memory
<1>2. CASE InvalidMnemonic
  BY <1>2 DEF InvalidMnemonic, HasLine, At, Die, Mem!Die, options, RUNNING
<1>3. CASE MakeSymbol \/ AddLabel
  <2>1. \E b : Salloc(b)
    BY <1>3 DEF MakeSymbol, AddLabel
  <2>2. /\ pc \in {"read", "label"} /\ pc' \in {"read", "label"}
        /\ UNCHANGED <<rcd, exit, list>>
    BY <1>3 DEF MakeSymbol, AddLabel, HasLine, At, options
  <2>3. Lost' = Lost /\ (list # NULL => list \in heap' \ tracked')
    BY <2>1, <2>2, SallocTracked
  <2>4. exit # 1 /\ exit \notin {0, ERR_MSG_MEM}
    BY <2>2 DEF RUNNING, ERR_MSG_MEM
  <2> HIDE DEF Lost
  <2> QED BY <2>1, <2>2, <2>3, <2>4, SallocTracked
<1>4. CASE DuplicateLabel
  BY <1>4 DEF DuplicateLabel, Fault, At, Salloc, Mem!Acquire, options, FAULT, ERR_MSG_MEM, RUNNING
<1>5. CASE RefusedLine \/ OrphanLabel
  BY <1>5 DEF RefusedLine, OrphanLabel, Fault, HasLine, At, memory, options, FAULT, ERR_MSG_MEM, RUNNING
<1> QED BY <1>1, <1>2, <1>3, <1>4, <1>5 DEF Assemble

\* What is passed to sfree is live, and the list goes back through free.
LEMMA CleanupHeap ==
    ASSUME ProcessInv, Cleanup
    PROVE  HeapOK'
<1> USE InputAssumption DEF ProcessInv, HeapOK, TypeOK, Lost
<1>1. CASE FreeLabel \/ FreeSymbol \/ DestroyTargets
  <2>1. /\ FreeLabel => Live(symbol[sym].label)
        /\ FreeSymbol => Live(sym)
        /\ DestroyTargets => Live(ARCH)
    BY DEF FreeLabel, FreeSymbol, DestroyTargets, At, LivesOK, FreeingOK, Freeing, Entering
  <2>2. /\ call' # Mem!NoCall /\ call'.ptr \in tracked /\ UNCHANGED <<heap, tracked, status>>
        /\ status = "running"
    BY <1>1, <2>1
    DEF FreeLabel, FreeSymbol, DestroyTargets, Sfree, Mem!Call, Mem!Idle, Mem!NoCall, Live
  <2>3. /\ pc \in {"symbols", "symbol", "targets"} /\ pc' \in {"symbols", "symbol", "release"}
        /\ UNCHANGED <<list, rcd, exit>>
    BY <1>1 DEF FreeLabel, FreeSymbol, DestroyTargets, At, options
  <2>4. pc' = "release" <=> pc = "targets"
    BY <1>1 DEF FreeLabel, FreeSymbol, DestroyTargets, At
  <2> QED BY <2>2, <2>3, <2>4
<1>2. CASE SymbolsFreed
  BY <1>2 DEF SymbolsFreed, At, options, memory
<1>3. CASE FreeList
  <2>1. /\ list' = NULL /\ Lost' = Lost /\ UNCHANGED <<tracked, call, status, rcd, exit>>
        /\ pc = "cleanup" /\ pc' = "targets" /\ status = "running" /\ call = Mem!NoCall
    BY <1>3 DEF FreeList, At
  <2> HIDE DEF Lost
  <2> QED BY <2>1
<1>4. CASE Release
  <2>1. /\ pc = "release" /\ pc' = "return" /\ status' = "releasing" /\ call' = Mem!NoCall
        /\ UNCHANGED <<heap, tracked, list, rcd, exit>> /\ status = "running"
    BY <1>4 DEF Release, At, Mem!Release, options
  <2>2. Lost' = Lost
    BY <2>1
  <2> HIDE DEF Lost
  <2> QED BY <2>1, <2>2 DEF RUNNING, ERR_MSG_MEM
<1>5. CASE Return
  BY <1>5 DEF Return, At, options, memory, RUNNING, ERR_MSG_MEM
<1> QED BY <1>1, <1>2, <1>3, <1>4, <1>5 DEF Cleanup

LEMMA HeapStep ==
    ASSUME ProcessInv, [Next]_vars
    PROVE  HeapOK'
<1> USE InputAssumption DEF ProcessInv, HeapOK, TypeOK, Lost
<1>1. CASE InitTargets
  <2>1. \E b : Salloc(b)
    BY <1>1 DEF InitTargets
  <2>2. pc = "init" /\ pc' = "configure" /\ UNCHANGED <<rcd, exit, list>>
    BY <1>1 DEF InitTargets, At, options
  <2>3. Lost' = Lost /\ (list # NULL => list \in heap' \ tracked')
    BY <2>1, <2>2, SallocTracked
  <2>4. exit # 1 /\ exit \notin {0, ERR_MSG_MEM}
    BY <2>2 DEF RUNNING, ERR_MSG_MEM
  <2> HIDE DEF Lost
  <2> QED BY <2>1, <2>2, <2>3, <2>4, SallocTracked
<1>2. CASE Configure \/ Assemble \/ Cleanup
  BY <1>2, ConfigureHeap, AssembleHeap, CleanupHeap
<1>3. CASE SallocFails
  <2>1. /\ status = "running" /\ call = Mem!NoCall /\ pc \in {"init", "read", "label"}
        /\ UNCHANGED <<pc, rcd, list, exit, tracked, call>> /\ status' = "exiting"
    BY <1>3 DEF SallocFails, Mem!OutOfMemory, Mem!Idle, Mem!NoCall, Die, HasLine, At, options
  <2>2. Lost = {} /\ \E b \in Pointer : heap' \subseteq heap \cup {b} /\ heap \subseteq heap'
    BY <1>3, <2>1 DEF SallocFails, Mem!OutOfMemory, Pointer
  <2>3. \E b \in Pointer : Lost' \subseteq {b}
    BY <2>1, <2>2
  <2> QED BY <2>1, <2>2, <2>3 DEF RUNNING
<1>4. CASE SmemWorks
  <2>1. /\ UNCHANGED <<rcd, list>>
        /\ status' = "died" => exit' = 1 /\ pc' = "exited"
        /\ status' # "died" => UNCHANGED <<exit, pc>>
    BY <1>4 DEF SmemWorks, options
  <2>2. CASE Mem!Serve
    <3>1. /\ status = "running" /\ status' = "running" /\ call' = Mem!NoCall
          /\ call # Mem!NoCall /\ call.ptr \in tracked
          /\ heap' = heap \ {call.ptr} /\ tracked' = tracked \ {call.ptr}
      BY <2>2 DEF Mem!Serve, Mem!Exchange, Mem!NoCall
    <3>2. Lost' = Lost /\ (list # NULL => list \in heap' \ tracked')
      BY <2>1, <3>1
    <3> HIDE DEF Lost
    <3> QED BY <2>1, <3>1, <3>2
  <2>3. ~Mem!Refuse
    BY DEF Mem!Refuse, Mem!NoCall
  <2>4. CASE Mem!ReleaseBlock
    <3>1. PICK b \in tracked : heap' = heap \ {b} /\ tracked' = tracked \ {b}
      BY <2>4 DEF Mem!ReleaseBlock
    <3>2. Lost' = Lost /\ (list # NULL => list \in heap' \ tracked')
      BY <2>1, <3>1
    <3>3. status \in {"releasing", "exiting"} /\ UNCHANGED <<status, call>>
      BY <2>4 DEF Mem!ReleaseBlock, Mem!Releasing
    <3> HIDE DEF Lost
    <3> QED BY <2>1, <3>1, <3>2, <3>3
  <2>5. CASE Mem!Released
    <3>1. /\ tracked = {} /\ UNCHANGED <<heap, tracked, call>> /\ call = Mem!NoCall
          /\ \/ status = "exiting" /\ status' = "died" /\ exit' = 1 /\ pc' = "exited"
                /\ exit = RUNNING
             \/ status = "releasing" /\ status' = "running" /\ pc = "return"
                /\ UNCHANGED <<exit, pc>>
      BY <2>1, <2>5 DEF Mem!Released, Mem!Releasing
    <3>2. Lost' = Lost
      BY <2>1, <3>1
    <3>3. status = "exiting" => rcd = 0
      OBVIOUS
    <3> HIDE DEF Lost
    <3> QED BY <2>1, <3>1, <3>2, <3>3 DEF RUNNING, ERR_MSG_MEM
  <2> QED BY <1>4, <2>2, <2>3, <2>4, <2>5 DEF SmemWorks, Mem!Smem
<1>5. CASE Exited \/ UNCHANGED vars
  BY <1>5 DEF Exited, vars, options, memory
<1> QED BY <1>1, <1>2, <1>3, <1>4, <1>5 DEF Next

-----------------------------------------------------------------------------
(* The theorems.                                                           *)

LEMMA ProcessInit ==
    ASSUME Init
    PROVE  ProcessInv
<1>1. TypeOK
  <2>1. args \in Seq([opt : Options, arg : STRING])
    BY InputAssumption DEF Init
  <2>2. Len(args) \in Nat
    BY <2>1
  <2>3. NoSymbol \in Symbol
    BY DEF NoSymbol, Symbol, Pointer
  <2>4. symbol \in [Blocks -> Symbol] /\ names \in Seq(STRING)
    BY <2>3 DEF Init
  <2> QED BY <2>2, <2>4 DEF Init, TypeOK, Pointer, Mem!Init, RUNNING
<1>2. Listed = {}
  BY DEF Init, Listed, NoSymbol
<1>3. ChainOK /\ LivesOK
  BY <1>2 DEF Init, Mem!Init, ChainOK, LivesOK, Entering, Freeing
<1>4. Lost = {} /\ \E b \in Pointer : Lost \subseteq {b}
  BY DEF Init, Mem!Init, Lost, Pointer
<1>5. HeapOK
  BY <1>4 DEF Init, Mem!Init, HeapOK, RUNNING, ERR_MSG_MEM
<1> QED BY <1>1, <1>3, <1>5 DEF ProcessInv

LEMMA ProcessInvariant == Spec => []ProcessInv
<1>1. Init => ProcessInv
  BY ProcessInit
<1>2. ProcessInv /\ [Next]_vars => ProcessInv'
  BY TypeStep, ChainStep, LivesStep, HeapStep DEF ProcessInv
<1> QED BY <1>1, <1>2, PTL DEF Spec

\* Every variable keeps its type: what main reads is an argument or a line
\* that exists, and the links of the symbols are blocks or NULL.
THEOREM TypeCorrect == Spec => []TypeOK
<1>1. ProcessInv => TypeOK
  BY DEF ProcessInv
<1> QED BY <1>1, ProcessInvariant, PTL

\* The pointers that main gives to sfree are tracked: no symbol, no label and
\* no architecture is freed twice, whatever the files contain.
THEOREM OnlyTrackedIsFreed == Spec => []FreesTracked
<1>1. ProcessInv => FreesTracked
  BY DEF ProcessInv, HeapOK, FreesTracked
<1> QED BY <1>1, ProcessInvariant, PTL

\* What may be left of a set with one element at most.
LEMMA AtMostOne ==
    ASSUME NEW S, NEW b, S \subseteq {b}
    PROVE  Cardinality(S) <= 1
<1>1. S = {} \/ S = {b}
  OBVIOUS
<1>2. Cardinality({}) = 0
  BY FS_EmptySet
<1>3. Cardinality({b}) = 1
  BY FS_Singleton
<1> QED BY <1>1, <1>2, <1>3

\* A process that ends through main leaves no memory allocated, or the list
\* that could not grow; one that dies leaves that list and one block at most.
THEOREM ExitsFreeMemory == Spec => []ExitFreesMemory
<1>1. ASSUME ProcessInv PROVE ExitFreesMemory
  <2> USE <1>1, InputAssumption DEF ProcessInv, HeapOK
  <2>1. exit = 0 => heap = {}
    BY DEF TypeOK, Lost, ERR_MSG_MEM
  <2>2. PICK b \in Pointer : Lost \subseteq {b}
    OBVIOUS
  <2>3. Cardinality(Lost) <= 1
    BY <2>2, AtMostOne
  <2>4. exit = 1 => heap \ {list} = Lost
    BY DEF Lost
  <2>5. exit = ERR_MSG_MEM => heap = Lost
    <3>1. exit = ERR_MSG_MEM => tracked = {} /\ list = NULL
      OBVIOUS
    <3>2. NULL \notin heap
      BY DEF TypeOK
    <3> QED BY <3>1, <3>2 DEF Lost
  <2> QED BY <2>1, <2>3, <2>4, <2>5 DEF ExitFreesMemory
<1> QED BY <1>1, ProcessInvariant, PTL

-----------------------------------------------------------------------------
(* The list of input files.                                                *)

\* It has room for no name, and is no block, exactly as long as it has no name.
ListOK ==
    /\ Len(names) <= fnamesz
    /\ list = NULL <=> names = <<>>
    /\ names = <<>> <=> fnamesz = 0

LEMMA ListStep ==
    ASSUME ProcessInv, ListOK, [Next]_vars
    PROVE  ListOK'
<1> USE InputAssumption DEF ProcessInv, TypeOK
<1>0. Len(names) \in Nat
  BY LenProperties
<1>1. CASE CollectName \/ GrowList
  <2>1. optind <= Len(args) /\ names' = Append(names, Optarg)
    BY <1>1 DEF CollectName, GrowList, Option
  <2>2. Len(names') = Len(names) + 1 /\ names' # <<>>
    BY <2>1, ArgumentType, AppendProperties
  <2>3. CASE CollectName
    <3>1. Len(names) < fnamesz /\ UNCHANGED <<list, fnamesz>>
      BY <1>0, <2>3 DEF CollectName, Fits, ListOK
    <3> QED BY <1>0, <2>2, <3>1 DEF ListOK
  <2>4. CASE GrowList
    <3>1. list' # NULL /\ fnamesz' = fnamesz + 2
      BY <2>4 DEF GrowList
    <3> QED BY <1>0, <2>2, <3>1 DEF ListOK
  <2> QED BY <1>1, <2>3, <2>4
<1>2. CASE GrowListFails \/ FreeList
  BY <1>2, EmptySeq DEF GrowListFails, FreeList, ListOK
<1>3. CASE UNCHANGED <<list, names, fnamesz>>
  BY <1>3 DEF ListOK
<1>4. CASE Configure
  BY <1>1, <1>2, <1>3, <1>4
  DEF Configure, SetOption, UnsupportedArch, Help, EndOptions, Die, options
<1>5. CASE Assemble
  BY <1>3, <1>5 DEF Assemble, Open, OpenFails, AllFilesRead, EndOfFile, InvalidMnemonic,
                    RefusedLine, MakeSymbol, OrphanLabel, AddLabel, DuplicateLabel, Die, options
<1>6. CASE Cleanup
  BY <1>2, <1>3, <1>6 DEF Cleanup, FreeLabel, FreeSymbol, SymbolsFreed, DestroyTargets,
                          Release, Return, options
<1>7. CASE InitTargets \/ SallocFails \/ SmemWorks \/ Exited \/ UNCHANGED vars
  BY <1>3, <1>7 DEF InitTargets, SallocFails, SmemWorks, Exited, Die, vars, options
<1> QED BY <1>4, <1>5, <1>6, <1>7 DEF Next

\* The names of the input files are stored where there is room for them, in a
\* block that is never handed to smem.
THEOREM NamesAlwaysHaveRoom == Spec => []NamesHaveRoom
<1>1. Init => ListOK
  BY EmptySeq DEF Init, ListOK
<1>2. ProcessInv /\ ListOK /\ [Next]_vars => ListOK'
  BY ListStep
<1>3. ProcessInv /\ ListOK => NamesHaveRoom
  BY DEF ProcessInv, HeapOK, ListOK, NamesHaveRoom
<1> QED BY <1>1, <1>2, <1>3, ProcessInvariant, PTL DEF Spec

-----------------------------------------------------------------------------
(* The names of the input files.                                           *)

\* The files that configure has come to.
Found == IF pc \in {"init", "configure"} THEN {k \in Wanted : k < optind} ELSE Wanted

Naming == pc \in {"init", "configure", "files", "read", "label", "symbols", "symbol"}

\* Each has its name in its place, and nothing else is in the list.
NamesOK ==
    /\ pc \in {"init", "configure"} => \A j \in 1 .. optind - 1 : ~Ends(args[j])
    /\ Naming =>
          /\ Len(names) = Cardinality(Found)
          /\ \A k \in Found : Rank(k) \in 1 .. Len(names) /\ names[Rank(k)] = args[k].arg
          /\ \A m \in 1 .. Len(names) : \E k \in Found : Rank(k) = m

LEMMA WantedType ==
    ASSUME TypeOK
    PROVE  /\ Len(args) \in Nat /\ DOMAIN args = 1 .. Len(args) /\ Wanted \subseteq 1 .. Len(args)
           /\ \A T \in SUBSET Wanted : IsFiniteSet(T) /\ Cardinality(T) \in Nat
<1>1. args \in Seq([opt : Options, arg : STRING])
  BY InputAssumption DEF TypeOK
<1>2. Len(args) \in Nat /\ DOMAIN args = 1 .. Len(args)
  BY <1>1, LenProperties
<1>3. Wanted \subseteq 1 .. Len(args)
  BY <1>2 DEF Wanted
<1>4. IsFiniteSet(1 .. Len(args))
  BY <1>2, FS_Interval
<1>5. \A T \in SUBSET Wanted : IsFiniteSet(T)
  BY <1>3, <1>4, FS_Subset
<1>6. \A T \in SUBSET Wanted : Cardinality(T) \in Nat
  BY <1>5, FS_CardinalityType
<1> QED BY <1>2, <1>3, <1>5, <1>6

\* A file comes after as many others as there are before it.
LEMMA RankNext ==
    ASSUME TypeOK, NEW k \in Wanted
    PROVE  Rank(k) = Cardinality({j \in Wanted : j < k}) + 1
<1> DEFINE T == {j \in Wanted : j < k}
<1>1. k \in Nat /\ Wanted \subseteq Nat
  BY WantedType
<1>2. {j \in Wanted : j <= k} = T \cup {k} /\ k \notin T
  <2>1. \A j \in Wanted : j <= k <=> j < k \/ j = k
    BY <1>1
  <2>2. ~(k < k)
    BY <1>1
  <2> HIDE DEF Wanted
  <2> QED BY <2>1, <2>2
<1>3. IsFiniteSet(T) /\ Cardinality(T) \in Nat
  BY WantedType
<1> HIDE DEF T
<1>4. Cardinality(T \cup {k}) = Cardinality(T) + 1
  BY <1>2, <1>3, FS_AddElement
<1> QED BY <1>2, <1>4 DEF Rank, T

LEMMA RankOrder ==
    ASSUME TypeOK, NEW j \in Wanted, NEW k \in Wanted
    PROVE  Rank(k) \in Nat \ {0} /\ (j < k => Rank(j) < Rank(k))
<1> DEFINE T == {m \in Wanted : m < k}
           U == {m \in Wanted : m <= j}
<1>1. IsFiniteSet(T) /\ Cardinality(T) \in Nat /\ Cardinality(U) \in Nat
  BY WantedType
<1>2. j < k => U \subseteq T
  BY WantedType
<1>3. Rank(k) = Cardinality(T) + 1 /\ Rank(j) = Cardinality(U)
  BY RankNext DEF Rank
<1> HIDE DEF T, U
<1>4. j < k => Cardinality(U) <= Cardinality(T)
  BY <1>1, <1>2, FS_Subset
<1> QED BY <1>1, <1>3, <1>4

\* What configure will come to depends on the command line alone.
LEMMA WantedKept ==
    ASSUME args' = args
    PROVE  Wanted' = Wanted /\ \A k : Rank(k)' = Rank(k)
<1>1. Wanted' = Wanted
  BY DEF Wanted
<1> QED BY <1>1 DEF Rank

LEMMA NamesKept ==
    ASSUME NamesOK, UNCHANGED <<args, names, optind>>,
           \/ pc' = pc
           \/ pc = "init" /\ pc' = "configure"
           \/ Naming /\ pc \notin {"init", "configure"} /\ pc' \notin {"init", "configure"}
           \/ ~Naming' /\ pc' \notin {"init", "configure"}
    PROVE  NamesOK'
<1>1. Wanted' = Wanted /\ \A k : Rank(k)' = Rank(k)
  BY WantedKept
<1>2. Naming' => Naming /\ Found' = Found
  BY <1>1 DEF Naming, Found
<1> HIDE DEF Found
<1>3. pc' \in {"init", "configure"} => pc \in {"init", "configure"}
  OBVIOUS
<1> QED BY <1>1, <1>2, <1>3 DEF NamesOK

\* An argument that configure has come to, if none before it was an end.
LEMMA Reached ==
    ASSUME ProcessInv, NamesOK, pc = "configure", optind <= Len(args)
    PROVE  /\ optind \in 1 .. Len(args) /\ optind \notin Found
           /\ ~Ends(args[optind]) => \A j \in 1 .. optind : ~Ends(args[j])
           /\ ~Ends(args[optind]) => (optind \in Wanted <=> args[optind].opt = "file")
           /\ {k \in Wanted : k < optind + 1} =
                 IF optind \in Wanted THEN Found \cup {optind} ELSE Found
<1>1. optind \in 1 .. Len(args) /\ Wanted \subseteq 1 .. Len(args) /\ DOMAIN args = 1 .. Len(args)
      /\ Len(args) \in Nat
  BY WantedType DEF ProcessInv, TypeOK
<1>2. Found = {k \in Wanted : k < optind}
  BY DEF Found
<1>3. ~Ends(args[optind]) => \A j \in 1 .. optind : ~Ends(args[j])
  BY <1>1 DEF NamesOK
<1>4. ~Ends(args[optind]) => (optind \in Wanted <=> args[optind].opt = "file")
  BY <1>1, <1>3 DEF Wanted
<1>5. {k \in Wanted : k < optind + 1} =
         IF optind \in Wanted THEN Found \cup {optind} ELSE Found
  <2>1. \A k \in Wanted : k < optind + 1 <=> k < optind \/ k = optind
    BY <1>1
  <2> QED BY <1>2, <2>1
<1> QED BY <1>1, <1>2, <1>3, <1>4, <1>5

\* A name more, at its rank.
LEMMA NameFound ==
    ASSUME ProcessInv, NamesOK, CollectName \/ GrowList
    PROVE  NamesOK'
<1>1. /\ pc = "configure" /\ pc' = pc /\ optind <= Len(args) /\ args[optind].opt = "file"
      /\ names' = Append(names, Optarg) /\ args' = args /\ optind' = optind + 1
  BY DEF CollectName, GrowList, Option, At, NextOption, inputs
<1>2. ~Ends(args[optind])
  BY <1>1 DEF Ends
<1>3. optind \in Wanted /\ optind \in 1 .. Len(args) /\ \A j \in 1 .. optind : ~Ends(args[j])
  BY <1>1, <1>2, Reached
<1>4. Wanted' = Wanted /\ \A k : Rank(k)' = Rank(k)
  BY <1>1, WantedKept
<1>5. Found' = Found \cup {optind} /\ optind \notin Found
  <2>1. Found' = {k \in Wanted : k < optind + 1}
    BY <1>1, <1>4 DEF Found
  <2> QED BY <1>1, <1>3, <2>1, Reached
<1>6. IsFiniteSet(Found) /\ Cardinality(Found) = Len(names) /\ Len(names) \in Nat
      /\ Found = {k \in Wanted : k < optind}
  <2>1. Found \in SUBSET Wanted /\ Found = {k \in Wanted : k < optind}
    BY <1>1 DEF Found
  <2>2. Cardinality(Found) = Len(names)
    BY <1>1 DEF NamesOK, Naming
  <2> QED BY <2>1, <2>2, WantedType DEF ProcessInv
<1>7. Cardinality(Found') = Len(names) + 1
  BY <1>5, <1>6, FS_AddElement
<1>8. Rank(optind) = Len(names) + 1
  BY <1>3, <1>6, RankNext DEF ProcessInv
<1>9. Len(names') = Len(names) + 1 /\ names'[Len(names) + 1] = args[optind].arg
      /\ \A m \in 1 .. Len(names) : names'[m] = names[m]
  BY <1>1, ArgumentType, AppendProperties DEF ProcessInv, TypeOK, Optarg
<1>10. /\ \A k \in Found : Rank(k) \in 1 .. Len(names) /\ names[Rank(k)] = args[k].arg
       /\ \A m \in 1 .. Len(names) : \E k \in Found : Rank(k) = m
  BY <1>1 DEF NamesOK, Naming
<1>11. \A k \in Found' : Rank(k)' \in 1 .. Len(names') /\ names'[Rank(k)'] = args'[k].arg
  BY <1>1, <1>4, <1>5, <1>6, <1>8, <1>9, <1>10
<1>12. \A m \in 1 .. Len(names') : \E k \in Found' : Rank(k)' = m
  BY <1>4, <1>5, <1>6, <1>8, <1>9, <1>10
<1>13. \A j \in 1 .. optind' - 1 : ~Ends(args'[j])
  BY <1>1, <1>3
<1> QED BY <1>7, <1>9, <1>11, <1>12, <1>13 DEF NamesOK

\* When configure ends there is no file ahead.
LEMMA AllFound ==
    ASSUME ProcessInv, NamesOK, Help \/ EndOptions
    PROVE  NamesOK'
<1>1. /\ pc = "configure" /\ pc' = "files" /\ UNCHANGED <<args, names, optind>>
      /\ optind <= Len(args) => Ends(args[optind])
  BY DEF Help, EndOptions, Option, At, options, inputs, Ends
<1>2. Wanted' = Wanted /\ \A k : Rank(k)' = Rank(k)
  BY <1>1, WantedKept
<1>3. Found = {k \in Wanted : k < optind} /\ Found' = Wanted
  BY <1>1, <1>2 DEF Found
<1>4. \A k \in Wanted : k < optind
  BY <1>1, WantedType DEF ProcessInv, TypeOK, Wanted
<1>5. Found' = Found
  BY <1>3, <1>4
<1> HIDE DEF Found
<1> QED BY <1>1, <1>2, <1>5 DEF NamesOK, Naming

LEMMA NamesStep ==
    ASSUME ProcessInv, NamesOK, [Next]_vars
    PROVE  NamesOK'
<1>1. CASE Configure
  <2>1. CASE SetOption
    <3>1. /\ pc = "configure" /\ pc' = pc /\ UNCHANGED <<args, names>> /\ optind' = optind + 1
          /\ optind <= Len(args) /\ args[optind].opt \in {"m", "o", "f", "e"}
      BY <2>1 DEF SetOption, Option, At, NextOption, inputs
    <3>2. ~Ends(args[optind]) /\ args[optind].opt # "file"
      BY <3>1 DEF Ends
    <3>3. Wanted' = Wanted /\ \A k : Rank(k)' = Rank(k)
      BY <3>1, WantedKept
    <3>4. optind \in 1 .. Len(args) /\ Found' = Found /\ \A j \in 1 .. optind : ~Ends(args[j])
      <4>1. Found' = {k \in Wanted : k < optind + 1}
        BY <3>1, <3>3 DEF Found
      <4> QED BY <3>1, <3>2, <4>1, Reached
    <3>5. \A j \in 1 .. optind' - 1 : ~Ends(args'[j])
      BY <3>1, <3>4
    <3> HIDE DEF Found
    <3> QED BY <3>1, <3>3, <3>4, <3>5 DEF NamesOK, Naming
  <2>2. CASE UnsupportedArch
    BY <2>2, NamesKept DEF UnsupportedArch, Die, inputs, options
  <2>3. CASE GrowListFails
    BY <2>3 DEF GrowListFails, NamesOK, Naming
  <2> QED BY <1>1, <2>1, <2>2, <2>3, NameFound, AllFound DEF Configure
<1>2. CASE Assemble
  <2>1. pc \in {"files", "read", "label"} /\ UNCHANGED <<args, names, optind>>
        /\ pc' \in {"files", "read", "label", "symbols", "cleanup", "exited"}
    BY <1>2 DEF Assemble, Open, OpenFails, AllFilesRead, EndOfFile, Assembled, InvalidMnemonic,
       RefusedLine, MakeSymbol, OrphanLabel, AddLabel, DuplicateLabel, Fault, Die, HasLine, At,
       inputs, options
  <2> QED BY <2>1, NamesKept DEF Naming
<1>3. CASE Cleanup
  <2>1. CASE FreeList
    BY <2>1 DEF FreeList, NamesOK, Naming
  <2>2. CASE FreeLabel \/ FreeSymbol \/ SymbolsFreed
    <3>1. pc \in {"symbols", "symbol"} /\ UNCHANGED <<args, names, optind>>
          /\ pc' \in {"symbols", "symbol", "cleanup"}
      BY <2>2 DEF FreeLabel, FreeSymbol, SymbolsFreed, At, inputs, options
    <3> QED BY <3>1, NamesKept DEF Naming
  <2>3. CASE DestroyTargets \/ Release \/ Return
    BY <2>3 DEF DestroyTargets, Release, Return, NamesOK, Naming
  <2> QED BY <1>3, <2>1, <2>2, <2>3 DEF Cleanup
<1>4. CASE InitTargets
  BY <1>4, NamesKept DEF InitTargets, At, inputs, options
<1>5. CASE SallocFails \/ SmemWorks \/ Exited \/ UNCHANGED vars
  <2>1. UNCHANGED <<args, names, optind>> /\ (pc' = pc \/ pc' = "exited")
    BY <1>5 DEF SallocFails, SmemWorks, Exited, Die, vars, inputs, options
  <2> QED BY <2>1, NamesKept DEF Naming
<1> QED BY <1>1, <1>2, <1>3, <1>4, <1>5 DEF Next

LEMMA NamesInit ==
    ASSUME Init
    PROVE  NamesOK
<1>1. TypeOK /\ pc = "init" /\ optind = 1 /\ names = <<>>
  BY ProcessInit DEF Init, ProcessInv
<1>2. Found = {}
  BY <1>1, WantedType DEF Found
<1>3. Cardinality({}) = 0 /\ Len(names) = 0
  BY <1>1, FS_EmptySet, EmptySeq
<1> QED BY <1>1, <1>2, <1>3 DEF NamesOK

LEMMA NamesInvariant == Spec => []NamesOK
<1>1. Init => NamesOK
  BY NamesInit
<1>2. ProcessInv /\ NamesOK /\ [Next]_vars => NamesOK'
  BY NamesStep
<1> QED BY <1>1, <1>2, ProcessInvariant, PTL DEF Spec

\* The list of input files is that of the command line, each name in its
\* place, however often realloc has moved it.
THEOREM FilesAreListed == Spec => []ListsFiles
<1>1. NamesOK => ListsFiles
  BY DEF NamesOK, Naming, Found, ListsFiles
<1> QED BY <1>1, NamesInvariant, PTL

-----------------------------------------------------------------------------
(* The lines that are read.                                                *)

\* The arguments that are to be read.
Files == IF Wanted = {} THEN {0} ELSE Wanted

Reading == pc \in {"files", "read", "label"}

\* A label that is not local comes before the line.
HasParent(k, n) ==
    \E l \in Files, m \in Nat \ {0} :
       Done(l, m) /\ Lines(l)[m] \notin Locals /\ Before(<<l, m>>, <<k, n>>)

\* Every line entered so far is in the table, and nothing else is; no two of
\* them are the same, and the local ones have a parent.
TableOK ==
    /\ \A k \in Files : Turn(k) < i => k = 0 \/ args[k].arg \in DOMAIN disk
    /\ \A k \in Files, n \in Nat \ {0} : Done(k, n) =>
          /\ Lines(k)[n] \notin {"unknown", "refused"}
          /\ Lines(k)[n] \in Locals => HasParent(k, n)
          /\ \E s \in Listed : symbol[s].name = Lines(k)[n]
    /\ \A s \in Listed : \E k \in Files, n \in Nat \ {0} :
          Done(k, n) /\ symbol[s].name = Lines(k)[n]
    /\ \A k, l \in Files : \A m, n \in Nat \ {0} :
          Done(k, m) /\ Done(l, n) /\ Lines(k)[m] = Lines(l)[n] => k = l /\ m = n

\* Where the loop over the files is.
PlaceOK ==
    /\ names = <<>> => i = 1
    /\ pc # "files" => names = <<>> \/ i <= Len(names)
    /\ pc = "label" => IsLabel

Past == pc \in {"symbols", "symbol", "cleanup", "targets", "release", "return"}

LinesOK ==
    /\ pc \in {"init", "configure"} => Listed = {} /\ i = 1
    /\ Reading => PlaceOK /\ TableOK
    /\ Past /\ rcd = 0 => AllGood
    /\ ExitTells

\* The arguments have turns of their own, in order.
LEMMA TurnOrder ==
    ASSUME TypeOK, NEW k \in Files, NEW l \in Files
    PROVE  /\ k \in Nat /\ Turn(k) \in Nat \ {0}
           /\ Turn(k) <= Turn(l) <=> k <= l
           /\ Turn(k) = Turn(l) => k = l
<1>1. CASE Wanted = {}
  BY <1>1 DEF Files, Turn
<1>2. CASE Wanted # {}
  <2>1. k \in Wanted /\ l \in Wanted /\ k \in Nat \ {0} /\ l \in Nat \ {0}
    BY <1>2, WantedType DEF Files
  <2>2. Rank(k) \in Nat \ {0} /\ Rank(l) \in Nat \ {0}
        /\ (k < l => Rank(k) < Rank(l)) /\ (l < k => Rank(l) < Rank(k))
    BY <2>1, RankOrder
  <2>3. Turn(k) = Rank(k) /\ Turn(l) = Rank(l)
    BY <2>1 DEF Turn
  <2> QED BY <2>1, <2>2, <2>3
<1> QED BY <1>1, <1>2

\* No file is named exactly if no argument is one, and the turns are those of
\* the names.
LEMMA TurnsOfNames ==
    ASSUME TypeOK, NamesOK, Reading
    PROVE  /\ names = <<>> <=> Wanted = {}
           /\ names # <<>> => Files = Wanted
                              /\ \A k \in Files : Turn(k) \in 1 .. Len(names) /\ k # 0
<1>1. /\ Len(names) = Cardinality(Wanted) /\ Len(names) \in Nat
      /\ \A k \in Wanted : Rank(k) \in 1 .. Len(names)
  BY LenProperties DEF NamesOK, Naming, Found, Reading, TypeOK
<1>2. names = <<>> <=> Len(names) = 0
  BY EmptySeq DEF TypeOK
<1>3. IsFiniteSet(Wanted)
  BY WantedType
<1>4. Cardinality(Wanted) = 0 <=> Wanted = {}
  BY <1>3, FS_EmptySet
<1>5. \A k \in Wanted : k # 0
  BY WantedType
<1> QED BY <1>1, <1>2, <1>4, <1>5 DEF Files, Turn

\* The file whose turn it is.
LEMMA Current ==
    ASSUME TypeOK, NamesOK, Reading, PlaceOK, names = <<>> \/ i <= Len(names)
    PROVE  \E k \in Files : /\ Turn(k) = i /\ Lines(k) = disk[File]
                            /\ k # 0 => args[k].arg = File
<1>1. CASE names = <<>>
  <2>1. i = 1 /\ Wanted = {} /\ File = "stdin"
    BY <1>1, TurnsOfNames DEF PlaceOK, File
  <2> QED BY <2>1 DEF Files, Turn, Lines
<1>2. CASE names # <<>>
  <2>1. i \in 1 .. Len(names) /\ File = names[i]
    BY <1>2, LenProperties DEF TypeOK, File
  <2>2. PICK k \in Wanted : Rank(k) = i
    BY <2>1 DEF NamesOK, Naming, Found, Reading
  <2>3. names[i] = args[k].arg
    BY <2>2 DEF NamesOK, Naming, Found, Reading
  <2>4. k # 0 /\ k \in Files
    BY <1>2, TurnsOfNames, <2>2
  <2> QED BY <2>1, <2>2, <2>3, <2>4 DEF Turn, Lines
<1> QED BY <1>1, <1>2

\* A file can be read when all before it, and itself, are there.
LEMMA SourceReached ==
    ASSUME TypeOK, NamesOK, Reading, NEW k \in Files,
           \A j \in Files : j <= k => j = 0 \/ args[j].arg \in DOMAIN disk
    PROVE  k \in Sources
BY TurnsOfNames, WantedType DEF Files, Sources, Available

\* An argument whose turn has come is a source.
LEMMA ReachedSource ==
    ASSUME TypeOK, NamesOK, Reading, PlaceOK, TableOK, NEW k \in Files,
           Turn(k) < i \/ (Turn(k) = i /\ pc \in {"read", "label"})
    PROVE  k \in Sources
<1> SUFFICES ASSUME NEW j \in Files, j <= k
             PROVE  j = 0 \/ args[j].arg \in DOMAIN disk
  BY SourceReached
<1>1. /\ Turn(j) \in Nat /\ Turn(k) \in Nat /\ i \in Nat /\ Turn(j) <= Turn(k)
  BY TurnOrder DEF TypeOK
<1>2. CASE Turn(j) < i
  BY <1>2 DEF TableOK
<1>3. CASE ~(Turn(j) < i)
  <2>1. Turn(j) = i /\ pc \in {"read", "label"}
    BY <1>1, <1>3
  <2>2. PICK c \in Files : Turn(c) = i /\ (c # 0 => args[c].arg = File)
    BY <2>1, Current DEF PlaceOK
  <2>3. j = c
    BY <2>1, <2>2, TurnOrder
  <2> QED BY <2>1, <2>2, <2>3 DEF TypeOK
<1> QED BY <1>2, <1>3

\* What is read is a sequence of lines.
LEMMA LinesType ==
    ASSUME TypeOK, NEW k \in Files, k = 0 \/ args[k].arg \in DOMAIN disk
    PROVE  Lines(k) \in Seq(STRING) /\ DOMAIN Lines(k) = 1 .. Len(Lines(k)) /\ Len(Lines(k)) \in Nat
<1>1. Lines(k) \in Seq(STRING)
  BY InputAssumption DEF TypeOK, Lines
<1> QED BY <1>1, LenProperties

\* The lines do not change, and are done as before if the place is the same.
LEMMA LinesKept ==
    ASSUME UNCHANGED <<args, disk>>
    PROVE  /\ Wanted' = Wanted /\ Files' = Files /\ Sources' = Sources
           /\ \A k : Turn(k)' = Turn(k) /\ Lines(k)' = Lines(k)
           /\ Places' = Places /\ \A p : LineAt(p)' = LineAt(p)
           /\ (AllGood' <=> AllGood) /\ (FailsFirst' <=> FailsFirst)
<1>1. Wanted' = Wanted /\ \A k : Rank(k)' = Rank(k)
  BY WantedKept
<1>2. Files' = Files /\ Sources' = Sources
  BY <1>1 DEF Files, Sources, Available
<1>3. \A k : Turn(k)' = Turn(k) /\ Lines(k)' = Lines(k)
  BY <1>1 DEF Turn, Lines
<1>4. Places' = Places /\ \A p : LineAt(p)' = LineAt(p)
  BY <1>2, <1>3 DEF Places, LineAt
<1> HIDE DEF Places, LineAt
<1>5. \A p : (NoParent(p)' <=> NoParent(p)) /\ (Again(p)' <=> Again(p))
  BY <1>4 DEF NoParent, Again
<1>6. \A p : Bad(p)' <=> Bad(p)
  BY <1>4, <1>5 DEF Bad
<1>7. (AllGood' <=> AllGood) /\ (FailsFirst' <=> FailsFirst)
  BY <1>4, <1>6 DEF AllGood, FailsFirst, FirstBad
<1> QED BY <1>1, <1>2, <1>3, <1>4, <1>7

\* Where no line is entered, what is in the table stays.
LEMMA TableKept ==
    ASSUME TableOK, UNCHANGED <<args, disk, symtab>>,
           \A k \in Files, n \in Nat \ {0} : Done(k, n)' <=> Done(k, n),
           \A k \in Files : Turn(k) < i' => k = 0 \/ args[k].arg \in DOMAIN disk
    PROVE  TableOK'
<1>1. /\ Files' = Files /\ \A k : Turn(k)' = Turn(k) /\ Lines(k)' = Lines(k)
      /\ Listed' = Listed /\ UNCHANGED <<args, disk, symbol>>
  BY LinesKept DEF Listed, symtab
<1>2. TableOK => \A k, n : HasParent(k, n) => HasParent(k, n)'
  BY <1>1 DEF HasParent
<1> HIDE DEF Files, Done, Listed, Turn, Lines, HasParent
<1> QED BY <1>1, <1>2 DEF TableOK

\* The program is where it was.
LEMMA SamePlace ==
    ASSUME LinesOK, UNCHANGED <<args, disk, names, i, line, symtab, rcd, pc, exit>>
    PROVE  LinesOK'
<1>1. /\ Files' = Files /\ \A k : Turn(k)' = Turn(k) /\ Lines(k)' = Lines(k)
      /\ (AllGood' <=> AllGood) /\ (FailsFirst' <=> FailsFirst) /\ Listed' = Listed
  BY LinesKept DEF Listed, symtab
<1>2. \A k, n : Done(k, n)' <=> Done(k, n)
  BY <1>1 DEF Done
<1>3. (Reading' <=> Reading) /\ (Past' <=> Past) /\ (PlaceOK' <=> PlaceOK)
  BY DEF Reading, Past, PlaceOK, IsLabel, Text, File
<1>4. TableOK => TableOK'
  <2>1. ASSUME TableOK
        PROVE  \A k \in Files : Turn(k) < i' => k = 0 \/ args[k].arg \in DOMAIN disk
    BY <2>1 DEF TableOK
  <2> QED BY <1>2, <2>1, TableKept
<1> HIDE DEF Files, Done, Listed, AllGood, FailsFirst, Reading, Past, PlaceOK, TableOK
<1> QED BY <1>1, <1>3, <1>4 DEF LinesOK, ExitTells

\* A source is an argument, and can be read.
LEMMA SourceType ==
    ASSUME TypeOK, NEW k \in Sources
    PROVE  /\ k \in Files /\ (k = 0 \/ args[k].arg \in DOMAIN disk)
           /\ \A n \in DOMAIN Lines(k) : n \in Nat \ {0}
<1>1. k \in Files /\ (k = 0 \/ args[k].arg \in DOMAIN disk)
  BY WantedType DEF Sources, Files, Available
<1> QED BY <1>1, LinesType

\* A place is a line of a source.
LEMMA PlaceType ==
    ASSUME TypeOK, NEW p \in Places
    PROVE  /\ p = <<p[1], p[2]>> /\ p[1] \in Sources /\ p[2] \in DOMAIN Lines(p[1])
           /\ p[1] \in Files /\ p[1] \in Nat /\ p[2] \in Nat \ {0}
<1>1. p = <<p[1], p[2]>> /\ p[1] \in Sources /\ p[2] \in DOMAIN Lines(p[1])
  BY DEF Places
<1> QED BY <1>1, SourceType, TurnOrder

\* A line that is done is at a place, and all before it are done.
LEMMA DonePlace ==
    ASSUME TypeOK, NamesOK, Reading, PlaceOK, TableOK, NEW k \in Files, NEW n, Done(k, n)
    PROVE  <<k, n>> \in Places
<1>1. k \in Sources
  BY ReachedSource DEF Done
<1> QED BY <1>1 DEF Places, Done

LEMMA DoneDown ==
    ASSUME TypeOK, NEW p \in Places, Done(p[1], p[2]), NEW q \in Places, Before(q, p)
    PROVE  Done(q[1], q[2])
<1>1. /\ p[1] \in Files /\ q[1] \in Files /\ {p[1], q[1], p[2], q[2]} \subseteq Nat
      /\ q[2] \in DOMAIN Lines(q[1])
  BY PlaceType
<1>2. /\ Turn(p[1]) \in Nat /\ Turn(q[1]) \in Nat /\ i \in Nat /\ line \in Nat
      /\ Turn(p[1]) <= Turn(q[1]) <=> p[1] <= q[1]
  BY <1>1, TurnOrder DEF TypeOK
<1>3. CASE q[1] < p[1]
  <2>1. Turn(q[1]) < Turn(p[1])
    BY <1>1, <1>2, <1>3
  <2>2. Turn(p[1]) <= i
    BY <1>2 DEF Done
  <2>3. Turn(q[1]) < i
    BY <1>2, <2>1, <2>2
  <2> QED BY <1>1, <2>3 DEF Done
<1>4. CASE q[1] = p[1] /\ q[2] < p[2]
  BY <1>1, <1>2, <1>4 DEF Done
<1> QED BY <1>3, <1>4 DEF Before

\* It has no error.
LEMMA DoneIsGood ==
    ASSUME TypeOK, NamesOK, Reading, PlaceOK, TableOK, NEW p \in Places, Done(p[1], p[2])
    PROVE  ~Bad(p)
<1>1. p[1] \in Files /\ p[1] \in Nat /\ p[2] \in Nat \ {0} /\ p = <<p[1], p[2]>>
  BY PlaceType
<1>2. /\ LineAt(p) \notin {"unknown", "refused"}
      /\ LineAt(p) \in Locals => HasParent(p[1], p[2])
  BY <1>1 DEF TableOK, LineAt
<1>3. ~NoParent(p)
  <2> SUFFICES ASSUME NoParent(p) PROVE FALSE
    OBVIOUS
  <2>1. PICK l \in Files, m \in Nat \ {0} :
           Done(l, m) /\ Lines(l)[m] \notin Locals /\ Before(<<l, m>>, p)
    BY <1>1, <1>2 DEF NoParent, HasParent
  <2>2. <<l, m>> \in Places /\ LineAt(<<l, m>>) = Lines(l)[m]
    BY <2>1, DonePlace DEF LineAt
  <2> QED BY <2>1, <2>2 DEF NoParent
<1>4. ~Again(p)
  <2> SUFFICES ASSUME NEW q \in Places, Before(q, p), LineAt(q) = LineAt(p) PROVE FALSE
    BY DEF Again
  <2>1. Done(q[1], q[2]) /\ q[1] \in Files /\ q[2] \in Nat \ {0}
    BY DoneDown, PlaceType
  <2>2. q[1] = p[1] /\ q[2] = p[2]
    BY <1>1, <2>1 DEF TableOK, LineAt
  <2> QED BY <1>1, <2>2 DEF Before
<1> QED BY <1>2, <1>3, <1>4 DEF Bad

\* When all that can be read has been, no line has an error.
LEMMA AllDone ==
    ASSUME TypeOK, NamesOK, Reading, PlaceOK, TableOK,
           \A k \in Sources : \A n \in DOMAIN Lines(k) : Done(k, n)
    PROVE  AllGood
BY PlaceType, DoneIsGood DEF AllGood

\* The loop over the files ends in one of three ways.
LEMMA LoopEnds ==
    ASSUME ProcessInv, NamesOK, LinesOK,
           \/ AllFilesRead \/ OpenFails
           \/ EndOfFile /\ names = <<>>
    PROVE  AllGood
<1>1. Reading /\ PlaceOK /\ TableOK /\ TypeOK
  BY DEF AllFilesRead, OpenFails, EndOfFile, At, Reading, LinesOK, ProcessInv
<1> SUFFICES ASSUME NEW k \in Sources, NEW n \in DOMAIN Lines(k) PROVE Done(k, n)
  BY <1>1, AllDone
<1>2. k \in Files /\ Len(names) \in Nat /\ i \in Nat
  BY <1>1, SourceType, LenProperties DEF TypeOK
<1>3. CASE AllFilesRead
  <2>1. names # <<>> /\ i > Len(names)
    BY <1>3 DEF AllFilesRead
  <2>2. Turn(k) \in 1 .. Len(names)
    BY <1>1, <1>2, <2>1, TurnsOfNames
  <2> QED BY <1>2, <2>1, <2>2 DEF Done
<1>4. CASE OpenFails
  <2>1. i <= Len(names) /\ File \notin DOMAIN disk /\ i # 0
    BY <1>1, <1>4 DEF OpenFails, TypeOK
  <2>2. names # <<>>
    BY <1>2, <2>1, EmptySeq DEF TypeOK
  <2>3. PICK c \in Files : Turn(c) = i /\ (c # 0 => args[c].arg = File)
    BY <1>1, <2>1, Current
  <2>4. c # 0 /\ c \in Wanted /\ k \in Available
    BY <1>1, <2>2, <2>3, TurnsOfNames DEF Sources
  <2>5. ~(c <= k)
    BY <2>1, <2>3, <2>4 DEF Available
  <2>6. Turn(k) < i
    BY <1>1, <1>2, <2>3, <2>5, TurnOrder
  <2> QED BY <2>6 DEF Done
<1>5. CASE EndOfFile /\ names = <<>>
  <2>1. pc = "read" /\ line = Len(disk[File]) /\ i = 1 /\ Wanted = {}
    BY <1>1, <1>5, TurnsOfNames DEF EndOfFile, At, PlaceOK
  <2>2. k = 0 /\ Turn(k) = i /\ Lines(k) = disk[File]
    BY <1>5, <2>1 DEF Sources, Turn, Lines, File
  <2>3. DOMAIN Lines(k) = 1 .. Len(Lines(k)) /\ Len(Lines(k)) \in Nat
    BY <1>1, <1>2, <2>2, LinesType
  <2>4. n <= line
    BY <2>1, <2>2, <2>3
  <2> QED BY <2>1, <2>2, <2>4 DEF Done
<1> QED BY <1>3, <1>4, <1>5

\* A file at its end, with another to come, is the one that has been done.
LEMMA FileDone ==
    ASSUME ProcessInv, NamesOK, LinesOK, EndOfFile, names # <<>>
    PROVE  /\ \A k \in Files, n \in Nat \ {0} : Done(k, n)' <=> Done(k, n)
           /\ \A k \in Files : Turn(k) < i' => k = 0 \/ args[k].arg \in DOMAIN disk
<1>1. Reading /\ PlaceOK /\ TableOK /\ TypeOK /\ pc = "read"
  BY DEF EndOfFile, At, Reading, LinesOK, ProcessInv
<1>2. /\ line = Len(disk[File]) /\ i' = i + 1 /\ pc' = "files" /\ line' = line
      /\ UNCHANGED <<args, disk, names>>
  BY DEF EndOfFile, inputs, options
<1>3. PICK c \in Files : Turn(c) = i /\ Lines(c) = disk[File] /\ (c # 0 => args[c].arg = File)
  BY <1>1, Current DEF PlaceOK
<1>4. c = 0 \/ args[c].arg \in DOMAIN disk
  BY <1>1, <1>3 DEF TypeOK
<1>5. DOMAIN Lines(c) = 1 .. Len(Lines(c)) /\ Len(Lines(c)) \in Nat
  BY <1>1, <1>3, <1>4, LinesType
<1>6. \A k \in Files : Turn(k) \in Nat /\ (Turn(k) = i => k = c) /\ i \in Nat
  BY <1>1, <1>3, TurnOrder DEF TypeOK
<1>7. ASSUME NEW k \in Files, NEW n \in Nat \ {0}
      PROVE  Done(k, n)' <=> Done(k, n)
  <2>1. Turn(k)' = Turn(k) /\ Lines(k)' = Lines(k)
    BY <1>2, LinesKept
  <2>2. Done(k, n)' <=> n \in DOMAIN Lines(k) /\ Turn(k) < i + 1
    BY <1>2, <2>1 DEF Done
  <2>3. Turn(k) < i + 1 <=> Turn(k) < i \/ Turn(k) = i
    BY <1>6
  <2>4. n \in DOMAIN Lines(k) /\ Turn(k) = i => n <= line
    BY <1>2, <1>3, <1>5, <1>6
  <2> QED BY <1>1, <2>2, <2>3, <2>4 DEF Done
<1>8. \A k \in Files : Turn(k) < i' => k = 0 \/ args[k].arg \in DOMAIN disk
  BY <1>1, <1>2, <1>4, <1>6 DEF TableOK
<1> QED BY <1>7, <1>8

LEMMA NextFile ==
    ASSUME ProcessInv, NamesOK, LinesOK, EndOfFile, names # <<>>
    PROVE  PlaceOK' /\ TableOK'
<1>1. TableOK /\ pc' = "files" /\ UNCHANGED <<args, disk, names, symtab>>
  BY DEF EndOfFile, At, Reading, LinesOK, inputs, options
<1>2. TableOK'
  BY <1>1, FileDone, TableKept
<1> QED BY <1>1, <1>2 DEF PlaceOK

\* The line that the program is at is the next one of its file, which is not done.
LEMMA LineAtLabel ==
    ASSUME ProcessInv, NamesOK, LinesOK, HasLine \/ pc = "label"
    PROVE  \E c \in Files : /\ Turn(c) = i /\ Lines(c)[line + 1] = Text
                            /\ line + 1 \in DOMAIN Lines(c) /\ line \in Nat
                            /\ c = 0 \/ args[c].arg \in DOMAIN disk
<1>1. Reading /\ PlaceOK /\ TypeOK /\ pc \in {"read", "label"}
  BY DEF Reading, LinesOK, ProcessInv, HasLine, At
<1>2. PICK c \in Files : Turn(c) = i /\ Lines(c) = disk[File] /\ (c # 0 => args[c].arg = File)
  BY <1>1, Current DEF PlaceOK
<1>3. c = 0 \/ args[c].arg \in DOMAIN disk
  BY <1>1, <1>2 DEF TypeOK
<1>4. DOMAIN Lines(c) = 1 .. Len(Lines(c)) /\ Len(Lines(c)) \in Nat
  BY <1>1, <1>2, <1>3, LinesType
<1>5. line \in Nat /\ line + 1 <= Len(disk[File])
  BY <1>1, <1>2, <1>4 DEF TypeOK, HasLine
<1>6. line + 1 \in DOMAIN Lines(c)
  BY <1>2, <1>4, <1>5
<1> QED BY <1>2, <1>3, <1>5, <1>6 DEF Text

\* All lines that are done come before it, and all before it are done.
LEMMA DoneBefore ==
    ASSUME TypeOK, pc \in {"read", "label"}, NEW c \in Files, Turn(c) = i,
           NEW k \in Files, NEW n \in Nat \ {0}, n \in DOMAIN Lines(k)
    PROVE  Done(k, n) <=> Before(<<k, n>>, <<c, line + 1>>)
<1>1. /\ Turn(k) \in Nat /\ i \in Nat /\ k \in Nat /\ c \in Nat /\ line \in Nat
      /\ Turn(k) <= i <=> k <= c
      /\ i <= Turn(k) <=> c <= k
      /\ Turn(k) = i => k = c
  BY TurnOrder DEF TypeOK
<1>2. /\ Turn(k) < i <=> k < c
      /\ Turn(k) = i <=> k = c
      /\ n <= line <=> n < line + 1
  BY <1>1
<1> QED BY <1>2 DEF Done, Before

\* One line more is done, and its symbol is in the table.
LEMMA LabelDone ==
    ASSUME ProcessInv, NamesOK, LinesOK, AddLabel
    PROVE  /\ \E c \in Files : /\ Turn(c) = i /\ Lines(c)[line + 1] = Text
                               /\ line + 1 \in DOMAIN Lines(c) /\ line \in Nat
                               /\ \A k \in Files, n \in Nat \ {0} :
                                     Done(k, n)' <=> Done(k, n) \/ (k = c /\ n = line + 1)
           /\ sym \in Blocks /\ sym \notin Listed /\ Listed' = Listed \cup {sym}
           /\ symbol'[sym].name = Text
           /\ \A s \in Listed : symbol'[s].name = symbol[s].name
<1>1. Reading /\ PlaceOK /\ TypeOK /\ pc = "label"
  BY DEF AddLabel, At, Reading, LinesOK, ProcessInv
<1>2. /\ line' = line + 1 /\ pc' = "read" /\ UNCHANGED <<args, disk, names, i>>
      /\ \A s \in Listed : symbol[s].name # Text
  BY DEF AddLabel, inputs, options
<1>3. PICK c \in Files : /\ Turn(c) = i /\ Lines(c)[line + 1] = Text
                         /\ line + 1 \in DOMAIN Lines(c) /\ line \in Nat
  BY <1>1, LineAtLabel
<1>4. /\ \A k : Turn(k)' = Turn(k) /\ Lines(k)' = Lines(k)
      /\ Files' = Files
  BY <1>2, LinesKept
<1>5. \A k \in Files : Turn(k) \in Nat /\ (Turn(k) = i => k = c)
  BY <1>1, <1>3, TurnOrder
<1>6. \A k \in Files, n \in Nat \ {0} : Done(k, n)' <=> Done(k, n) \/ (k = c /\ n = line + 1)
  <2> TAKE k \in Files, n \in Nat \ {0}
  <2>1. Done(k, n)' <=> n \in DOMAIN Lines(k) /\ (Turn(k) < i \/ (Turn(k) = i /\ n <= line + 1))
    BY <1>2, <1>4 DEF Done
  <2>2. n <= line + 1 <=> n <= line \/ n = line + 1
    BY <1>3
  <2> QED BY <1>1, <1>3, <1>5, <2>1, <2>2 DEF Done
<1>7. /\ sym \in Blocks /\ sym \notin Listed /\ Listed' = Listed \cup {sym}
      /\ symbol'[sym].name = Text
      /\ \A s \in Listed : symbol'[s].name = symbol[s].name
  <2>1. sym \in Blocks /\ sym \notin Listed
    BY <1>1 DEF ProcessInv, LivesOK, EnteringOK, Entering, Fresh, AddLabel, At
  <2>2. PICK l \in Blocks : Link(sym, l)
    BY DEF AddLabel
  <2>3. symbol'[sym] = [label |-> l, name |-> Text, next |-> NULL]
    BY <2>1, <2>2 DEF Link
  <2>4. \A s \in Blocks : s # sym => symbol'[s].label = symbol[s].label
                                     /\ symbol'[s].name = symbol[s].name
    BY <1>1, <2>2 DEF Link, TypeOK, Symbol
  <2>5. l # NULL
    BY InputAssumption
  <2> QED BY <2>1, <2>3, <2>4, <2>5 DEF Listed
<1> HIDE DEF Files, Done, Listed, Turn, Lines, Text
<1> QED BY <1>3, <1>6, <1>7

\* A local label that is no orphan has a parent.
LEMMA ParentOfLocal ==
    ASSUME ProcessInv, NamesOK, LinesOK, AddLabel, Text \in Locals,
           NEW c \in Files, Turn(c) = i
    PROVE  HasParent(c, line + 1)
<1>1. Reading /\ TableOK /\ TypeOK /\ pc = "label" /\ first # NULL
  BY DEF AddLabel, Orphan, At, Reading, LinesOK, ProcessInv
<1>2. PICK s \in Listed : TRUE
  BY <1>1 DEF ProcessInv, ChainOK
<1>3. PICK k \in Files, n \in Nat \ {0} : Done(k, n)
  BY <1>1, <1>2 DEF TableOK
<1>4. PICK l \in Files, m \in Nat \ {0} : Done(l, m) /\ Lines(l)[m] \notin Locals
  <2> HIDE DEF Files, Done, Listed, Turn, Lines, Text
  <2>1. CASE Lines(k)[n] \in Locals
    <3>1. HasParent(k, n)
      BY <1>1, <1>3, <2>1 DEF TableOK
    <3> HIDE DEF TableOK
    <3> QED BY <3>1 DEF HasParent
  <2> QED BY <1>3, <2>1
<1>5. Before(<<l, m>>, <<c, line + 1>>)
  BY <1>1, <1>4, DoneBefore DEF Done
<1> QED BY <1>4, <1>5 DEF HasParent

\* A line more is done, and its label is in the table.
LEMMA LabelEntered ==
    ASSUME ProcessInv, NamesOK, LinesOK, AddLabel
    PROVE  PlaceOK' /\ TableOK'
<1>1. Reading /\ PlaceOK /\ TableOK /\ TypeOK /\ pc = "label"
  BY DEF AddLabel, At, Reading, LinesOK, ProcessInv
<1>2. /\ line' = line + 1 /\ pc' = "read" /\ UNCHANGED <<args, disk, names, i>>
      /\ \A s \in Listed : symbol[s].name # Text
  BY DEF AddLabel, inputs, options
<1>3. PICK c \in Files : /\ Turn(c) = i /\ Lines(c)[line + 1] = Text
                         /\ line + 1 \in DOMAIN Lines(c) /\ line \in Nat
                         /\ \A k \in Files, n \in Nat \ {0} :
                               Done(k, n)' <=> Done(k, n) \/ (k = c /\ n = line + 1)
  BY LabelDone
<1>4. /\ \A k : Turn(k)' = Turn(k) /\ Lines(k)' = Lines(k)
      /\ Files' = Files
  BY <1>2, LinesKept
<1>6. \A k \in Files, n \in Nat \ {0} : Done(k, n)' <=> Done(k, n) \/ (k = c /\ n = line + 1)
  BY <1>3
<1>7. /\ Listed' = Listed \cup {sym} /\ symbol'[sym].name = Text
      /\ \A s \in Listed : symbol'[s].name = symbol[s].name
  BY LabelDone
<1>8. Lines(c)[line + 1] \notin {"unknown", "refused"} /\ line + 1 \in Nat \ {0}
  BY <1>1, <1>3 DEF PlaceOK, IsLabel
<1>a. \A k, n : HasParent(k, n) => HasParent(k, n)'
  BY <1>4, <1>6 DEF HasParent
<1>b. ASSUME NEW n \in Nat \ {0}, n = line + 1, Lines(c)[n] \in Locals
      PROVE  HasParent(c, n)'
  <2>1. HasParent(c, line + 1)
    BY <1>3, <1>b, ParentOfLocal
  <2> HIDE DEF HasParent
  <2>2. HasParent(c, n)
    BY <1>b, <2>1
  <2> QED BY <1>a, <2>2
<1> HIDE DEF Files, Done, Listed, Turn, Lines, Text, HasParent
<1>9. ASSUME NEW k \in Files, NEW n \in Nat \ {0}, Done(k, n)'
      PROVE  /\ Lines(k)[n] \notin {"unknown", "refused"}
             /\ Lines(k)[n] \in Locals => HasParent(k, n)'
             /\ \E s \in Listed' : symbol'[s].name = Lines(k)[n]
  <2>1. CASE Done(k, n)
    <3>1. /\ Lines(k)[n] \notin {"unknown", "refused"}
          /\ Lines(k)[n] \in Locals => HasParent(k, n)
          /\ \E s \in Listed : symbol[s].name = Lines(k)[n]
      BY <1>1, <2>1 DEF TableOK
    <3> QED BY <1>7, <1>a, <3>1
  <2>2. CASE k = c /\ n = line + 1
    <3>1. Lines(k)[n] = Text /\ Lines(k)[n] \notin {"unknown", "refused"}
      BY <1>3, <1>8, <2>2
    <3>2. Lines(k)[n] \in Locals => HasParent(k, n)'
      BY <1>b, <2>2
    <3> QED BY <1>7, <3>1, <3>2
  <2> QED BY <1>6, <1>9, <2>1, <2>2
<1>10. \A s \in Listed' : \E k \in Files, n \in Nat \ {0} :
          Done(k, n)' /\ symbol'[s].name = Lines(k)[n]
  <2>1. ASSUME NEW s \in Listed
        PROVE  \E k \in Files, n \in Nat \ {0} : Done(k, n)' /\ symbol'[s].name = Lines(k)[n]
    BY <1>1, <1>6, <1>7, <2>1 DEF TableOK
  <2>2. \E n \in Nat \ {0} : Done(c, n)' /\ symbol'[sym].name = Lines(c)[n]
    <3>1. PICK n \in Nat \ {0} : n = line + 1
      BY <1>8
    <3>2. Done(c, n)'
      BY <1>6, <3>1
    <3> QED BY <1>3, <1>7, <3>1, <3>2
  <2> QED BY <1>7, <2>1, <2>2
<1>11. ASSUME NEW k \in Files, NEW l \in Files, NEW m \in Nat \ {0}, NEW n \in Nat \ {0},
              Done(k, m)', Done(l, n)', Lines(k)[m] = Lines(l)[n]
       PROVE  k = l /\ m = n
  <2>1. \A d \in Files, p \in Nat \ {0} : Done(d, p) => Lines(d)[p] # Text
    BY <1>1, <1>2 DEF TableOK
  <2>2. CASE Done(k, m) /\ Done(l, n)
    BY <1>1, <1>11, <2>2 DEF TableOK
  <2>3. CASE ~Done(k, m)
    BY <1>3, <1>6, <1>11, <2>1, <2>3
  <2>4. CASE ~Done(l, n)
    BY <1>3, <1>6, <1>11, <2>1, <2>4
  <2> QED BY <2>2, <2>3, <2>4
<1>12. \A k \in Files : Turn(k) < i => k = 0 \/ args[k].arg \in DOMAIN disk
  BY <1>1 DEF TableOK
<1>13. TableOK'
  BY <1>2, <1>4, <1>9, <1>10, <1>11, <1>12 DEF TableOK
<1>14. PlaceOK'
  BY <1>1, <1>2 DEF PlaceOK
<1> QED BY <1>13, <1>14

\* fail() is called at the first line with an error.
LEMMA FirstError ==
    ASSUME ProcessInv, NamesOK, LinesOK, RefusedLine \/ OrphanLabel \/ DuplicateLabel
    PROVE  FailsFirst
<1>1. /\ Reading /\ PlaceOK /\ TableOK /\ TypeOK /\ pc \in {"read", "label"}
      /\ HasLine \/ pc = "label"
  BY DEF RefusedLine, OrphanLabel, DuplicateLabel, HasLine, At, Reading, LinesOK, ProcessInv
<1>2. PICK c \in Files : /\ Turn(c) = i /\ Lines(c)[line + 1] = Text
                         /\ line + 1 \in DOMAIN Lines(c) /\ line \in Nat
  BY <1>1, LineAtLabel
<1> DEFINE p == <<c, line + 1>>
<1>3. p \in Places /\ LineAt(p) = Text
  <2>1. c \in Sources
    BY <1>1, <1>2, ReachedSource
  <2> QED BY <1>2, <2>1 DEF Places, LineAt
<1>4. ASSUME NEW k \in Files, NEW n \in Nat \ {0}, n \in DOMAIN Lines(k)
      PROVE  Done(k, n) <=> Before(<<k, n>>, p)
  BY <1>1, <1>2, <1>4, DoneBefore
<1>5. \A q \in Places : Before(q, p) => Done(q[1], q[2])
  BY <1>1, <1>4, PlaceType
<1> HIDE DEF p
<1>6. \A q \in Places : Before(q, p) => ~Bad(q)
  BY <1>1, <1>5, DoneIsGood
<1>7. CASE RefusedLine
  BY <1>3, <1>6, <1>7 DEF RefusedLine, FailsFirst, FirstBad, Bad
<1>8. CASE OrphanLabel
  <2>1. Text \in Locals /\ Listed = {} /\ IsLabel
    BY <1>1, <1>8 DEF OrphanLabel, Orphan, At, PlaceOK, ProcessInv, ChainOK
  <2>2. \A q \in Places : ~Before(q, p)
    BY <1>1, <1>5, <2>1, PlaceType DEF TableOK
  <2>3. NoParent(p)
    BY <1>3, <2>1, <2>2 DEF NoParent
  <2> QED BY <1>3, <1>6, <2>1, <2>3 DEF FailsFirst, FirstBad, Bad, IsLabel
<1>9. CASE DuplicateLabel
  <2>1. PICK s \in Listed : symbol[s].name = Text
    BY <1>9 DEF DuplicateLabel
  <2>2. PICK k \in Files, n \in Nat \ {0} : Done(k, n) /\ Lines(k)[n] = Text
    BY <1>1, <2>1 DEF TableOK
  <2>3. <<k, n>> \in Places /\ Before(<<k, n>>, p) /\ LineAt(<<k, n>>) = Text
    BY <1>1, <1>4, <2>2, DonePlace DEF Done, LineAt
  <2>4. Again(p) /\ IsLabel
    BY <1>1, <1>3, <1>9, <2>3 DEF Again, DuplicateLabel, At, PlaceOK
  <2> QED BY <1>3, <1>6, <2>4 DEF FailsFirst, FirstBad, Bad, IsLabel
<1> QED BY <1>7, <1>8, <1>9

LEMMA LinesConfigure ==
    ASSUME ProcessInv, LinesOK, Configure
    PROVE  LinesOK'
<1>1. pc = "configure" /\ Listed = {} /\ i = 1 /\ exit = RUNNING /\ exit' = exit
  BY DEF Configure, SetOption, UnsupportedArch, CollectName, GrowList, GrowListFails, Help,
     EndOptions, Option, At, LinesOK, ProcessInv, HeapOK, Die
<1>2. ExitTells'
  BY <1>1 DEF ExitTells, RUNNING, FAULT
<1>3. Listed' = {} /\ i' = 1
  BY <1>1 DEF Configure, SetOption, UnsupportedArch, CollectName, GrowList, GrowListFails, Help,
     EndOptions, Die, symtab, progress, Listed
<1>4. CASE SetOption \/ CollectName \/ GrowList \/ UnsupportedArch
  <2>1. pc' = pc
    BY <1>4 DEF SetOption, CollectName, GrowList, UnsupportedArch, Die
  <2> QED BY <1>1, <1>2, <1>3, <2>1 DEF LinesOK, Reading, Past
<1>5. CASE GrowListFails
  BY <1>2, <1>5 DEF GrowListFails, LinesOK, Reading, Past, ERR_MSG_MEM
<1>6. CASE Help \/ EndOptions
  <2>1. pc' = "files" /\ UNCHANGED <<args, disk>>
    BY <1>6 DEF Help, EndOptions, inputs
  <2>2. \A k \in Files' : Turn(k)' \in Nat \ {0}
    BY <2>1, LinesKept, TurnOrder DEF ProcessInv
  <2>3. \A k \in Files' : ~(Turn(k)' < i') /\ \A n : ~Done(k, n)'
    BY <1>3, <2>1, <2>2 DEF Done
  <2> HIDE DEF Listed
  <2>4. TableOK'
    BY <1>3, <2>3 DEF TableOK
  <2> QED BY <1>2, <1>3, <2>1, <2>4 DEF LinesOK, PlaceOK, Reading, Past
<1> QED BY <1>4, <1>5, <1>6 DEF Configure

\* After the loop nothing of this is looked at any more.
LEMMA PastLoop ==
    ASSUME Past', UNCHANGED <<args, disk, rcd>>, ExitTells',
           rcd = 0 => AllGood
    PROVE  LinesOK'
<1>1. AllGood' <=> AllGood
  BY LinesKept
<1> HIDE DEF AllGood
<1> QED BY <1>1 DEF LinesOK, Past, Reading

LEMMA LinesAssemble ==
    ASSUME ProcessInv, NamesOK, LinesOK, Assemble
    PROVE  LinesOK'
<1>1. Reading /\ PlaceOK /\ TableOK /\ TypeOK /\ exit = RUNNING
      /\ UNCHANGED <<args, disk, rcd, names>>
  BY DEF Assemble, Open, OpenFails, AllFilesRead, EndOfFile, InvalidMnemonic, RefusedLine,
     MakeSymbol, OrphanLabel, AddLabel, DuplicateLabel, Die, HasLine, At, Reading, LinesOK,
     ProcessInv, HeapOK, inputs, options
<1>2. exit' = exit => ExitTells'
  BY <1>1 DEF ExitTells, RUNNING, FAULT
<1>3. ASSUME exit' = exit, Reading', PlaceOK', TableOK' PROVE LinesOK'
  BY <1>2, <1>3 DEF LinesOK, Reading, Past
<1>4. CASE Open
  <2>1. /\ pc = "files" /\ pc' = "read" /\ line' = 0 /\ UNCHANGED <<i, symtab, exit>>
        /\ names = <<>> \/ i <= Len(names)
    BY <1>4 DEF Open, At
  <2>2. \A k \in Files, n \in Nat \ {0} : Done(k, n)' <=> Done(k, n)
    <3>1. \A n \in Nat \ {0} : ~(n <= 0)
      OBVIOUS
    <3> QED BY <1>1, <2>1, <3>1, LinesKept DEF Done
  <2>3. TableOK'
    BY <1>1, <2>1, <2>2, TableKept DEF TableOK
  <2> QED BY <1>1, <1>3, <2>1, <2>3 DEF PlaceOK, Reading
<1>5. CASE MakeSymbol
  <2>1. /\ pc = "read" /\ pc' = "label" /\ IsLabel
        /\ UNCHANGED <<i, line, symtab, exit>>
    BY <1>5 DEF MakeSymbol, HasLine, At, progress
  <2>2. \A k \in Files, n \in Nat \ {0} : Done(k, n)' <=> Done(k, n)
    BY <1>1, <2>1, LinesKept DEF Done
  <2>3. TableOK'
    BY <1>1, <2>1, <2>2, TableKept DEF TableOK
  <2>4. Text' = Text
    BY <1>1, <2>1 DEF Text, File
  <2> QED BY <1>1, <1>3, <2>1, <2>3, <2>4 DEF PlaceOK, IsLabel, Reading
<1>6. CASE InvalidMnemonic
  BY <1>6, SamePlace DEF InvalidMnemonic, Die, inputs, options, progress
<1>7. CASE AddLabel
  BY <1>3, <1>7, LabelEntered DEF AddLabel, Reading
<1>8. CASE EndOfFile /\ names # <<>>
  BY <1>3, <1>8, NextFile DEF EndOfFile, Reading
<1>9. CASE AllFilesRead \/ OpenFails \/ (EndOfFile /\ names = <<>>)
  <2>1. AllGood
    BY <1>9, LoopEnds
  <2>2. exit' = exit /\ Past'
    BY <1>9 DEF AllFilesRead, OpenFails, EndOfFile, Assembled, Past
  <2> QED BY <1>1, <1>2, <2>1, <2>2, PastLoop
<1>10. CASE RefusedLine \/ OrphanLabel \/ DuplicateLabel
  <2>1. FailsFirst /\ pc' = "exited" /\ exit' = FAULT
    BY <1>10, FirstError DEF RefusedLine, OrphanLabel, DuplicateLabel, Fault
  <2>2. FailsFirst'
    BY <1>1, <2>1, LinesKept
  <2> HIDE DEF FailsFirst
  <2> QED BY <2>1, <2>2 DEF LinesOK, ExitTells, Reading, Past, FAULT
<1> QED BY <1>4, <1>5, <1>6, <1>7, <1>8, <1>9, <1>10 DEF Assemble

LEMMA LinesStep ==
    ASSUME ProcessInv, NamesOK, LinesOK, [Next]_vars
    PROVE  LinesOK'
<1>1. CASE Configure \/ Assemble
  BY <1>1, LinesConfigure, LinesAssemble
<1>2. CASE Cleanup
  <2>1. Past /\ UNCHANGED <<args, disk, rcd>> /\ exit = RUNNING
    BY <1>2 DEF Cleanup, FreeLabel, FreeSymbol, SymbolsFreed, FreeList, DestroyTargets, Release,
       Return, At, inputs, Past, ProcessInv, HeapOK
  <2>2. rcd = 0 => AllGood
    BY <2>1 DEF LinesOK
  <2>3. CASE Return
    <3>1. exit' = - rcd /\ pc' = "exited" /\ rcd \in {0, - ERR_MSG_MEM}
      BY <2>3 DEF Return, ProcessInv, TypeOK
    <3>2. AllGood' <=> AllGood
      BY <2>1, LinesKept
    <3> HIDE DEF AllGood
    <3> QED BY <2>2, <3>1, <3>2 DEF LinesOK, ExitTells, Reading, Past, ERR_MSG_MEM, FAULT
  <2>4. CASE ~Return
    <3>1. exit' = exit /\ Past'
      BY <1>2, <2>4 DEF Cleanup, FreeLabel, FreeSymbol, SymbolsFreed, FreeList, DestroyTargets,
         Release, Past
    <3>2. ExitTells'
      BY <2>1, <3>1 DEF ExitTells, RUNNING, FAULT
    <3> QED BY <2>1, <2>2, <3>1, <3>2, PastLoop
  <2> QED BY <2>3, <2>4
<1>3. CASE InitTargets
  <2>1. /\ pc = "init" /\ pc' = "configure" /\ Listed' = Listed /\ i' = i /\ exit' = exit
        /\ exit = RUNNING
    BY <1>3 DEF InitTargets, At, symtab, progress, Listed, ProcessInv, HeapOK
  <2> HIDE DEF Listed
  <2> QED BY <2>1 DEF LinesOK, ExitTells, Reading, Past, RUNNING, FAULT
<1>4. CASE SmemWorks /\ status' = "died"
  BY <1>4 DEF SmemWorks, LinesOK, ExitTells, Reading, Past, FAULT
<1>5. CASE SallocFails \/ (SmemWorks /\ status' # "died") \/ Exited \/ UNCHANGED vars
  BY <1>5, SamePlace DEF SallocFails, SmemWorks, Exited, Die, vars, inputs, options, progress
<1> QED BY <1>1, <1>2, <1>3, <1>4, <1>5 DEF Next

LEMMA LinesInit == Init => LinesOK
<1> SUFFICES ASSUME Init PROVE LinesOK
  OBVIOUS
<1>1. Listed = {} /\ i = 1 /\ pc = "init" /\ exit = RUNNING
  BY DEF Init, Listed, NoSymbol
<1> HIDE DEF Listed
<1> QED BY <1>1 DEF LinesOK, ExitTells, Reading, Past, RUNNING, FAULT

\* An exit status of 0 says that no line there was to read has an error; when
\* the process faults, the first line with one is a line that parse_line
\* refuses, a local label without a parent or a label that is there already.
THEOREM ExitAlwaysTells == Spec => []ExitTells
<1>1. Init => LinesOK
  BY LinesInit
<1>2. ProcessInv /\ NamesOK /\ LinesOK /\ [Next]_vars => LinesOK'
  BY LinesStep
<1>3. LinesOK => ExitTells
  BY DEF LinesOK
<1> QED BY <1>1, <1>2, <1>3, ProcessInvariant, NamesInvariant, PTL DEF Spec

-----------------------------------------------------------------------------
(* The order of the symbol table.                                          *)

\* No two symbols have one name, and each is linked as its line is placed.
OrderOK ==
    /\ \A s, t \in Listed : symbol[s].name = symbol[t].name => s = t
    /\ \A s \in Listed, p \in Entered : Names(s, p) => LinkedAt(s, p)

\* The lines entered, and their order.
LEMMA EnteredType ==
    ASSUME TypeOK, NEW p \in Entered
    PROVE  /\ p = <<p[1], p[2]>> /\ p[1] \in Sources /\ p[1] \in Files
           /\ p[1] \in Nat /\ p[2] \in Nat \ {0} /\ Done(p[1], p[2])
<1>1. p = <<p[1], p[2]>> /\ p[1] \in Sources /\ p[2] \in DOMAIN Lines(p[1]) /\ Done(p[1], p[2])
  BY DEF Entered, Places
<1> QED BY <1>1, SourceType, TurnOrder

LEMMA DoneEntered ==
    ASSUME TypeOK, NamesOK, Reading, PlaceOK, TableOK, NEW k \in Files, NEW n, Done(k, n)
    PROVE  <<k, n>> \in Entered
BY DonePlace DEF Entered

LEMMA PlacesOrdered ==
    ASSUME TypeOK, NEW p \in Entered, NEW q \in Entered
    PROVE  /\ Before(p, q) \/ Before(q, p) \/ p = q
           /\ ~(Before(p, q) /\ Before(q, p))
BY EnteredType DEF Before

\* Every line entered has a symbol, and every symbol a line.
LEMMA NamesOfLines ==
    ASSUME TypeOK, NamesOK, Reading, PlaceOK, TableOK
    PROVE  /\ \A p \in Entered : \E s \in Listed : Names(s, p)
           /\ \A s \in Listed : \E p \in Entered : Names(s, p)
<1>1. ASSUME NEW p \in Entered PROVE \E s \in Listed : Names(s, p)
  BY <1>1, EnteredType DEF TableOK, Names, LineAt
<1>2. ASSUME NEW s \in Listed PROVE \E p \in Entered : Names(s, p)
  <2>1. PICK k \in Files, n \in Nat \ {0} : Done(k, n) /\ symbol[s].name = Lines(k)[n]
    BY <1>2 DEF TableOK
  <2>2. <<k, n>> \in Entered
    BY <2>1, DoneEntered
  <2> QED BY <2>1, <2>2 DEF Names, LineAt
<1> QED BY <1>1, <1>2

\* The order stays as long as no line is entered.
LEMMA EnteredKept ==
    ASSUME TypeOK, UNCHANGED <<args, disk>>,
           \A k \in Files, n \in Nat \ {0} : Done(k, n)' <=> Done(k, n)
    PROVE  Entered' = Entered
<1>1. Sources' = Sources /\ \A k : Lines(k)' = Lines(k)
  BY LinesKept
<1> DEFINE places == UNION {{k} \X DOMAIN Lines(k) : k \in Sources}
<1>2. \A p \in places : p[1] \in Files /\ p[2] \in Nat \ {0}
  BY SourceType
<1>3. places' = places
  BY <1>1
<1> HIDE DEF places, Files, Done
<1>4. {p \in places' : Done(p[1], p[2])'} = {p \in places : Done(p[1], p[2])}
  BY <1>2, <1>3
<1> QED BY <1>4 DEF Entered, Places, places

LEMMA OrderKept ==
    ASSUME TypeOK, OrderOK, UNCHANGED <<args, disk, symtab>>, Entered' = Entered
    PROVE  OrderOK'
<1>1. /\ Listed' = Listed /\ symbol' = symbol /\ first' = first
      /\ \A p : LineAt(p)' = LineAt(p)
  BY LinesKept DEF Listed, symtab, LineAt
<1>2. \A s, p : (Names(s, p)' <=> Names(s, p)) /\ (LinkedAt(s, p)' <=> LinkedAt(s, p))
  BY <1>1 DEF Names, LinkedAt, Follows
<1> HIDE DEF Listed
<1> QED BY <1>1, <1>2 DEF OrderOK

\* The new line comes after all others, and its symbol after the last.
LEMMA LabelOrder ==
    ASSUME ProcessInv, NamesOK, LinesOK, OrderOK, AddLabel
    PROVE  OrderOK'
<1>1. Reading /\ PlaceOK /\ TableOK /\ TypeOK /\ pc = "label"
      /\ UNCHANGED <<args, disk>> /\ \A s \in Listed : symbol[s].name # Text
  BY DEF AddLabel, At, Reading, LinesOK, ProcessInv, inputs
<1>2. PICK c \in Files : /\ Turn(c) = i /\ Lines(c)[line + 1] = Text
                         /\ line + 1 \in DOMAIN Lines(c) /\ line \in Nat
                         /\ \A k \in Files, n \in Nat \ {0} :
                               Done(k, n)' <=> Done(k, n) \/ (k = c /\ n = line + 1)
  BY LabelDone
<1>3. /\ sym \in Blocks /\ sym \notin Listed /\ Listed' = Listed \cup {sym}
      /\ symbol'[sym].name = Text
      /\ \A s \in Listed : symbol'[s].name = symbol[s].name
  BY LabelDone
<1> DEFINE new == <<c, line + 1>>
<1>4. new[1] = c /\ new[2] = line + 1 /\ LineAt(new) = Text /\ c \in Nat
  BY <1>1, <1>2, TurnOrder DEF LineAt
<1>5. Entered' = Entered \cup {new} /\ new \notin Entered
  <2>1. Sources' = Sources /\ \A k : Lines(k)' = Lines(k)
    BY <1>1, LinesKept
  <2>2. c \in Sources
    BY <1>1, <1>2, ReachedSource
  <2>3. ~Done(c, line + 1)
    BY <1>1, <1>2, TurnOrder DEF Done, TypeOK
  <2> DEFINE places == UNION {{k} \X DOMAIN Lines(k) : k \in Sources}
  <2>4. /\ new \in places /\ places' = places
        /\ \A p \in places : /\ p[1] \in Files /\ p[2] \in Nat \ {0}
                             /\ p = <<p[1], p[2]>>
    BY <1>1, <1>2, <2>1, <2>2, SourceType
  <2> HIDE DEF places, new, Files, Done
  <2>5. \A p \in places : p = new <=> p[1] = c /\ p[2] = line + 1
    BY <1>4, <2>4 DEF new
  <2>6. {p \in places' : Done(p[1], p[2])'} = {p \in places : Done(p[1], p[2])} \cup {new}
    BY <1>2, <2>4, <2>5
  <2> QED BY <1>4, <2>3, <2>6 DEF Entered, Places, places
<1>6. ASSUME NEW q \in Entered
      PROVE  Before(q, new) /\ ~Before(new, q) /\ LineAt(q) # Text
  <2>1. q[1] \in Files /\ q[1] \in Nat /\ q[2] \in Nat /\ Done(q[1], q[2])
    BY <1>1, EnteredType
  <2>2. Turn(q[1]) < i \/ (Turn(q[1]) = i /\ q[2] <= line)
    BY <2>1 DEF Done
  <2>3. /\ Turn(q[1]) \in Nat /\ i \in Nat
        /\ Turn(q[1]) <= i <=> q[1] <= c
        /\ Turn(q[1]) = i => q[1] = c
    BY <1>1, <1>2, <2>1, TurnOrder DEF TypeOK
  <2>4. q[1] < c \/ (q[1] = c /\ q[2] <= line)
    BY <1>2, <1>4, <2>1, <2>2, <2>3
  <2>5. LineAt(q) # Text
    BY <1>1, NamesOfLines DEF Names
  <2> QED BY <1>2, <1>4, <2>1, <2>4, <2>5 DEF Before
<1>7. ~Before(new, new)
  BY <1>2, <1>4 DEF Before
<1>8. /\ \A s \in Listed : s # last => symbol'[s].next = symbol[s].next
      /\ symbol'[sym].next = NULL
      /\ first' = IF first = NULL THEN sym ELSE first
      /\ last \in Listed => symbol'[last].next = sym /\ symbol[last].next = NULL
      /\ first = NULL <=> Listed = {}
      /\ first # NULL => first \in Listed /\ last \in Listed
      /\ \A s \in Listed : symbol[s].next \in Listed \cup {NULL}
  <2>1. ChainOK /\ \E l \in Blocks : Link(sym, l)
    BY DEF AddLabel, ProcessInv
  <2>2. /\ first = NULL <=> Listed = {}
        /\ first # NULL => first \in Listed /\ last \in Listed /\ symbol[last].next = NULL
        /\ first = NULL => last = NULL
        /\ \A s \in Listed : symbol[s].next \in Listed \cup {NULL}
    BY <2>1 DEF ChainOK
  <2>3. \A s \in Listed : s \in Blocks /\ s # sym
    BY <1>3 DEF Listed
  <2>4. symbol \in [Blocks -> Symbol]
    BY <1>1 DEF TypeOK
  <2> HIDE DEF Listed
  <2>5. last \in Listed => symbol'[last].next = sym
    BY <1>3, <2>1, <2>3, <2>4 DEF Link, Symbol
  <2>6. \A s \in Listed : s # last => symbol'[s].next = symbol[s].next
    BY <1>3, <2>1, <2>3, <2>4 DEF Link
  <2>7. symbol'[sym].next = NULL /\ first' = IF first = NULL THEN sym ELSE first
    BY <1>3, <2>1 DEF Link
  <2> QED BY <2>2, <2>5, <2>6, <2>7
<1>9. \A p : LineAt(p)' = LineAt(p)
  BY <1>1, LinesKept DEF LineAt
<1>10. Entered = {} <=> Listed = {}
  BY <1>1, NamesOfLines
<1> HIDE DEF new, Listed, Entered, LineAt, Before, Text, Files
<1>11. \A s, t \in Listed' : symbol'[s].name = symbol'[t].name => s = t
  BY <1>1, <1>3 DEF OrderOK
<1>12. ASSUME NEW s \in Listed', NEW p \in Entered', symbol'[s].name = LineAt(p)
       PROVE  LinkedAt(s, p)'
  <2>1. CASE s = sym
    <3>1. p = new
      BY <1>3, <1>5, <1>6, <1>12, <2>1
    <3>2. \A q \in Entered' : ~Before(new, q)
      BY <1>5, <1>6, <1>7
    <3>3. s = first' <=> \A q \in Entered' : ~Before(q, new)
      BY <1>3, <1>5, <1>6, <1>7, <1>8, <1>10, <2>1
    <3> QED BY <1>8, <2>1, <3>1, <3>2, <3>3 DEF LinkedAt
  <2>2. CASE s \in Listed
    <3>1. p \in Entered /\ Names(s, p) /\ LinkedAt(s, p)
      BY <1>1, <1>3, <1>4, <1>5, <1>12, <2>2 DEF Names, OrderOK
    <3>2. s = first' <=> \A q \in Entered' : ~Before(q, p)
      BY <1>5, <1>6, <1>8, <2>2, <3>1 DEF LinkedAt
    <3>3. CASE s = last
      <4>1. \A q \in Entered : ~Before(p, q)
        BY <1>8, <2>2, <3>1, <3>3 DEF LinkedAt
      <4>2. \A r \in Entered' : ~(Before(p, r) /\ Before(r, new))
        BY <1>5, <1>7, <4>1
      <4>3. new \in Entered' /\ Before(p, new) /\ symbol'[s].next = sym /\ sym # NULL
        BY <1>3, <1>5, <1>6, <1>8, <2>2, <3>1, <3>3, InputAssumption
      <4> QED BY <1>3, <1>4, <1>9, <3>2, <4>2, <4>3 DEF LinkedAt, Follows, Names
    <3>4. CASE s # last
      <4>1. symbol[s].next # NULL
        <5>1. ASSUME symbol[s].next = NULL PROVE FALSE
          <6>1. last \in Listed
            BY <1>8, <2>2
          <6>2. PICK q \in Entered : Names(last, q)
            BY <1>1, <6>1, NamesOfLines
          <6>3. ~Before(p, q) /\ ~Before(q, p)
            BY <1>8, <3>1, <5>1, <6>1, <6>2 DEF OrderOK, LinkedAt
          <6>4. p = q
            BY <1>1, <3>1, <6>3, PlacesOrdered
          <6> QED BY <2>2, <3>1, <3>4, <6>1, <6>2, <6>4 DEF OrderOK, Names
        <5> QED BY <5>1
      <4>2. PICK q \in Entered : Names(symbol[s].next, q) /\ Follows(q, p)
        BY <3>1, <4>1 DEF LinkedAt
      <4>3. symbol[s].next \in Listed /\ symbol'[s].next = symbol[s].next
        BY <1>8, <2>2, <3>4, <4>1
      <4>4. q \in Entered' /\ Follows(q, p)'
        BY <1>5, <1>6, <4>2 DEF Follows
      <4> QED BY <1>3, <1>9, <3>2, <4>1, <4>2, <4>3, <4>4 DEF LinkedAt, Names
    <3> QED BY <3>3, <3>4
  <2> QED BY <1>3, <2>1, <2>2
<1> QED BY <1>9, <1>11, <1>12 DEF OrderOK, Names

LEMMA OrderStep ==
    ASSUME ProcessInv, NamesOK, LinesOK, Reading => OrderOK, [Next]_vars, Reading'
    PROVE  OrderOK'
<1>1. CASE Configure
  <2>1. Listed = {} /\ UNCHANGED symtab
    BY <1>1 DEF Configure, SetOption, UnsupportedArch, CollectName, GrowList, GrowListFails,
       Help, EndOptions, Option, At, LinesOK, Die
  <2>2. Listed' = {}
    BY <2>1 DEF Listed, symtab
  <2> HIDE DEF Listed
  <2> QED BY <2>2 DEF OrderOK
<1>2. CASE AddLabel
  BY <1>2, LabelOrder DEF AddLabel, At, Reading
<1>3. CASE EndOfFile /\ names # <<>>
  BY <1>3, FileDone, EnteredKept, OrderKept DEF EndOfFile, At, Reading, ProcessInv, inputs
<1>4. CASE Open \/ MakeSymbol
  <2>1. Reading /\ TypeOK /\ UNCHANGED <<args, disk, i, symtab>>
        /\ \/ pc = "files" /\ pc' = "read" /\ line' = 0
           \/ pc = "read" /\ pc' = "label" /\ line' = line
    BY <1>4 DEF Open, MakeSymbol, HasLine, At, Reading, ProcessInv, inputs, progress
  <2>2. \A k \in Files, n \in Nat \ {0} : Done(k, n)' <=> Done(k, n)
    <3>1. \A n \in Nat \ {0} : ~(n <= 0)
      OBVIOUS
    <3> QED BY <2>1, <3>1, LinesKept DEF Done
  <2> QED BY <2>1, <2>2, EnteredKept, OrderKept
<1>5. CASE InvalidMnemonic \/ SallocFails \/ SmemWorks \/ Exited \/ UNCHANGED vars
  <2>1. UNCHANGED <<args, disk, i, line, pc, symtab>> /\ Reading /\ TypeOK
    BY <1>5 DEF InvalidMnemonic, SallocFails, SmemWorks, Exited, vars, Die, Reading,
       ProcessInv, inputs, progress
  <2>2. \A k \in Files, n \in Nat \ {0} : Done(k, n)' <=> Done(k, n)
    BY <2>1, LinesKept DEF Done
  <2> QED BY <2>1, <2>2, EnteredKept, OrderKept
<1>6. ASSUME \/ InitTargets \/ Cleanup \/ OpenFails \/ AllFilesRead
             \/ RefusedLine \/ OrphanLabel \/ DuplicateLabel
             \/ EndOfFile /\ names = <<>>
      PROVE  FALSE
  BY <1>6 DEF InitTargets, Cleanup, FreeLabel, FreeSymbol, SymbolsFreed, FreeList,
     DestroyTargets, Release, Return, OpenFails, AllFilesRead, RefusedLine, OrphanLabel,
     DuplicateLabel, Fault, EndOfFile, Assembled, Reading
<1> QED BY <1>1, <1>2, <1>3, <1>4, <1>5, <1>6 DEF Next, Assemble

\* While the files are read the symbol table is the list of the labels of the
\* lines entered, in their order, and none of its blocks has been freed.
THEOREM LabelsAreListed == Spec => []ListsLabels
<1> DEFINE Order == Reading => OrderOK
<1>1. Init => Order /\ LinesOK
  BY LinesInit DEF Init, Reading
<1>2. ProcessInv /\ NamesOK /\ LinesOK /\ Order /\ [Next]_vars => Order'
  BY OrderStep
<1>3. ProcessInv /\ NamesOK /\ LinesOK /\ [Next]_vars => LinesOK'
  BY LinesStep
<1>4. ProcessInv /\ NamesOK /\ LinesOK /\ Order => ListsLabels
  <2> SUFFICES ASSUME ProcessInv, NamesOK, LinesOK, Order, Reading, status = "running"
               PROVE  ListsLabels
    BY DEF ListsLabels, Reading
  <2>1. TypeOK /\ PlaceOK /\ TableOK /\ OrderOK
    BY DEF ProcessInv, LinesOK
  <2>2. \A s \in Listed : {s, symbol[s].label} \subseteq tracked
    BY DEF ProcessInv, LivesOK, EnteringOK, Entering, Reading, Live
  <2>3. /\ \A p \in Entered : \E s \in Listed : Names(s, p)
        /\ \A s \in Listed : \E p \in Entered : Names(s, p)
    BY <2>1, NamesOfLines
  <2> HIDE DEF Listed, Entered
  <2> QED BY <2>1, <2>2, <2>3 DEF OrderOK, ListsLabels
<1> QED BY <1>1, <1>2, <1>3, <1>4, ProcessInvariant, NamesInvariant, PTL DEF Spec

-----------------------------------------------------------------------------
(* The program uses the memory that smem promises: each of its steps is    *)
(* one of the callers' or of smem's, or leaves the memory alone.           *)

LEMMA SallocAcquires ==
    ASSUME NEW b \in Blocks, Salloc(b)
    PROVE  Mem!Next
BY DEF Salloc, Mem!Next, Mem!Callers

\* The arguments of sfree are blocks, so that a call of it is one of smem's.
LEMMA MemStep ==
    ASSUME ProcessInv, [Next]_vars
    PROVE  Mem!Next \/ UNCHANGED Mem!vars
<1> USE InputAssumption DEF ProcessInv
<1>1. CASE UNCHANGED memory
  BY <1>1 DEF memory, Mem!vars
<1>2. CASE GrowList
  <2>1. Mem!Idle /\ UNCHANGED <<tracked, call, status>>
    BY <1>2 DEF GrowList, Option, At, Mem!Idle
  <2>2. PICK b \in (Blocks \ heap) \cup ({list} \ {NULL}) :
           list' = b /\ heap' = (heap \ {list}) \cup {b}
    BY <1>2 DEF GrowList
  <2>3. heap \subseteq Blocks /\ (list # NULL => list \in heap \ tracked)
    BY DEF TypeOK, HeapOK
  <2>4. CASE b = list
    BY <2>1, <2>2, <2>3, <2>4 DEF Mem!vars
  <2>5. CASE b # list /\ list = NULL
    <3>1. b \in Blocks \ heap /\ heap' = heap \cup {b}
      BY <2>2, <2>3, <2>5
    <3> QED BY <2>1, <3>1 DEF Mem!Malloc, Mem!Callers, Mem!Next
  <2>6. CASE b # list /\ list # NULL
    <3>1. b \in Blocks \ heap /\ list \in heap \ tracked
      BY <2>2, <2>3, <2>6
    <3> QED BY <2>1, <2>2, <3>1 DEF Mem!Realloc, Mem!Callers, Mem!Next
  <2> QED BY <2>4, <2>5, <2>6
<1>3. CASE FreeList
  <2>1. /\ Mem!Idle /\ heap' = heap \ {list} /\ UNCHANGED <<tracked, call, status>>
    BY <1>3 DEF FreeList, At, Mem!Idle
  <2>2. CASE list = NULL
    BY <2>1, <2>2 DEF TypeOK, Mem!vars
  <2>3. CASE list # NULL
    <3>1. list \in heap \ tracked
      BY <2>3 DEF HeapOK
    <3> QED BY <2>1, <3>1 DEF Mem!Free, Mem!Callers, Mem!Next
  <2> QED BY <2>2, <2>3
<1>4. CASE InitTargets \/ MakeSymbol \/ AddLabel \/ DuplicateLabel
  BY <1>4, SallocAcquires DEF InitTargets, MakeSymbol, AddLabel, DuplicateLabel
<1>5. CASE FreeLabel \/ FreeSymbol \/ DestroyTargets
  BY <1>5 DEF FreeLabel, FreeSymbol, DestroyTargets, Sfree, Mem!Callers, Mem!Next
<1>6. CASE Release
  BY <1>6 DEF Release, Mem!Callers, Mem!Next
<1>7. CASE UnsupportedArch \/ InvalidMnemonic \/ SallocFails
  BY <1>7 DEF UnsupportedArch, InvalidMnemonic, SallocFails, Mem!Callers, Mem!Next
<1>8. CASE SmemWorks
  BY <1>8 DEF SmemWorks, Mem!Next
<1> QED BY <1>1, <1>2, <1>3, <1>4, <1>5, <1>6, <1>7, <1>8, MemoryFrame

\* Seen from its memory, the program is a TrackedMemory, which SmemList
\* implements: smem is never asked for what it does not promise.
THEOREM ProgramUsesMemory == Spec => UsesMemory
<1>1. Init => Mem!Init
  BY DEF Init
<1>2. ProcessInv /\ [Next]_vars => [Mem!Next]_(Mem!vars)
  BY MemStep
<1> QED BY <1>1, <1>2, ProcessInvariant, PTL DEF Spec, UsesMemory, Mem!Spec
=============================================================================
