---------------------------- MODULE ModuleImport ----------------------------
(***************************************************************************)
(* Modules and imports: how regist_pass (src/sema/regist.colgm) walks the  *)
(* use statements of a file, compiles the modules it meets for the first   *)
(* time in the middle of its own scan, and fills the symbol tables; with   *)
(* the status of every module (src/util/package.colgm), the symbol tables  *)
(* per file (src/sema/context.colgm, module.colgm) and the stages of the   *)
(* driver for the root file (src/main.colgm).                              *)
(*                                                                         *)
(* The recursion of compile_module is a stack of frames, one per file that *)
(* is being compiled; the root's frame is the first and has no module name.*)
(* A source file is what these passes see of it: whether it parses, its    *)
(* use statements, its declarations by kind, and the global symbols its    *)
(* bodies name.  A use statement without symbols imports all of them.      *)
(***************************************************************************)
EXTENDS Naturals, Sequences, Functions

CONSTANTS
  File,             \* paths of source files
  Name,             \* module names such as std::str
  Sym,              \* global symbols
  Root,             \* the file given to the compiler
  NoFile, NoName,   \* absence
  Find,             \* module_finder.find: the file of a module name, or NoFile
  Programs          \* the programs to compile

Decl == [sym : Sym, public : BOOLEAN, generic : BOOLEAN]
Use == [name : Name, syms : SUBSET Sym]
Scans == {"enums", "structs", "funcs"}      \* structs stands for unions, too
Source == [parses : BOOLEAN, imports : Seq(Use), decls : [Scans -> Seq(Decl)],
           needs : SUBSET Sym]

ASSUME ImportAssumption ==
  /\ Root \in File /\ NoFile \notin File /\ NoName \notin Name
  /\ Find \in [Name -> File \cup {NoFile}]
  /\ \A p \in Programs : p \in [File -> Source]

VARIABLES
  program,          \* the source files; never changes
  stack,            \* frames of compile_module and of main, innermost last
  status,           \* package.file_mapper: p_status of every module name
  nameOf,           \* package.file_to_module
  domain,           \* global_symbol_table.domain
  thisFile,         \* sema_context.this_file
  errors,           \* what report has counted
  mir               \* the files whose MIR has been generated, with their names

vars == <<program, stack, status, nameOf, domain, thisFile, errors, mir>>
pkgVars == <<status, nameOf>>

Statuses == {"not_exist", "analysing", "analysed"}
Phases == {"parse", "run", "imports", "take", "sema", "generate"} \cup Scans
Frame == [file : File, name : Name \cup {NoName}, phase : Phases, next : Nat \ {0}]
Table == [Sym -> File \cup {NoFile}]
Domain == [exists : BOOLEAN, owned : SUBSET Decl, global : Table, generic : Table]
ErrorKinds == {"syntax", "no_file", "no_module", "no_symbol", "clash", "undefined"}

EmptyTable == [s \in Sym |-> NoFile]
NewFrame(f, n) == [file |-> f, name |-> n, phase |-> "parse", next |-> 1]

Top == stack[Len(stack)]
Src == program[Top.file]

(* The statements or declarations the current loop of regist_pass runs over. *)
Items ==
  IF Top.phase = "imports" THEN Src.imports ELSE Src.decls[Top.phase]

Here(what) == [file |-> Top.file, what |-> what, at |-> Top.next]
Report(es) == errors' = errors \cup es
ReportIf(what, cond) == Report(IF cond THEN {Here(what)} ELSE {})

Resume(frame, phase, next) == [frame EXCEPT !.phase = phase, !.next = next]

Go(phase, next) == stack' = [stack EXCEPT ![Len(stack)] = Resume(@, phase, next)]

(* The current frame returns; its caller, if any, goes on in phase at next. *)
Caller == stack[Len(stack) - 1]
Return(phase, next) ==
  stack' = IF Len(stack) = 1 THEN <<>>
           ELSE [SubSeq(stack, 1, Len(stack) - 1)
                   EXCEPT ![Len(stack) - 1] = Resume(Caller, phase, next)]

(* compile_module returned false or main gave up: the import is skipped. *)
Abandon == Return("imports", Caller.next + 1)

(* A stage ends the compilation of its file when there are errors of any file. *)
OnlyNewErrors == errors' # errors
AnyErrors == errors' # {}

Running(phase) == stack # <<>> /\ Top.phase = phase

SameImport == Go("imports", Top.next)
NextImport == Go("imports", Top.next + 1)

(* A module is compiled by the first use statement that names it. *)
FreshName(n) == status[n] = "not_exist"
Fresh(n) == Find[n] # NoFile /\ status[n] = "not_exist"

MarkLate(n) == status
Mark(n) == [status EXCEPT ![n] = "analysing"]

(* The public declarations of a module that a use statement names. *)
TakenAll(u, f) == {d \in domain[f].owned : u.syms = {} \/ d.sym \in u.syms}
Taken(u, f) == {d \in domain[f].owned : d.public /\ (u.syms = {} \/ d.sym \in u.syms)}

(* The symbols of a use statement that are not there, or are private. *)
Unknown(u, f) == u.syms \ {d.sym : d \in domain[f].owned}
Missing(u, f) == u.syms \ {d.sym : d \in Taken(u, f)}

(* The name of a declaration is taken already, by an import or another one. *)
ClashOwn(d) == domain[thisFile].global[d.sym] = Top.file
ClashImported(d) == domain[thisFile].global[d.sym] \notin {NoFile, Top.file}
Clash(d) == domain[thisFile].global[d.sym] # NoFile

(* Declarations of file f enter the tables of a domain: all of them
   global_symbol, the generic ones generic_symbol as well. *)
Enter(table, decls, f) ==
  [s \in Sym |-> IF \E d \in decls : d.sym = s THEN f ELSE table[s]]
EnterBoth(dm, decls, f) ==
  [dm EXCEPT !.global = Enter(dm.global, decls, f),
             !.generic = Enter(dm.generic, {d \in decls : d.generic}, f)]

Own(dm, d) == [dm EXCEPT !.owned = dm.owned \cup {d}]

(* The current file after a successful compilation: the importing one again. *)
StillThis == thisFile
BackToCaller == IF Len(stack) = 1 THEN thisFile ELSE Caller.file
-----------------------------------------------------------------------------
Init ==
  /\ program \in Programs
  /\ stack = <<NewFrame(Root, NoName)>>
  /\ status = [n \in Name |-> "not_exist"]
  /\ nameOf = [f \in File |-> NoName]
  /\ domain = [f \in File |-> [exists |-> FALSE, owned |-> {},
                               global |-> EmptyTable, generic |-> EmptyTable]]
  /\ thisFile = NoFile
  /\ errors = {}
  /\ mir = <<>>

(* parser.parse; an error of any file so far ends the compilation of this one. *)
Parse ==
  /\ Running("parse")
  /\ ReportIf("syntax", ~Src.parses)
  /\ IF AnyErrors THEN Abandon ELSE Go("run", 1)
  /\ UNCHANGED <<program, pkgVars, domain, thisFile, mir>>

(* regist_pass.run until scan_imports: the file becomes the current one.
   The tables of a file that is compiled for a second time stay as they are. *)
BeginRun ==
  /\ Running("run")
  /\ thisFile' = Top.file
  /\ domain' = [domain EXCEPT ![Top.file].exists = TRUE]
  /\ Go("imports", 1)
  /\ UNCHANGED <<program, pkgVars, errors, mir>>

(* scan_single_import until the module is known to be compiled or compiling. *)
FindModule ==
  /\ Running("imports") /\ Top.next <= Len(Items)
  /\ LET n == Items[Top.next].name
         f == Find[n]
     IN  /\ ReportIf("no_file", f = NoFile)
         /\ nameOf' = IF Fresh(n) THEN [nameOf EXCEPT ![f] = n] ELSE nameOf
         /\ status' = IF Fresh(n) THEN Mark(n) ELSE status
         /\ \/ f = NoFile /\ NextImport
            \/ Fresh(n) /\ stack' = Append(stack, NewFrame(f, n))
            \/ f # NoFile /\ ~Fresh(n) /\ Go("take", Top.next)
  /\ UNCHANGED <<program, domain, thisFile, mir>>

(* import_from_module: the tables of the current file receive the symbols the
   module has registered so far. *)
TakeSymbols ==
  /\ Running("take")
  /\ LET u == Src.imports[Top.next]
         f == Find[u.name]
     IN  IF ~domain[f].exists
         THEN Report({Here("no_module")}) /\ UNCHANGED domain
         ELSE /\ ReportIf("no_symbol", Missing(u, f) # {})
              /\ domain' = [domain EXCEPT ![thisFile] = EnterBoth(@, Taken(u, f), f)]
  /\ NextImport
  /\ UNCHANGED <<program, pkgVars, thisFile, mir>>

(* regist_single_enum, _struct_symbol, _union_symbol, _global_func: a symbol
   that is in the table already is refused, otherwise its information goes to
   the file it is declared in and its name to the current file's tables. *)
Register ==
  /\ stack # <<>> /\ Top.phase \in Scans /\ Top.next <= Len(Items)
  /\ LET d == Items[Top.next]
     IN  /\ ReportIf("clash", Clash(d))
         /\ domain' =
              IF Clash(d) THEN domain
              ELSE [[domain EXCEPT ![Top.file] = Own(@, d)]
                      EXCEPT ![thisFile] = EnterBoth(@, {d}, Top.file)]
  /\ Go(Top.phase, Top.next + 1)
  /\ UNCHANGED <<program, pkgVars, thisFile, mir>>

(* The end of one loop of regist_pass.run; enums are not followed by a check. *)
Following == [imports |-> "enums", enums |-> "structs", structs |-> "funcs",
              funcs |-> "sema"]
EndScan ==
  /\ stack # <<>> /\ Top.phase \in Scans \cup {"imports"} /\ Top.next > Len(Items)
  /\ Report({})
  /\ IF Top.phase # "enums" /\ AnyErrors THEN Abandon ELSE Go(Following[Top.phase], 1)
  /\ UNCHANGED <<program, pkgVars, domain, thisFile, mir>>

(* sema.analyse: every name of a body must be in the file's own table. *)
Analyse ==
  /\ Running("sema")
  /\ thisFile' = Top.file
  /\ ReportIf("undefined", \E s \in Src.needs : domain[Top.file].global[s] = NoFile)
  /\ IF AnyErrors THEN Abandon ELSE Go("generate", 1)
  /\ UNCHANGED <<program, pkgVars, domain, mir>>

(* ast2mir.generate; compile_module then marks the module, makes the importing
   file the current one again and goes on with import_from_module. *)
Generate ==
  /\ Running("generate")
  /\ mir' = Append(mir, [file |-> Top.file, name |-> nameOf[Top.file]])
  /\ status' = IF Len(stack) = 1 THEN status ELSE [status EXCEPT ![Top.name] = "analysed"]
  /\ thisFile' = BackToCaller
  /\ Return("take", Caller.next)
  /\ UNCHANGED <<program, nameOf, domain, errors>>

Next == \/ Parse \/ BeginRun \/ FindModule \/ TakeSymbols \/ Register
        \/ EndScan \/ Analyse \/ Generate

Spec == Init /\ [][Next]_vars
FairSpec == Spec /\ WF_vars(Next)

Finished == stack = <<>>
Compiled == Finished /\ errors = {}
-----------------------------------------------------------------------------
(* Reference definitions: what the import graph of a program alone says. *)

UsesOf(f) == Range(program[f].imports)
DeclsOf(f) == UNION {Range(program[f].decls[k]) : k \in Scans}
Bare(f) == DeclsOf(f) = {}

(* What a file imports; a file that does not parse imports nothing. *)
Deps(f) == IF program[f].parses THEN {Find[u.name] : u \in UsesOf(f)} \ {NoFile} ELSE {}

Built == [i \in DOMAIN mir |-> mir[i].file]
Outcome == IF errors # {} THEN "failed" ELSE IF Finished THEN "ok" ELSE "running"

Order == INSTANCE ImportOrder WITH
  deps <- [f \in File |-> Deps(f)], bare <- {f \in File : Bare(f)},
  built <- Built, outcome <- Outcome

(* The files that are being compiled. *)
Active == {stack[i].file : i \in DOMAIN stack}

Reachable == {Root} \cup Order!Reach(Root)
Acyclic == \A f \in Reachable : f \notin Order!Reach(f)

(* The symbols a use statement asks for, and the ones it would bring if the
   module it names were registered completely. *)
Provides(u) ==
  IF Find[u.name] = NoFile THEN {}
  ELSE {d \in DeclsOf(Find[u.name]) : d.public /\ (u.syms = {} \/ d.sym \in u.syms)}
ProvidedSyms(u) == {d.sym : d \in Provides(u)}
ImportedSyms(f) == UNION {ProvidedSyms(u) : u \in UsesOf(f)}

(* The use statements of a file that provide a symbol. *)
Providers(f, s) ==
  {i \in DOMAIN program[f].imports : s \in ProvidedSyms(program[f].imports[i])}

(* The meaning of a symbol in a file: its own declaration, else the last use
   statement that provides it. *)
Visible(f, s) ==
  IF s \in {d.sym : d \in DeclsOf(f)} THEN f
  ELSE IF Providers(f, s) = {} THEN NoFile
  ELSE LET last == CHOOSE i \in Providers(f, s) : \A j \in Providers(f, s) : j <= i
       IN  Find[program[f].imports[last].name]

DeclaresTwice(f) ==
  \E k, l \in Scans : \E i \in DOMAIN program[f].decls[k], j \in DOMAIN program[f].decls[l] :
    <<k, i>> # <<l, j>> /\ program[f].decls[k][i].sym = program[f].decls[l][j].sym

(* A file in which everything that is named exists. *)
Closed(f) ==
  /\ program[f].parses
  /\ \A u \in UsesOf(f) : Find[u.name] # NoFile /\ u.syms \subseteq ProvidedSyms(u)
  /\ \A s \in program[f].needs : Visible(f, s) # NoFile

(* ... and nothing is declared twice, or reached under two names. *)
Unambiguous(f) ==
  /\ ~DeclaresTwice(f)
  /\ {d.sym : d \in DeclsOf(f)} \cap ImportedSyms(f) = {}
  /\ ~Bare(f) => \A u, v \in UNION {UsesOf(g) : g \in Reachable} :
                  Find[u.name] = f /\ Find[v.name] = f => u.name = v.name
-----------------------------------------------------------------------------
(* Every variable has its type; the stack holds frames, the root's first. *)
TypeOK ==
  /\ program \in [File -> Source]
  /\ stack \in Seq(Frame)
  /\ \A i \in DOMAIN stack : stack[i].name = NoName <=> i = 1
  /\ status \in [Name -> Statuses]
  /\ nameOf \in [File -> Name \cup {NoName}]
  /\ domain \in [File -> Domain]
  /\ thisFile \in File \cup {NoFile}
  /\ errors \subseteq [file : File, what : ErrorKinds, at : Nat]
  /\ mir \in Seq([file : File, name : Name \cup {NoName}])

(* Frame i waits for frame j: at the use statement whose module j compiles. *)
Waits(i, j) ==
  /\ stack[i].phase = "imports"
  /\ stack[i].next <= Len(program[stack[i].file].imports)
  /\ stack[j].name = program[stack[i].file].imports[stack[i].next].name
  /\ stack[j].file = Find[stack[j].name]
Nested == \A i, j \in DOMAIN stack : j = i + 1 => Waits(i, j)

(* Every frame but the innermost waits for the next one, and symbols are taken
   for a use statement of the file only. *)
CallersWait ==
  /\ Nested
  /\ Running("take") => Top.next <= Len(Src.imports)

(* A module is compiled at most once at a time: the names of the frames are
   the modules marked analysing, each once, so the recursion of compile_module
   through import circles ends (regist.colgm:265, :380).  After an error the
   modules given up on stay marked. *)
NoReentry ==
  /\ \A i, j \in DOMAIN stack : stack[i].name = stack[j].name => i = j
  /\ \A i \in DOMAIN stack : i > 1 => status[stack[i].name] = "analysing"
  /\ errors = {} => \A n \in Name : status[n] = "analysing" =>
                      \E i \in DOMAIN stack : stack[i].name = n

(* As long as nothing failed, the file whose tables are written is the file
   that is being scanned, however many modules were compiled in between
   (regist.colgm:320-322, :1813-1815). *)
WritesOwnTables ==
  (errors = {} /\ stack # <<>> /\ Top.phase \notin {"parse", "run"}) => thisFile = Top.file

(* A table never holds a symbol its file cannot see, private symbols of other
   modules included; and where imports form no circle, a file whose code is
   generated sees exactly its own declarations and what its use statements
   bring, the last one winning - unless it is just being compiled again, under
   another name, when the use statements are run through once more. *)
TablesAreVisible ==
  errors = {} =>
    /\ \A f \in File, s \in Sym : domain[f].global[s] # NoFile =>
         \/ domain[f].global[s] = f /\ s \in {d.sym : d \in DeclsOf(f)}
         \/ \E u \in UsesOf(f) : s \in ProvidedSyms(u) /\ Find[u.name] = domain[f].global[s]
    /\ Acyclic => \A f \in Range(Built) \ Active : domain[f].global = [s \in Sym |-> Visible(f, s)]

(* A program that compiles is one in which every file that is reached parses,
   every use statement finds its module and its symbols, and every name a body
   uses is visible: import circles and aborted modules let nothing through. *)
AcceptsOnlyClosed == Compiled => \A f \in Reachable : Closed(f)

(* Without import circles the compiler accepts exactly the programs that are
   closed and in which no name is ambiguous. *)
AcceptsAllLegal ==
  (Finished /\ Acyclic) =>
    (errors = {} <=> \A f \in Reachable : Closed(f) /\ Unambiguous(f))

(* The module name that goes into the symbols of a file (type.full_path_name)
   is the same for the code of the file and for all code that refers to it. *)
NamesAgree ==
  Compiled => \A i \in DOMAIN mir : ~Bare(mir[i].file) => mir[i].name = nameOf[mir[i].file]

(* Code is generated file by file in the order of ImportOrder, and not at all
   once something failed. *)
BuildsInOrder == Order!Spec

(* The compilation of every program ends. *)
Stops == <>Finished
-----------------------------------------------------------------------------
=============================================================================
