------------------------- MODULE ModuleImportProofs -------------------------
(***************************************************************************)
(* Proofs about ModuleImport, for all programs, files, names and symbols:  *)
(* its types, that no module is compiled inside its own compilation, and   *)
(* that the tables written are those of the file being scanned; then what  *)
(* the tables hold, which programs compile, under which name a file gets   *)
(* its code, and that the code is generated in the order of ImportOrder.   *)
(***************************************************************************)
EXTENDS ModuleImport, SequenceTheorems, WellFoundedInduction, TLAPS

(* A frame goes on somewhere else in the same file. *)
LEMMA ResumeFrame ==
  ASSUME NEW fr \in Frame, NEW p \in Phases, NEW k \in Nat \ {0}
  PROVE  /\ Resume(fr, p, k) \in Frame
         /\ Resume(fr, p, k).file = fr.file
         /\ Resume(fr, p, k).name = fr.name
         /\ Resume(fr, p, k).phase = p
  BY DEF Resume, Frame

(* Go changes only where the innermost frame goes on. *)
LEMMA GoStack ==
  ASSUME stack \in Seq(Frame), stack # <<>>, NEW p \in Phases, NEW k \in Nat \ {0}, Go(p, k)
  PROVE  /\ stack' \in Seq(Frame)
         /\ Len(stack') = Len(stack)
         /\ \A i \in 1 .. Len(stack) :
              stack'[i] = IF i = Len(stack) THEN Resume(Top, p, k) ELSE stack[i]
<1>1. Top \in Frame /\ Len(stack) \in 1 .. Len(stack)
  BY DEF Top
<1>2. Resume(Top, p, k) \in Frame
  BY <1>1, ResumeFrame
<1>3. stack' = [stack EXCEPT ![Len(stack)] = Resume(Top, p, k)]
  BY DEF Go, Top
<1> QED BY <1>1, <1>2, <1>3, ExceptSeq

(* Return takes the innermost frame off and changes only where the caller,
   if there is one, goes on. *)
LEMMA ReturnStack ==
  ASSUME stack \in Seq(Frame), stack # <<>>, NEW p \in Phases, NEW k,
         Len(stack) > 1 => k \in Nat \ {0}, Return(p, k)
  PROVE  /\ stack' \in Seq(Frame)
         /\ Len(stack') = Len(stack) - 1
         /\ \A i \in 1 .. Len(stack) - 1 :
              stack'[i] = IF i = Len(stack) - 1 THEN Resume(Caller, p, k) ELSE stack[i]
<1> DEFINE n == Len(stack)
<1>0. n \in Nat /\ n >= 1
  OBVIOUS
<1>1. CASE n = 1
  BY <1>0, <1>1 DEF Return
<1>2. CASE n > 1
  <2> DEFINE s == SubSeq(stack, 1, n - 1)
             fr == Resume(Caller, p, k)
  <2>1. /\ s \in Seq(Frame) /\ Len(s) = n - 1
        /\ \A i \in 1 .. n - 1 : s[i] = stack[i]
    <3>1. \A i \in 1 .. n - 1 : stack[i] \in Frame
      BY <1>0
    <3> QED BY <1>0, <1>2, <3>1, SubSeqProperties
  <2>2. stack' = [s EXCEPT ![n - 1] = fr]
    BY <1>0, <1>2 DEF Return
  <2>3. fr \in Frame
    <3>1. Caller \in Frame
      BY <1>0, <1>2 DEF Caller
    <3> QED BY <1>2, <3>1, ResumeFrame
  <2>4. n - 1 \in 1 .. n - 1
    BY <1>0, <1>2
  <2> HIDE DEF s, fr
  <2>5. /\ stack' \in Seq(Frame) /\ Len(stack') = n - 1
        /\ \A i \in 1 .. n - 1 : stack'[i] = IF i = n - 1 THEN fr ELSE s[i]
    BY <2>1, <2>2, <2>3, <2>4, ExceptSeq
  <2>6. \A i \in 1 .. n - 1 : stack'[i] = IF i = n - 1 THEN fr ELSE stack[i]
    BY <2>1, <2>5
  <2> QED BY <2>5, <2>6 DEF fr
<1>3. n = 1 \/ n > 1
  <2> HIDE DEF n
  <2> QED BY ONLY <1>0
<1> QED BY <1>1, <1>2, <1>3

(* A frame for a module that is about to be compiled. *)
LEMMA PushStack ==
  ASSUME stack \in Seq(Frame), NEW f \in File, NEW m \in Name,
         stack' = Append(stack, NewFrame(f, m))
  PROVE  /\ stack' \in Seq(Frame)
         /\ Len(stack') = Len(stack) + 1
         /\ \A i \in 1 .. Len(stack) : stack'[i] = stack[i]
         /\ stack'[Len(stack')] = NewFrame(f, m)
<1>1. NewFrame(f, m) \in Frame
  BY DEF NewFrame, Frame, Phases
<1> QED BY <1>1
-----------------------------------------------------------------------------
StackOK == stack \in Seq(Frame) /\ \A i \in DOMAIN stack : stack[i].name = NoName <=> i = 1
Errors == [file : File, what : ErrorKinds, at : Nat]

(* What is on the top of the stack. *)
LEMMA TopFrame ==
  ASSUME program \in [File -> Source], StackOK, stack # <<>>
  PROVE  /\ Len(stack) \in Nat \ {0}
         /\ Top \in Frame /\ Src \in Source
         /\ \A w \in ErrorKinds : Here(w) \in Errors
         /\ Len(stack) > 1 => Caller \in Frame /\ Top.name \in Name
<1>1. Len(stack) \in Nat \ {0} /\ Top \in Frame
  BY DEF StackOK, Top
<1>2. Src \in Source
  BY <1>1 DEF Src, Frame
<1>3. \A w \in ErrorKinds : Here(w) \in Errors
  BY <1>1 DEF Here, Frame, Errors
<1>4. Len(stack) > 1 => Caller \in Frame
  BY <1>1 DEF StackOK, Caller
<1>5. Len(stack) > 1 => Top.name \in Name
  BY <1>1 DEF StackOK, Top, Frame
<1> QED BY <1>1, <1>2, <1>3, <1>4, <1>5

(* The moves of the stack keep its shape. *)
LEMMA GoOK ==
  ASSUME StackOK, stack # <<>>, NEW p \in Phases, NEW k \in Nat \ {0}, Go(p, k)
  PROVE  /\ StackOK' /\ stack' # <<>>
         /\ Top' = Resume(Top, p, k)
         /\ (program' = program /\ Nested) => Nested'
<1>0. Len(stack) \in Nat /\ Len(stack) >= 1
  BY DEF StackOK
<1>1. /\ stack' \in Seq(Frame) /\ Len(stack') = Len(stack)
      /\ \A i \in 1 .. Len(stack) :
           stack'[i] = IF i = Len(stack) THEN Resume(Top, p, k) ELSE stack[i]
  BY GoStack DEF StackOK
<1>2. /\ Len(stack) \in Nat \ {0} /\ Top \in Frame /\ Top = stack[Len(stack)]
      /\ DOMAIN stack = 1 .. Len(stack) /\ DOMAIN stack' = 1 .. Len(stack)
  BY <1>1 DEF StackOK, Top
<1>3. Resume(Top, p, k).file = Top.file /\ Resume(Top, p, k).name = Top.name
  BY <1>2, ResumeFrame
<1>4. \A i \in 1 .. Len(stack) : stack'[i].name = stack[i].name /\ stack'[i].file = stack[i].file
  BY <1>1, <1>2, <1>3
<1>5. StackOK' /\ stack' # <<>>
  BY <1>1, <1>2, <1>4 DEF StackOK
<1>6. Top' = Resume(Top, p, k)
  <2>1. stack'[Len(stack)] = Resume(Top, p, k)
    <3>1. Len(stack) \in 1 .. Len(stack)
      BY <1>0
    <3> QED BY <1>1, <3>1
  <2>2. Top' = stack'[Len(stack')]
    BY DEF Top
  <2> QED BY <1>1, <2>1, <2>2
<1>7. ASSUME program' = program, Nested PROVE Nested'
  <2> SUFFICES ASSUME NEW i \in 1 .. Len(stack), NEW j \in 1 .. Len(stack), j = i + 1
               PROVE  Waits(i, j)'
    BY <1>2 DEF Nested
  <2>1. Waits(i, j)
    BY <1>2, <1>7 DEF Nested
  <2>2. i # Len(stack)
    BY <1>0
  <2> QED BY <1>1, <1>4, <1>7, <2>1, <2>2 DEF Waits
<1> QED BY <1>5, <1>6, <1>7

LEMMA ReturnOK ==
  ASSUME StackOK, stack # <<>>, NEW p \in Phases, NEW k, Return(p, k),
         Len(stack) > 1 => k \in Nat \ {0}
  PROVE  /\ StackOK'
         /\ stack' # <<>> => Len(stack) > 1 /\ Top' = Resume(Caller, p, k)
         /\ (program' = program /\ Nested) => Nested'
<1>0. Len(stack) \in Nat /\ Len(stack) >= 1
  BY DEF StackOK
<1>1. /\ stack' \in Seq(Frame) /\ Len(stack') = Len(stack) - 1
      /\ \A i \in 1 .. Len(stack) - 1 :
           stack'[i] = IF i = Len(stack) - 1 THEN Resume(Caller, p, k) ELSE stack[i]
  BY ReturnStack DEF StackOK
<1>2. /\ Len(stack) \in Nat \ {0} /\ DOMAIN stack = 1 .. Len(stack)
      /\ DOMAIN stack' = 1 .. Len(stack) - 1
  BY <1>1 DEF StackOK
<1>3. \A i \in 1 .. Len(stack) - 1 :
        stack'[i].name = stack[i].name /\ stack'[i].file = stack[i].file
  <2> SUFFICES ASSUME NEW i \in 1 .. Len(stack) - 1
               PROVE  stack'[i].name = stack[i].name /\ stack'[i].file = stack[i].file
    OBVIOUS
  <2>1. CASE i = Len(stack) - 1
    <3>1. Caller = stack[i] /\ Caller \in Frame
      BY <1>2, <2>1 DEF Caller, StackOK
    <3>2. Len(stack) > 1
      BY <1>2
    <3>3. stack'[i] = Resume(Caller, p, k)
      BY <1>1, <2>1
    <3> QED BY <3>1, <3>2, <3>3, ResumeFrame
  <2> QED BY <1>1, <2>1
<1>4. StackOK'
  BY <1>1, <1>2, <1>3 DEF StackOK
<1>5. stack' # <<>> => Len(stack) > 1 /\ Top' = Resume(Caller, p, k)
  BY <1>1, <1>2 DEF Top
<1>6. ASSUME program' = program, Nested PROVE Nested'
  <2> SUFFICES ASSUME NEW i \in 1 .. Len(stack) - 1, NEW j \in 1 .. Len(stack) - 1, j = i + 1
               PROVE  Waits(i, j)'
    BY <1>2 DEF Nested
  <2>1. Waits(i, j)
    <3>1. i \in DOMAIN stack /\ j \in DOMAIN stack
      BY <1>2
    <3> QED BY <1>6, <3>1 DEF Nested
  <2>2. i # Len(stack) - 1
    BY <1>0
  <2> QED BY <1>1, <1>3, <1>6, <2>1, <2>2 DEF Waits
<1> QED BY <1>4, <1>5, <1>6

LEMMA AbandonOK ==
  ASSUME program \in [File -> Source], StackOK, stack # <<>>, Abandon
  PROVE  /\ StackOK'
         /\ stack' # <<>> => Top'.phase = "imports"
         /\ (program' = program /\ Nested) => Nested'
<1>1. Len(stack) > 1 => Caller \in Frame /\ Caller.next + 1 \in Nat \ {0}
  BY TopFrame DEF Frame
<1>2. Return("imports", Caller.next + 1) /\ "imports" \in Phases
  BY DEF Abandon, Phases
<1>3. /\ StackOK'
      /\ (program' = program /\ Nested) => Nested'
      /\ stack' # <<>> => Len(stack) > 1 /\ Top' = Resume(Caller, "imports", Caller.next + 1)
  BY <1>1, <1>2, ReturnOK
<1>4. stack' # <<>> => Top'.phase = "imports"
  <2> SUFFICES ASSUME stack' # <<>> PROVE Top'.phase = "imports"
    OBVIOUS
  <2>1. Caller \in Frame /\ Caller.next + 1 \in Nat \ {0} /\ "imports" \in Phases
    BY <1>1, <1>2, <1>3
  <2>2. Resume(Caller, "imports", Caller.next + 1).phase = "imports"
    BY <2>1, ResumeFrame
  <2>3. Top' = Resume(Caller, "imports", Caller.next + 1)
    BY <1>3
  <2> QED BY <2>2, <2>3
<1> QED BY <1>3, <1>4

LEMMA PushOK ==
  ASSUME StackOK, stack # <<>>, NEW f \in File, NEW m \in Name,
         stack' = Append(stack, NewFrame(f, m))
  PROVE  /\ StackOK' /\ Top' = NewFrame(f, m)
         /\ Len(stack') = Len(stack) + 1
         /\ \A i \in 1 .. Len(stack) : stack'[i] = stack[i]
<1>1. /\ stack' \in Seq(Frame) /\ Len(stack') = Len(stack) + 1
      /\ \A i \in 1 .. Len(stack) : stack'[i] = stack[i]
      /\ stack'[Len(stack')] = NewFrame(f, m)
  BY PushStack DEF StackOK
<1>2. NewFrame(f, m).name = m /\ m # NoName
  BY ImportAssumption DEF NewFrame
<1>3. Len(stack) \in Nat \ {0} /\ DOMAIN stack = 1 .. Len(stack) /\ DOMAIN stack' = 1 .. Len(stack')
  BY <1>1 DEF StackOK
<1>4. StackOK'
  BY <1>1, <1>2, <1>3 DEF StackOK
<1> QED BY <1>1, <1>4 DEF Top

(* What a loop of regist_pass runs over. *)
LEMMA ItemTypes ==
  ASSUME program \in [File -> Source], StackOK, stack # <<>>
  PROVE  /\ Top.phase = "imports" => Items \in Seq(Use)
         /\ Top.phase \in Scans => Items \in Seq(Decl)
  BY TopFrame DEF Items, Source, Scans

(* The tables only ever get files for values. *)
LEMMA EnterType ==
  ASSUME NEW dm \in Domain, NEW ds, NEW f \in File \cup {NoFile}
  PROVE  EnterBoth(dm, ds, f) \in Domain
<1>1. \A es : \A t \in Table : Enter(t, es, f) \in Table
  BY DEF Enter, Table
<1> QED BY <1>1 DEF EnterBoth, Domain

LEMMA OwnType ==
  ASSUME NEW dm \in Domain, NEW d \in Decl
  PROVE  Own(dm, d) \in Domain
  BY DEF Own, Domain

LEMMA TypeInit == Init => TypeOK
<1> SUFFICES ASSUME Init PROVE TypeOK
  OBVIOUS
<1>1. stack \in Seq(Frame) /\ \A i \in DOMAIN stack : stack[i].name = NoName <=> i = 1
  <2>1. NewFrame(Root, NoName) \in Frame /\ NewFrame(Root, NoName).name = NoName
    BY ImportAssumption DEF NewFrame, Frame, Phases
  <2>2. stack = <<NewFrame(Root, NoName)>>
    BY DEF Init
  <2> QED BY <2>1, <2>2
<1>2. domain \in [File -> Domain]
  BY DEF Init, Domain, Table, EmptyTable
<1>3. program \in [File -> Source]
  BY ImportAssumption DEF Init
<1>4. mir \in Seq([file : File, name : Name \cup {NoName}])
  BY DEF Init
<1> QED BY <1>1, <1>2, <1>3, <1>4 DEF Init, TypeOK, Statuses

LEMMA TypeStep ==
  ASSUME TypeOK, CallersWait, [Next]_vars
  PROVE  TypeOK'
<1> USE DEF Errors
<1>0. StackOK /\ program \in [File -> Source]
  BY DEF TypeOK, StackOK
<1>1. CASE Parse
  <2>1. stack # <<>> /\ "syntax" \in ErrorKinds
    BY <1>1 DEF Parse, Running, ErrorKinds
  <2>2. errors' \subseteq Errors
    BY <1>0, <1>1, <2>1, TopFrame DEF Parse, ReportIf, Report, TypeOK
  <2>3. StackOK'
    BY <1>0, <1>1, <2>1, AbandonOK, GoOK DEF Parse, Phases
  <2> QED BY <1>1, <2>2, <2>3 DEF Parse, TypeOK, StackOK, pkgVars
<1>2. CASE BeginRun
  <2>1. stack # <<>> /\ Top.file \in File
    BY <1>0, <1>2, TopFrame DEF BeginRun, Running, Frame
  <2>2. StackOK'
    <3>1. Go("imports", 1) /\ "imports" \in Phases /\ 1 \in Nat \ {0}
      BY <1>2 DEF BeginRun, Phases
    <3> QED BY <1>0, <2>1, <3>1, GoOK
  <2>3. domain' \in [File -> Domain]
    BY <1>2 DEF BeginRun, TypeOK, Domain
  <2> QED BY <1>2, <2>1, <2>2, <2>3 DEF BeginRun, TypeOK, StackOK, pkgVars
<1>3. CASE FindModule
  <2>1. stack # <<>> /\ Top.next \in Nat \ {0} /\ "no_file" \in ErrorKinds
        /\ {"imports", "take"} \subseteq Phases
    BY <1>0, <1>3, TopFrame DEF FindModule, Running, Frame, ErrorKinds, Phases
  <2>2. Items[Top.next].name \in Name
    <3>1. Items \in Seq(Use)
      BY <1>0, <1>3, <2>1, ItemTypes DEF FindModule, Running
    <3>2. Top.next <= Len(Items) /\ Len(Items) \in Nat
      BY <1>3, <3>1 DEF FindModule
    <3>3. Top.next \in 1 .. Len(Items)
      BY <2>1, <3>2
    <3>4. Items[Top.next] \in Use
      BY <3>1, <3>3
    <3> QED BY <3>4 DEF Use
  <2> DEFINE n == Items[Top.next].name
  <2>3. Find[n] \in File \cup {NoFile}
    BY <2>2, ImportAssumption
  <2>4. errors' \subseteq Errors
    BY <1>0, <1>3, <2>1, TopFrame DEF FindModule, ReportIf, Report, TypeOK
  <2>5. status' \in [Name -> Statuses] /\ nameOf' \in [File -> Name \cup {NoName}]
    BY <1>3, <2>2 DEF FindModule, Mark, TypeOK, Statuses
  <2>6. StackOK'
    <3>1. CASE NextImport
      BY <1>0, <2>1, <3>1, GoOK DEF NextImport
    <3>2. CASE Fresh(n) /\ stack' = Append(stack, NewFrame(Find[n], n))
      BY <1>0, <2>1, <2>2, <2>3, <3>2, PushOK DEF Fresh
    <3>3. CASE Go("take", Top.next)
      BY <1>0, <2>1, <3>3, GoOK
    <3> QED BY <1>3, <3>1, <3>2, <3>3 DEF FindModule
  <2> QED BY <1>3, <2>4, <2>5, <2>6 DEF FindModule, TypeOK, StackOK
<1>4. CASE TakeSymbols
  <2>1. /\ stack # <<>> /\ Top.next \in Nat \ {0} /\ Src.imports \in Seq(Use)
        /\ {"no_module", "no_symbol"} \subseteq ErrorKinds /\ "imports" \in Phases
    BY <1>0, <1>4, TopFrame DEF TakeSymbols, Running, Frame, Source, ErrorKinds, Phases
  <2>2. errors' \subseteq Errors
    BY <1>0, <1>4, <2>1, TopFrame DEF TakeSymbols, ReportIf, Report, TypeOK
  <2>3. StackOK'
    BY <1>0, <1>4, <2>1, GoOK DEF TakeSymbols, NextImport
  <2>4. domain' \in [File -> Domain]
    <3> DEFINE f == Find[Src.imports[Top.next].name]
               t == Taken(Src.imports[Top.next], f)
    <3>1. domain' = domain \/ domain' = [domain EXCEPT ![thisFile] = EnterBoth(@, t, f)]
      BY <1>4 DEF TakeSymbols
    <3>2. f \in File \cup {NoFile}
      <4>1. Top.next <= Len(Src.imports) /\ Len(Src.imports) \in Nat
        BY <1>4, <2>1 DEF TakeSymbols, CallersWait
      <4>2. Top.next \in 1 .. Len(Src.imports)
        BY <2>1, <4>1
      <4>3. Src.imports[Top.next] \in Use
        BY <2>1, <4>2
      <4>4. Src.imports[Top.next].name \in Name
        BY <4>3 DEF Use
      <4> QED BY <4>4, ImportAssumption
    <3> HIDE DEF f, t
    <3> QED BY <3>1, <3>2, EnterType DEF TypeOK
  <2> QED BY <1>4, <2>2, <2>3, <2>4 DEF TakeSymbols, TypeOK, StackOK, pkgVars
<1>5. CASE Register
  <2>1. /\ stack # <<>> /\ Top.next \in Nat \ {0} /\ Top.file \in File /\ Top.phase \in Phases
        /\ "clash" \in ErrorKinds
    BY <1>0, <1>5, TopFrame DEF Register, Frame, ErrorKinds
  <2>2. Items[Top.next] \in Decl
    <3>1. Items \in Seq(Decl) /\ Top.next <= Len(Items)
      BY <1>0, <1>5, <2>1, ItemTypes DEF Register
    <3> QED BY <2>1, <3>1
  <2>3. errors' \subseteq Errors
    BY <1>0, <1>5, <2>1, TopFrame DEF Register, ReportIf, Report, TypeOK
  <2>4. StackOK'
    BY <1>0, <1>5, <2>1, GoOK DEF Register
  <2>5. domain' \in [File -> Domain]
    <3> DEFINE d == Items[Top.next]
               own == [domain EXCEPT ![Top.file] = Own(@, d)]
    <3>1. domain' = domain \/ domain' = [own EXCEPT ![thisFile] = EnterBoth(own[thisFile], {d}, Top.file)]
      BY <1>5 DEF Register
    <3>2. own \in [File -> Domain]
      BY <2>2, OwnType DEF TypeOK
    <3> HIDE DEF own, d
    <3> QED BY <2>1, <3>1, <3>2, EnterType DEF TypeOK
  <2> QED BY <1>5, <2>3, <2>4, <2>5 DEF Register, TypeOK, StackOK, pkgVars
<1>6. CASE EndScan
  <2>1. stack # <<>> /\ Following[Top.phase] \in Phases
    BY <1>6 DEF EndScan, Following, Scans, Phases
  <2>2. StackOK'
    BY <1>0, <1>6, <2>1, AbandonOK, GoOK DEF EndScan
  <2>3. errors' = errors
    BY <1>6 DEF EndScan, Report
  <2> QED BY <1>6, <2>2, <2>3 DEF EndScan, TypeOK, StackOK, pkgVars
<1>7. CASE Analyse
  <2>1. stack # <<>> /\ Top.file \in File /\ "undefined" \in ErrorKinds /\ "generate" \in Phases
    BY <1>0, <1>7, TopFrame DEF Analyse, Running, Frame, ErrorKinds, Phases
  <2>2. errors' \subseteq Errors
    BY <1>0, <1>7, <2>1, TopFrame DEF Analyse, ReportIf, Report, TypeOK
  <2>3. StackOK'
    BY <1>0, <1>7, <2>1, AbandonOK, GoOK DEF Analyse
  <2> QED BY <1>7, <2>1, <2>2, <2>3 DEF Analyse, TypeOK, StackOK, pkgVars
<1>8. CASE Generate
  <2>1. /\ stack # <<>> /\ Top.file \in File /\ "take" \in Phases
        /\ Len(stack) > 1 => Caller \in Frame /\ Caller.next \in Nat \ {0}
                              /\ Caller.file \in File /\ Top.name \in Name
    BY <1>0, <1>8, TopFrame DEF Generate, Running, Frame, Phases
  <2>1a. Len(stack) # 1 => Len(stack) > 1
    <3>1. Len(stack) \in Nat \ {0}
      BY <1>0, <2>1, TopFrame
    <3> QED BY ONLY <3>1
  <2>2. StackOK'
    <3>1. Return("take", Caller.next)
      BY <1>8 DEF Generate
    <3> QED BY <1>0, <2>1, <3>1, ReturnOK
  <2>3. mir' \in Seq([file : File, name : Name \cup {NoName}])
    BY <1>8, <2>1 DEF Generate, TypeOK
  <2>4. status' \in [Name -> Statuses]
    BY <1>8, <2>1, <2>1a DEF Generate, TypeOK, Statuses
  <2>5. thisFile' \in File \cup {NoFile}
    BY <1>8, <2>1, <2>1a DEF Generate, BackToCaller, TypeOK
  <2> QED BY <1>8, <2>2, <2>3, <2>4, <2>5 DEF Generate, TypeOK, StackOK
<1>9. CASE UNCHANGED vars
  BY <1>9 DEF vars, pkgVars, TypeOK
<1> QED BY <1>1, <1>2, <1>3, <1>4, <1>5, <1>6, <1>7, <1>8, <1>9 DEF Next

(* The callers keep waiting at their use statements. *)
LEMMA WaitInit == Init => CallersWait
<1> SUFFICES ASSUME Init PROVE CallersWait
  OBVIOUS
<1>1. stack = <<NewFrame(Root, NoName)>>
  BY DEF Init
<1>2. Nested
  BY <1>1 DEF Nested
<1>3. Top.phase # "take"
  BY <1>1 DEF Top, NewFrame
<1> QED BY <1>2, <1>3 DEF CallersWait, Running

LEMMA WaitStep ==
  ASSUME TypeOK, CallersWait, [Next]_vars
  PROVE  CallersWait'
<1>0. StackOK /\ program \in [File -> Source] /\ Nested
  BY DEF TypeOK, StackOK, CallersWait
<1>p. {"run", "imports", "take", "sema", "generate", "enums", "structs", "funcs"} \subseteq Phases
  BY DEF Phases, Scans
<1>a. ASSUME stack # <<>>, program' = program, Abandon
      PROVE  CallersWait'
  BY <1>0, <1>a, AbandonOK DEF CallersWait, Running
<1>g. ASSUME stack # <<>>, program' = program,
             NEW q \in Phases, q # "take", NEW k \in Nat \ {0}, Go(q, k)
      PROVE  CallersWait'
  <2>1. Nested' /\ Top' = Resume(Top, q, k)
    BY <1>0, <1>g, GoOK
  <2>2. Top \in Frame
    BY <1>0, <1>g, TopFrame
  <2>3. Top'.phase = q
    BY <1>g, <2>1, <2>2, ResumeFrame
  <2> QED BY <1>g, <2>1, <2>3 DEF CallersWait, Running
<1>1. CASE Parse
  BY <1>1, <1>p, <1>a, <1>g DEF Parse, Running
<1>2. CASE BeginRun
  BY <1>2, <1>p, <1>g DEF BeginRun, Running
<1>4. CASE TakeSymbols
  <2>1. stack # <<>> /\ Top.next + 1 \in Nat \ {0}
    BY <1>0, <1>4, TopFrame DEF TakeSymbols, Running, Frame
  <2> QED BY <1>4, <1>p, <2>1, <1>g DEF TakeSymbols, NextImport
<1>5. CASE Register
  <2>1. stack # <<>> /\ Top.next + 1 \in Nat \ {0} /\ Top.phase \in Phases /\ Top.phase # "take"
    BY <1>0, <1>5, TopFrame DEF Register, Frame, Scans
  <2> QED BY <1>5, <2>1, <1>g DEF Register
<1>6. CASE EndScan
  <2>1. stack # <<>> /\ Following[Top.phase] \in Phases /\ Following[Top.phase] # "take"
    BY <1>6, <1>p DEF EndScan, Following, Scans
  <2> QED BY <1>6, <2>1, <1>a, <1>g DEF EndScan
<1>7. CASE Analyse
  BY <1>7, <1>p, <1>a, <1>g DEF Analyse, Running
<1>3. CASE FindModule
  <2>1. /\ stack # <<>> /\ Top.next \in Nat \ {0} /\ Top.phase = "imports" /\ Top \in Frame
        /\ Items = Src.imports /\ Items \in Seq(Use) /\ Top.next <= Len(Items)
        /\ program' = program
    BY <1>0, <1>3, TopFrame, ItemTypes DEF FindModule, Running, Frame, Items
  <2> DEFINE n == Items[Top.next].name
  <2>2. CASE NextImport
    <3>1. Top.next + 1 \in Nat \ {0}
      BY <2>1
    <3> QED BY <1>p, <2>1, <2>2, <3>1, <1>g DEF NextImport
  <2>3. CASE Go("take", Top.next)
    <3>1. Nested' /\ Top' = Resume(Top, "take", Top.next)
      BY <1>0, <1>p, <2>1, <2>3, GoOK
    <3>2. Top'.file = Top.file /\ Top'.next = Top.next
      BY <2>1, <3>1 DEF Resume, Frame
    <3>3. Src' = Src
      BY <2>1, <3>2 DEF Src
    <3> QED BY <2>1, <3>1, <3>2, <3>3 DEF CallersWait
  <2>4. CASE Fresh(n) /\ stack' = Append(stack, NewFrame(Find[n], n))
    <3>1. n \in Name /\ Find[n] \in File
      <4>1. Top.next \in Nat \ {0} /\ Top.next <= Len(Items) /\ Len(Items) \in Nat
        BY <2>1
      <4>2. Top.next \in 1 .. Len(Items)
        BY <4>1
      <4>3. Items[Top.next] \in Use
        BY <2>1, <4>2
      <4>4. n \in Name
        BY <4>3 DEF Use
      <4> QED BY <2>4, <4>4, ImportAssumption DEF Fresh
    <3> DEFINE fr == NewFrame(Find[n], n)
    <3>2. /\ StackOK' /\ Top' = fr /\ Len(stack') = Len(stack) + 1
          /\ \A i \in 1 .. Len(stack) : stack'[i] = stack[i]
      BY <1>0, <2>1, <2>4, <3>1, PushOK
    <3>3. fr.name = n /\ fr.file = Find[n] /\ fr.phase = "parse"
      BY DEF NewFrame
    <3>4. /\ Len(stack) \in Nat /\ DOMAIN stack = 1 .. Len(stack)
          /\ DOMAIN stack' = 1 .. Len(stack) + 1
      BY <1>0, <3>2 DEF StackOK
    <3>5. ASSUME NEW i \in DOMAIN stack', NEW j \in DOMAIN stack', j = i + 1
          PROVE  Waits(i, j)'
      <4>1. CASE j = Len(stack) + 1
        <5>1. i = Len(stack) /\ i \in 1 .. Len(stack)
          BY <3>4, <3>5, <4>1
        <5>2. stack'[i] = Top /\ stack'[j] = fr
          BY <3>2, <4>1, <5>1 DEF Top
        <5> HIDE DEF fr
        <5> QED BY <2>1, <3>3, <5>2 DEF Waits, Src
      <4>2. CASE j # Len(stack) + 1
        <5>1. i \in 1 .. Len(stack) /\ j \in 1 .. Len(stack)
          BY <3>4, <3>5, <4>2
        <5>2. Waits(i, j)
          BY <1>0, <3>4, <3>5, <5>1 DEF Nested
        <5> QED BY <2>1, <3>2, <5>1, <5>2 DEF Waits
      <4> QED BY <4>1, <4>2
    <3>6. Nested'
      BY <3>5 DEF Nested
    <3> QED BY <3>2, <3>3, <3>6 DEF CallersWait, Running
  <2> QED BY <1>3, <2>2, <2>3, <2>4 DEF FindModule
<1>8. CASE Generate
  <2>1. stack # <<>> /\ program' = program /\ Return("take", Caller.next)
    BY <1>8 DEF Generate, Running
  <2>2. Len(stack) \in Nat \ {0} /\ (Len(stack) > 1 => Caller \in Frame /\ Caller.next \in Nat \ {0})
    BY <1>0, <2>1, TopFrame DEF Frame
  <2>3. /\ Nested'
        /\ stack' # <<>> => Len(stack) > 1 /\ Top' = Resume(Caller, "take", Caller.next)
    BY <1>0, <1>p, <2>1, <2>2, ReturnOK
  <2>4. ASSUME Len(stack) > 1 PROVE Caller.next <= Len(program[Caller.file].imports)
    <3>1. Len(stack) - 1 \in DOMAIN stack /\ Len(stack) \in DOMAIN stack
          /\ Len(stack) = (Len(stack) - 1) + 1
      BY <1>0, <2>2, <2>4 DEF StackOK
    <3> QED BY <1>0, <3>1 DEF Nested, Waits, Caller
  <2>5. ASSUME stack' # <<>> PROVE Top'.next <= Len(Src'.imports)
    <3>1. Top'.file = Caller.file /\ Top'.next = Caller.next
      BY <2>2, <2>3, <2>5 DEF Resume, Frame
    <3>2. Src' = program[Caller.file]
      BY <2>1, <3>1 DEF Src
    <3> QED BY <2>3, <2>4, <2>5, <3>1, <3>2
  <2> QED BY <2>3, <2>5 DEF CallersWait, Running
<1>9. CASE UNCHANGED vars
  BY <1>9 DEF vars, CallersWait, Nested, Waits, Running, Top, Src
<1> QED BY <1>1, <1>2, <1>3, <1>4, <1>5, <1>6, <1>7, <1>8, <1>9 DEF Next

(* All variables of the import model keep their types. *)
THEOREM ImportTypesCorrect == Spec => [](TypeOK /\ CallersWait)
<1>1. Init => TypeOK /\ CallersWait
  BY TypeInit, WaitInit
<1>2. TypeOK /\ CallersWait /\ [Next]_vars => TypeOK' /\ CallersWait'
  BY TypeStep, WaitStep
<1> QED BY <1>1, <1>2, PTL DEF Spec
-----------------------------------------------------------------------------
(* What the moves of the stack leave of the files and names of its frames. *)
LEMMA GoFrames ==
  ASSUME StackOK, stack # <<>>, NEW p \in Phases, NEW k \in Nat \ {0}, Go(p, k)
  PROVE  /\ Len(stack') = Len(stack)
         /\ \A i \in 1 .. Len(stack) : stack'[i].name = stack[i].name
         /\ Top'.phase = p /\ Top'.file = Top.file
<1>1. /\ stack' \in Seq(Frame) /\ Len(stack') = Len(stack)
      /\ \A i \in 1 .. Len(stack) :
           stack'[i] = IF i = Len(stack) THEN Resume(Top, p, k) ELSE stack[i]
  BY GoStack DEF StackOK
<1>2. Top \in Frame /\ Top = stack[Len(stack)]
  BY DEF StackOK, Top
<1>3. Resume(Top, p, k).name = Top.name
  BY <1>2, ResumeFrame
<1>4. \A i \in 1 .. Len(stack) : stack'[i].name = stack[i].name
  BY <1>1, <1>2, <1>3
<1>5. Top' = Resume(Top, p, k)
  BY GoOK
<1>6. Top'.phase = p /\ Top'.file = Top.file
  BY <1>2, <1>5, ResumeFrame
<1> QED BY <1>1, <1>4, <1>6

LEMMA ReturnFrames ==
  ASSUME StackOK, stack # <<>>, NEW p \in Phases, NEW k, Return(p, k),
         Len(stack) > 1 => k \in Nat \ {0}
  PROVE  /\ Len(stack') = Len(stack) - 1
         /\ \A i \in 1 .. Len(stack) - 1 : stack'[i].name = stack[i].name
         /\ stack' # <<>> => Len(stack) > 1 /\ Top'.phase = p /\ Top'.file = Caller.file
<1>0. Len(stack) \in Nat \ {0}
  BY DEF StackOK
<1>1. /\ Len(stack') = Len(stack) - 1
      /\ \A i \in 1 .. Len(stack) - 1 :
           stack'[i] = IF i = Len(stack) - 1 THEN Resume(Caller, p, k) ELSE stack[i]
  BY ReturnStack DEF StackOK
<1>2. ASSUME Len(stack) > 1
      PROVE  /\ Resume(Caller, p, k).name = Caller.name
             /\ Resume(Caller, p, k).file = Caller.file
             /\ Resume(Caller, p, k).phase = p
  <2>1. Caller \in Frame
    BY <1>0, <1>2 DEF Caller, StackOK
  <2> QED BY <1>2, <2>1, ResumeFrame
<1>3. ASSUME NEW i \in 1 .. Len(stack) - 1
      PROVE  stack'[i].name = stack[i].name
  <2>1. CASE i = Len(stack) - 1
    <3>1. Len(stack) > 1
      BY <1>0
    <3>2. stack'[i] = Resume(Caller, p, k) /\ Caller = stack[i]
      BY <1>1, <2>1 DEF Caller
    <3> QED BY <1>2, <3>1, <3>2
  <2> QED BY <1>1, <2>1
<1>4. ASSUME stack' # <<>>
      PROVE  Len(stack) > 1 /\ Top'.phase = p /\ Top'.file = Caller.file
  <2>1. Len(stack) > 1 /\ Top' = Resume(Caller, p, k)
    BY <1>4, ReturnOK
  <2> QED BY <1>2, <2>1
<1> QED BY <1>1, <1>3, <1>4

LEMMA AbandonFrames ==
  ASSUME program \in [File -> Source], StackOK, stack # <<>>, Abandon
  PROVE  /\ Len(stack') = Len(stack) - 1
         /\ \A i \in 1 .. Len(stack) - 1 : stack'[i].name = stack[i].name
<1>1. Len(stack) > 1 => Caller \in Frame
  BY TopFrame
<1>2. Len(stack) > 1 => Caller.next + 1 \in Nat \ {0}
  BY <1>1 DEF Frame
<1>3. Return("imports", Caller.next + 1) /\ "imports" \in Phases
  BY DEF Abandon, Phases
<1> QED BY <1>2, <1>3, ReturnFrames

(* The tables written are those of the file being scanned: a compilation in
   between makes its caller's file the current one again, or leaves an error. *)
LEMMA WritesInit == Init => WritesOwnTables
<1> SUFFICES ASSUME Init PROVE WritesOwnTables
  OBVIOUS
<1>1. Top = NewFrame(Root, NoName)
  BY DEF Init, Top
<1> QED BY <1>1 DEF NewFrame, WritesOwnTables

LEMMA WritesStep ==
  ASSUME TypeOK, WritesOwnTables, [Next]_vars
  PROVE  WritesOwnTables'
<1>0. StackOK /\ program \in [File -> Source]
  BY DEF TypeOK, StackOK
<1>p. {"run", "imports", "take", "sema", "generate", "enums", "structs", "funcs"} \subseteq Phases
  BY DEF Phases, Scans
<1> SUFFICES ASSUME errors' = {}, stack' # <<>>, Top'.phase \notin {"parse", "run"}
             PROVE  thisFile' = Top'.file
  BY DEF WritesOwnTables
<1>g. ASSUME stack # <<>>, Top.phase \notin {"parse", "run"}, errors = {}, thisFile' = thisFile,
             NEW q \in Phases, NEW k \in Nat \ {0}, Go(q, k)
      PROVE  thisFile' = Top'.file
  <2>1. Top'.file = Top.file
    BY <1>0, <1>g, GoFrames
  <2> QED BY <1>g, <2>1 DEF WritesOwnTables
<1>e. ASSUME NEW es, Report(es)
      PROVE  errors = {}
  BY <1>e DEF Report
<1>1. CASE Parse
  <2>1. stack # <<>> /\ Go("run", 1)
    BY <1>1 DEF Parse, Running, AnyErrors
  <2>2. Top'.phase = "run"
    BY <1>0, <1>p, <2>1, GoFrames
  <2> QED BY <2>2
<1>2. CASE BeginRun
  <2>1. stack # <<>> /\ Go("imports", 1) /\ thisFile' = Top.file
    BY <1>2 DEF BeginRun, Running
  <2> QED BY <1>0, <1>p, <2>1, GoFrames
<1>3. CASE FindModule
  <2>1. /\ stack # <<>> /\ Top.phase = "imports" /\ Top.next \in Nat \ {0}
        /\ thisFile' = thisFile /\ errors = {}
    BY <1>0, <1>3, <1>e, TopFrame DEF FindModule, Running, Frame, ReportIf
  <2> DEFINE n == Items[Top.next].name
  <2>2. CASE NextImport
    <3>1. Top.next + 1 \in Nat \ {0}
      BY <2>1
    <3> QED BY <1>p, <2>1, <2>2, <3>1, <1>g DEF NextImport
  <2>3. CASE Go("take", Top.next)
    BY <1>p, <2>1, <2>3, <1>g
  <2>4. CASE stack' = Append(stack, NewFrame(Find[n], n))
    <3>1. Top' = NewFrame(Find[n], n)
      <4>1. stack \in Seq(Frame)
        BY <1>0 DEF StackOK
      <4> DEFINE fr == NewFrame(Find[n], n)
      <4> HIDE DEF fr
      <4>2. Len(stack') = Len(stack) + 1 /\ stack'[Len(stack) + 1] = fr
        BY <2>4, <4>1 DEF fr
      <4> QED BY <4>2 DEF Top, fr
    <3> QED BY <3>1 DEF NewFrame
  <2> QED BY <1>3, <2>2, <2>3, <2>4 DEF FindModule
<1>4. CASE TakeSymbols
  <2>1. /\ stack # <<>> /\ Top.phase = "take" /\ Top.next + 1 \in Nat \ {0}
        /\ thisFile' = thisFile /\ Go("imports", Top.next + 1)
    BY <1>0, <1>4, TopFrame DEF TakeSymbols, Running, Frame, NextImport
  <2>2. errors = {}
    BY <1>4, <1>e DEF TakeSymbols, ReportIf
  <2> QED BY <1>p, <2>1, <2>2, <1>g
<1>5. CASE Register
  <2>1. /\ stack # <<>> /\ Top.phase \in Scans /\ Top.phase \in Phases /\ Top.next + 1 \in Nat \ {0}
        /\ thisFile' = thisFile /\ Go(Top.phase, Top.next + 1)
    BY <1>0, <1>5, TopFrame DEF Register, Frame
  <2>2. errors = {} /\ Top.phase \notin {"parse", "run"}
    BY <1>5, <2>1, <1>e DEF Register, ReportIf, Scans
  <2> QED BY <2>1, <2>2, <1>g
<1>6. CASE EndScan
  <2>1. /\ stack # <<>> /\ Following[Top.phase] \in Phases /\ Top.phase \notin {"parse", "run"}
        /\ thisFile' = thisFile /\ errors = {}
    BY <1>6, <1>p, <1>e DEF EndScan, Following, Scans
  <2>2. Go(Following[Top.phase], 1)
    BY <1>6 DEF EndScan, AnyErrors
  <2> QED BY <2>1, <2>2, <1>g
<1>7. CASE Analyse
  <2>1. stack # <<>> /\ Go("generate", 1) /\ thisFile' = Top.file
    BY <1>7 DEF Analyse, Running, AnyErrors
  <2> QED BY <1>0, <1>p, <2>1, GoFrames
<1>8. CASE Generate
  <2>1. stack # <<>> /\ Return("take", Caller.next) /\ thisFile' = BackToCaller
    BY <1>8 DEF Generate, Running
  <2>2. Len(stack) > 1 => Caller.next \in Nat \ {0}
    BY <1>0, <2>1, TopFrame DEF Frame
  <2>3. Len(stack) > 1 /\ Top'.file = Caller.file
    <3>1. "take" \in Phases /\ Return("take", Caller.next) /\ stack # <<>>
      BY <1>p, <2>1
    <3>2. stack' # <<>> => Len(stack) > 1 /\ Top'.file = Caller.file
      BY ONLY <1>0, <2>2, <3>1, ReturnFrames
    <3> QED BY <3>2
  <2>4. Len(stack) # 1
    <3> SUFFICES ASSUME Len(stack) = 1 PROVE FALSE
      OBVIOUS
    <3>1. 1 > 1
      BY <2>3
    <3> QED BY ONLY <3>1
  <2>5. thisFile' = Caller.file
    BY <2>1, <2>4 DEF BackToCaller
  <2> QED BY <2>3, <2>5
<1>9. CASE UNCHANGED vars
  BY <1>9 DEF vars, WritesOwnTables, Top
<1> QED BY <1>1, <1>2, <1>3, <1>4, <1>5, <1>6, <1>7, <1>8, <1>9 DEF Next

(* While nothing has failed, symbols enter the tables of the file that is
   being scanned, whatever was compiled in between (regist.colgm:320-322). *)
THEOREM TablesOfScannedFile == Spec => []WritesOwnTables
<1>1. Init => WritesOwnTables
  BY WritesInit
<1>2. TypeOK /\ WritesOwnTables /\ [Next]_vars => WritesOwnTables'
  BY WritesStep
<1> QED BY <1>1, <1>2, ImportTypesCorrect, PTL DEF Spec

(* A module is marked before its frame is pushed, so that no frame is pushed
   for a module that has one. *)
LEMMA ReentryInit == Init => NoReentry
<1> SUFFICES ASSUME Init PROVE NoReentry
  OBVIOUS
<1>1. DOMAIN stack = {1}
  BY DEF Init
<1>2. \A n \in Name : status[n] = "not_exist"
  BY DEF Init
<1> QED BY <1>1, <1>2 DEF NoReentry

LEMMA ReentryStep ==
  ASSUME TypeOK, NoReentry, [Next]_vars
  PROVE  NoReentry'
<1>0. StackOK /\ program \in [File -> Source]
  BY DEF TypeOK, StackOK
<1>d. DOMAIN stack = 1 .. Len(stack) /\ Len(stack) \in Nat
  BY <1>0 DEF StackOK
<1>p. {"run", "imports", "take", "sema", "generate", "enums", "structs", "funcs"} \subseteq Phases
  BY DEF Phases, Scans
<1>e. ASSUME NEW es, Report(es), errors' = {}
      PROVE  errors = {}
  BY <1>e DEF Report
<1>g. ASSUME stack # <<>>, status' = status, NEW es, Report(es),
             NEW q \in Phases, NEW k \in Nat \ {0}, Go(q, k)
      PROVE  NoReentry'
  <2>1. Len(stack') = Len(stack) /\ \A i \in 1 .. Len(stack) : stack'[i].name = stack[i].name
    BY <1>0, <1>g, GoFrames
  <2>2. DOMAIN stack' = DOMAIN stack
    <3>1. StackOK'
      BY <1>0, <1>g, GoOK
    <3> QED BY <1>d, <2>1, <3>1 DEF StackOK
  <2> QED BY <1>d, <1>e, <1>g, <2>1, <2>2 DEF NoReentry
<1>a. ASSUME stack # <<>>, status' = status, errors' # {}, Abandon
      PROVE  NoReentry'
  <2>1. /\ Len(stack') = Len(stack) - 1
        /\ \A i \in 1 .. Len(stack) - 1 : stack'[i].name = stack[i].name
    BY <1>0, <1>a, AbandonFrames
  <2>2. DOMAIN stack' = 1 .. Len(stack) - 1 /\ DOMAIN stack' \subseteq DOMAIN stack
    <3>1. StackOK'
      BY <1>0, <1>a, AbandonOK
    <3> QED BY <1>d, <2>1, <3>1 DEF StackOK
  <2> QED BY <1>a, <2>1, <2>2 DEF NoReentry
<1>1. CASE Parse
  <2>1. stack # <<>> /\ status' = status /\ 1 \in Nat \ {0} /\ "run" \in Phases
    BY <1>1, <1>p DEF Parse, Running, pkgVars
  <2>2. CASE AnyErrors
    BY <1>1, <2>1, <2>2, <1>a DEF Parse, AnyErrors
  <2>3. CASE ~AnyErrors
    BY <1>1, <2>1, <2>3, <1>g DEF Parse, ReportIf
  <2> QED BY <2>2, <2>3
<1>2. CASE BeginRun
  <2>1. stack # <<>> /\ status' = status /\ Report({}) /\ "imports" \in Phases /\ Go("imports", 1)
    BY <1>2, <1>p DEF BeginRun, Running, pkgVars, Report
  <2> QED BY <2>1, <1>g
<1>3. CASE FindModule
  <2>1. /\ stack # <<>> /\ Top.phase = "imports" /\ Top.next \in Nat \ {0}
        /\ Items \in Seq(Use) /\ Top.next <= Len(Items)
    BY <1>0, <1>3, TopFrame, ItemTypes DEF FindModule, Running, Frame
  <2> DEFINE n == Items[Top.next].name
  <2>2. Report(IF Find[n] = NoFile THEN {Here("no_file")} ELSE {})
    BY <1>3 DEF FindModule, ReportIf
  <2>3. CASE NextImport /\ ~Fresh(n)
    <3>1. Top.next + 1 \in Nat \ {0} /\ "imports" \in Phases /\ Go("imports", Top.next + 1)
      BY <1>p, <2>1, <2>3 DEF NextImport
    <3>2. status' = status
      BY <1>3, <2>3 DEF FindModule
    <3> QED BY <2>1, <2>2, <3>1, <3>2, <1>g
  <2>4. CASE Go("take", Top.next) /\ ~Fresh(n)
    <3>1. "take" \in Phases /\ status' = status
      BY <1>p, <1>3, <2>4 DEF FindModule
    <3> QED BY <2>1, <2>2, <2>4, <3>1, <1>g
  <2>5. CASE Fresh(n) /\ stack' = Append(stack, NewFrame(Find[n], n))
    <3>1. n \in Name /\ Find[n] \in File
      <4>1. Top.next \in Nat \ {0} /\ Top.next <= Len(Items) /\ Len(Items) \in Nat
        BY <2>1
      <4>2. Top.next \in 1 .. Len(Items)
        BY <4>1
      <4>3. Items[Top.next] \in Use
        BY <2>1, <4>2
      <4>4. n \in Name
        BY <4>3 DEF Use
      <4> QED BY <2>5, <4>4, ImportAssumption DEF Fresh
    <3>2. /\ StackOK' /\ Len(stack') = Len(stack) + 1
          /\ Top' = NewFrame(Find[n], n)
          /\ \A i \in 1 .. Len(stack) : stack'[i] = stack[i]
      BY <1>0, <2>1, <2>5, <3>1, PushOK
    <3>3. DOMAIN stack' = 1 .. Len(stack) + 1 /\ stack'[Len(stack) + 1].name = n
      BY <3>2 DEF StackOK, Top, NewFrame
    <3>4. /\ status[n] = "not_exist" /\ status' = [status EXCEPT ![n] = "analysing"]
          /\ status \in [Name -> Statuses]
      BY <1>3, <2>5 DEF FindModule, Fresh, Mark, TypeOK
    <3>5. \A i \in 1 .. Len(stack) : stack[i].name # n
      <4>1. \A i \in 1 .. Len(stack) : i = 1 => stack[i].name = NoName
        BY <1>0, <1>d DEF StackOK
      <4>2. \A i \in 1 .. Len(stack) : i > 1 => status[stack[i].name] = "analysing"
        BY <1>d DEF NoReentry
      <4>3. \A i \in 1 .. Len(stack) : i = 1 \/ i > 1
        BY <1>d
      <4> QED BY <3>1, <3>4, <4>1, <4>2, <4>3, ImportAssumption
    <3> HIDE DEF n
    <3>6. \A i, j \in DOMAIN stack' : stack'[i].name = stack'[j].name => i = j
      <4> SUFFICES ASSUME NEW i \in DOMAIN stack', NEW j \in DOMAIN stack',
                          stack'[i].name = stack'[j].name
                   PROVE  i = j
        OBVIOUS
      <4>1. \A k \in DOMAIN stack' : k = Len(stack) + 1 \/ k \in 1 .. Len(stack)
        BY <1>d, <3>3
      <4> QED BY <1>d, <3>2, <3>3, <3>5, <4>1 DEF NoReentry
    <3>7. \A i \in DOMAIN stack' : i > 1 => status'[stack'[i].name] = "analysing"
      <4> SUFFICES ASSUME NEW i \in DOMAIN stack', i > 1
                   PROVE  status'[stack'[i].name] = "analysing"
        OBVIOUS
      <4>1. CASE i = Len(stack) + 1
        BY <3>1, <3>3, <3>4, <4>1
      <4>2. CASE i \in 1 .. Len(stack)
        <5>1. stack'[i].name = stack[i].name /\ stack[i].name # n
          BY <3>2, <3>5, <4>2
        <5>2. status[stack[i].name] = "analysing"
          BY <1>d, <4>2 DEF NoReentry
        <5> QED BY <3>4, <5>1, <5>2
      <4> QED BY <1>d, <3>3, <4>1, <4>2
    <3>8. errors' = {} => \A m \in Name : status'[m] = "analysing" =>
                            \E i \in DOMAIN stack' : stack'[i].name = m
      <4> SUFFICES ASSUME errors' = {}, NEW m \in Name, status'[m] = "analysing"
                   PROVE  \E i \in DOMAIN stack' : stack'[i].name = m
        OBVIOUS
      <4>1. CASE m = n
        <5>1. Len(stack) + 1 \in DOMAIN stack'
          BY <1>d, <3>3
        <5> QED BY <3>3, <4>1, <5>1
      <4>2. CASE m # n
        <5>1. errors = {} /\ status[m] = "analysing"
          BY <2>2, <3>4, <4>2, <1>e
        <5>2. PICK i \in DOMAIN stack : stack[i].name = m
          BY <5>1 DEF NoReentry
        <5>3. i \in DOMAIN stack' /\ stack'[i].name = m
          BY <1>d, <3>2, <3>3, <5>2
        <5> QED BY <5>3
      <4> QED BY <4>1, <4>2
    <3> QED BY <3>6, <3>7, <3>8 DEF NoReentry
  <2>6. \/ NextImport /\ ~Fresh(n)
        \/ Go("take", Top.next) /\ ~Fresh(n)
        \/ Fresh(n) /\ stack' = Append(stack, NewFrame(Find[n], n))
    BY <1>3 DEF FindModule, Fresh
  <2> QED BY <2>3, <2>4, <2>5, <2>6
<1>4. CASE TakeSymbols
  <2>1. /\ stack # <<>> /\ Top.next + 1 \in Nat \ {0} /\ "imports" \in Phases
        /\ status' = status /\ Go("imports", Top.next + 1)
    BY <1>0, <1>4, <1>p, TopFrame DEF TakeSymbols, Running, Frame, NextImport, pkgVars
  <2>2. \E es : Report(es)
    BY <1>4 DEF TakeSymbols, ReportIf
  <2> QED BY <2>1, <2>2, <1>g
<1>5. CASE Register
  <2>1. /\ stack # <<>> /\ Top.next + 1 \in Nat \ {0} /\ Top.phase \in Phases
        /\ status' = status /\ Go(Top.phase, Top.next + 1)
    BY <1>0, <1>5, TopFrame DEF Register, Frame, pkgVars
  <2>2. \E es : Report(es)
    BY <1>5 DEF Register, ReportIf
  <2> QED BY <2>1, <2>2, <1>g
<1>6. CASE EndScan
  <2>1. /\ stack # <<>> /\ Following[Top.phase] \in Phases /\ 1 \in Nat \ {0}
        /\ status' = status /\ Report({})
    BY <1>6, <1>p DEF EndScan, Following, Scans, pkgVars
  <2>2. \/ Abandon /\ errors' # {}
        \/ Go(Following[Top.phase], 1)
    BY <1>6 DEF EndScan, AnyErrors
  <2>3. CASE Abandon /\ errors' # {}
    BY <2>1, <2>3, <1>a
  <2>4. CASE Go(Following[Top.phase], 1)
    BY <2>1, <2>4, <1>g
  <2> QED BY <2>2, <2>3, <2>4
<1>7. CASE Analyse
  <2>1. stack # <<>> /\ status' = status /\ 1 \in Nat \ {0} /\ "generate" \in Phases
    BY <1>7, <1>p DEF Analyse, Running, pkgVars
  <2>2. CASE AnyErrors
    BY <1>7, <2>1, <2>2, <1>a DEF Analyse, AnyErrors
  <2>3. CASE ~AnyErrors
    BY <1>7, <2>1, <2>3, <1>g DEF Analyse, ReportIf
  <2> QED BY <2>2, <2>3
<1>8. CASE Generate
  <2>1. /\ stack # <<>> /\ Return("take", Caller.next) /\ "take" \in Phases /\ errors' = errors
        /\ Len(stack) > 1 => Caller.next \in Nat \ {0}
    BY <1>0, <1>8, <1>p, TopFrame DEF Generate, Running, Frame
  <2>2. /\ Len(stack') = Len(stack) - 1
        /\ \A i \in 1 .. Len(stack) - 1 : stack'[i].name = stack[i].name
    BY <1>0, <2>1, ReturnFrames
  <2>3. DOMAIN stack' = 1 .. Len(stack) - 1
    <3>1. StackOK'
      BY <1>0, <2>1, ReturnOK
    <3> QED BY <1>d, <2>2, <3>1 DEF StackOK
  <2>4. Len(stack) >= 1 /\ Top = stack[Len(stack)]
    BY <1>d, <2>1, <1>0 DEF StackOK, Top
  <2>5. \A i \in DOMAIN stack' : i \in DOMAIN stack /\ stack'[i].name # Top.name
    <3> SUFFICES ASSUME NEW i \in DOMAIN stack'
                 PROVE  i \in DOMAIN stack /\ stack'[i].name # Top.name
      OBVIOUS
    <3>1. i \in DOMAIN stack /\ Len(stack) \in DOMAIN stack /\ i # Len(stack)
      BY <1>d, <2>3, <2>4
    <3> QED BY <2>2, <2>3, <2>4, <3>1 DEF NoReentry
  <2>6. \A n \in Name : status'[n] = IF Len(stack) > 1 /\ n = Top.name THEN "analysed" ELSE status[n]
    <3>1. Len(stack) = 1 \/ Len(stack) > 1
      BY <1>d, <2>4
    <3> QED BY <1>8, <3>1 DEF Generate, TypeOK
  <2>7. \A i, j \in DOMAIN stack' : stack'[i].name = stack'[j].name => i = j
    BY <2>2, <2>3, <2>5 DEF NoReentry
  <2>8. \A i \in DOMAIN stack' : i > 1 => status'[stack'[i].name] = "analysing"
    <3> SUFFICES ASSUME NEW i \in DOMAIN stack', i > 1
                 PROVE  status'[stack'[i].name] = "analysing"
      OBVIOUS
    <3>1. i \in DOMAIN stack /\ stack'[i].name = stack[i].name /\ stack[i].name # Top.name
      BY <2>2, <2>3, <2>5
    <3>2. status[stack[i].name] = "analysing"
      BY <3>1 DEF NoReentry
    <3>3. stack[i].name \in Name
      <4>1. stack[i] \in Frame /\ stack[i].name # NoName
        BY <1>0, <1>d, <3>1 DEF StackOK
      <4> QED BY <4>1 DEF Frame
    <3> QED BY <2>6, <3>1, <3>2, <3>3
  <2>9. errors' = {} => \A n \in Name : status'[n] = "analysing" =>
                          \E i \in DOMAIN stack' : stack'[i].name = n
    <3> SUFFICES ASSUME errors' = {}, NEW n \in Name, status'[n] = "analysing"
                 PROVE  \E i \in DOMAIN stack' : stack'[i].name = n
      OBVIOUS
    <3>1. status[n] = "analysing" /\ ~(Len(stack) > 1 /\ n = Top.name)
      BY <2>6
    <3>2. PICK i \in DOMAIN stack : stack[i].name = n
      BY <2>1, <3>1 DEF NoReentry
    <3>3. i # 1
      BY <1>0, <3>2, ImportAssumption DEF StackOK
    <3>4. i # Len(stack)
      BY <1>d, <2>4, <3>1, <3>2, <3>3
    <3>5. i \in 1 .. Len(stack) - 1
      BY <1>d, <3>2, <3>4
    <3> QED BY <2>2, <2>3, <3>2, <3>5
  <2> QED BY <2>7, <2>8, <2>9 DEF NoReentry
<1>9. CASE UNCHANGED vars
  BY <1>9 DEF vars, NoReentry
<1> QED BY <1>1, <1>2, <1>3, <1>4, <1>5, <1>6, <1>7, <1>8, <1>9 DEF Next

(* The recursion of compile_module never enters a module it is in the middle
   of, in whatever circles the files import one another (regist.colgm:380). *)
THEOREM NoModuleInItself == Spec => []NoReentry
<1>1. Init => NoReentry
  BY ReentryInit
<1>2. TypeOK /\ NoReentry /\ [Next]_vars => NoReentry'
  BY ReentryStep
<1> QED BY <1>1, <1>2, ImportTypesCorrect, PTL DEF Spec
-----------------------------------------------------------------------------
(* Analyse hands a file over to Generate with an empty report only. *)
GeneratesCleanly == Running("generate") => errors = {}

LEMMA CleanStep ==
  ASSUME TypeOK, GeneratesCleanly, [Next]_vars
  PROVE  GeneratesCleanly'
<1>0. StackOK /\ program \in [File -> Source]
  BY DEF TypeOK, StackOK
<1>p. {"run", "imports", "take", "enums", "structs", "funcs", "sema"} \subseteq Phases
  BY DEF Phases, Scans
<1>n. stack # <<>> => Top.next \in Nat \ {0} /\ Top.next + 1 \in Nat \ {0} /\ Top.phase \in Phases
  BY <1>0, TopFrame DEF Frame
<1> SUFFICES ASSUME stack' # <<>>, Top'.phase = "generate" PROVE errors' = {}
  BY DEF GeneratesCleanly, Running
<1>g. ASSUME stack # <<>>, NEW q \in Phases, q # "generate", NEW k \in Nat \ {0}, Go(q, k)
      PROVE  FALSE
  BY <1>0, <1>g, GoFrames
<1>a. ASSUME stack # <<>>, Abandon PROVE FALSE
  BY <1>0, <1>a, AbandonOK
<1>1. CASE Parse
  BY <1>1, <1>p, <1>g, <1>a DEF Parse, Running
<1>2. CASE BeginRun
  BY <1>2, <1>p, <1>g DEF BeginRun, Running
<1>3. CASE FindModule
  <2> DEFINE n == Items[Top.next].name
  <2>1. stack # <<>>
    BY <1>3 DEF FindModule, Running
  <2>2. CASE NextImport
    BY <1>p, <1>n, <2>1, <2>2, <1>g DEF NextImport
  <2>3. CASE Go("take", Top.next)
    BY <1>p, <1>n, <2>1, <2>3, <1>g
  <2>4. CASE stack' = Append(stack, NewFrame(Find[n], n))
    <3> DEFINE fr == NewFrame(Find[n], n)
    <3>1. fr.phase = "parse"
      BY DEF NewFrame
    <3> HIDE DEF fr
    <3>2. stack \in Seq(Frame) /\ stack' = Append(stack, fr)
      BY <1>0, <2>4 DEF StackOK, fr
    <3>3. Top' = fr
      BY <3>2 DEF Top
    <3> QED BY <3>1, <3>3
  <2> QED BY <1>3, <2>2, <2>3, <2>4 DEF FindModule
<1>4. CASE TakeSymbols
  BY <1>4, <1>p, <1>n, <1>g DEF TakeSymbols, Running, NextImport
<1>5. CASE Register
  <2>1. stack # <<>> /\ Top.phase # "generate" /\ Go(Top.phase, Top.next + 1)
    BY <1>5 DEF Register, Scans
  <2> QED BY <1>n, <2>1, <1>g
<1>6. CASE EndScan
  <2>1. stack # <<>> /\ Following[Top.phase] \in Phases /\ Following[Top.phase] # "generate"
    BY <1>6, <1>p DEF EndScan, Following, Scans
  <2> QED BY <1>6, <2>1, <1>g, <1>a DEF EndScan
<1>7. CASE Analyse
  BY <1>7, <1>a DEF Analyse, Running, AnyErrors
<1>8. CASE Generate
  <2>1. /\ stack # <<>> /\ Return("take", Caller.next) /\ "take" \in Phases
        /\ Len(stack) > 1 => Caller.next \in Nat \ {0}
    BY <1>0, <1>8, <1>p, TopFrame DEF Generate, Running, Frame
  <2>2. stack' # <<>> => Top'.phase = "take"
    BY ONLY <1>0, <2>1, ReturnFrames
  <2> QED BY <2>2
<1>9. CASE UNCHANGED vars
  BY <1>9 DEF vars, GeneratesCleanly, Running, Top
<1> QED BY <1>1, <1>2, <1>3, <1>4, <1>5, <1>6, <1>7, <1>8, <1>9 DEF Next

(* Once anything has failed, in whatever file, no code is generated any more
   (the checks of error_count, regist.colgm:290-303). *)
THEOREM NothingBuiltAfterError == Spec => [][errors # {} => mir' = mir]_vars
<1>1. Init => GeneratesCleanly
  <2> SUFFICES ASSUME Init PROVE GeneratesCleanly
    OBVIOUS
  <2> QED BY DEF Init, GeneratesCleanly
<1>2. TypeOK /\ GeneratesCleanly /\ [Next]_vars => GeneratesCleanly'
  BY CleanStep
<1>3. GeneratesCleanly /\ [Next]_vars => [errors # {} => mir' = mir]_vars
  BY DEF GeneratesCleanly, Next, vars, Parse, BeginRun, FindModule, TakeSymbols, Register,
         EndScan, Analyse, Generate
<1> QED BY <1>1, <1>2, <1>3, ImportTypesCorrect, PTL DEF Spec

-----------------------------------------------------------------------------
(***************************************************************************)
(* The results of compiling.  As long as nothing has failed, a file is in  *)
(* one of three states: not met, being compiled by frames of the stack, or *)
(* built.  The invariant says of a frame what the statements and           *)
(* declarations it is through with have left behind, and of a built file   *)
(* that nothing is missing from it.                                        *)
(***************************************************************************)

(* The use statements and the declarations a frame of file f is through with
   when it is in this phase, at this item. *)
UsesDone(f, phase, next) ==
  {i \in DOMAIN program[f].imports :
     \/ phase \in Scans \cup {"sema", "generate"}
     \/ phase \in {"imports", "take"} /\ i < next}

ScansDone(phase) ==
  CASE phase = "structs" -> {"enums"}
    [] phase = "funcs" -> {"enums", "structs"}
    [] phase \in {"sema", "generate"} -> Scans
    [] OTHER -> {}

Places(f) == UNION {{k} \X DOMAIN program[f].decls[k] : k \in Scans}
At(f, d) == program[f].decls[d[1]][d[2]]
DeclsDone(f, phase, next) ==
  {d \in Places(f) : d[1] \in ScansDone(phase) \/ (d[1] = phase /\ d[2] < next)}

DeclSyms(f) == {d.sym : d \in DeclsOf(f)}
UsedNames == {u.name : u \in UNION {UsesOf(g) : g \in Reachable}}
Legal == \A f \in Reachable : Closed(f) /\ Unambiguous(f)

-----------------------------------------------------------------------------
(* What follows from the program alone stays as it is. *)
LEMMA Frozen ==
  ASSUME program' = program
  PROVE  /\ \A f : Deps(f)' = Deps(f)
         /\ \A f : UsesOf(f)' = UsesOf(f)
         /\ \A f : DeclsOf(f)' = DeclsOf(f)
         /\ \A f : DeclSyms(f)' = DeclSyms(f)
         /\ \A f : Bare(f)' = Bare(f)
         /\ \A f : DeclaresTwice(f)' = DeclaresTwice(f)
         /\ \A f : Places(f)' = Places(f)
         /\ \A f, d : At(f, d)' = At(f, d)
         /\ \A f, p, n : UsesDone(f, p, n)' = UsesDone(f, p, n)
         /\ \A f, p, n : DeclsDone(f, p, n)' = DeclsDone(f, p, n)
         /\ \A u : Provides(u)' = Provides(u)
         /\ \A u : ProvidedSyms(u)' = ProvidedSyms(u)
         /\ \A f : ImportedSyms(f)' = ImportedSyms(f)
         /\ \A f, s : Visible(f, s)' = Visible(f, s)
         /\ \A f : Closed(f)' = Closed(f)
<1>1. /\ \A f : Deps(f)' = Deps(f)
      /\ \A f : UsesOf(f)' = UsesOf(f)
      /\ \A f : DeclsOf(f)' = DeclsOf(f)
      /\ \A f : Places(f)' = Places(f)
      /\ \A f, d : At(f, d)' = At(f, d)
      /\ \A f, p, n : UsesDone(f, p, n)' = UsesDone(f, p, n)
      /\ \A f : DeclaresTwice(f)' = DeclaresTwice(f)
  BY DEF Deps, UsesOf, DeclsOf, Places, At, UsesDone, DeclaresTwice
<1>2. \A f : DeclSyms(f)' = DeclSyms(f)
  BY <1>1 DEF DeclSyms
<1>3. \A f : Bare(f)' = Bare(f)
  BY <1>1 DEF Bare
<1>4. \A f, p, n : DeclsDone(f, p, n)' = DeclsDone(f, p, n)
  BY <1>1 DEF DeclsDone, ScansDone
<1>5. \A u : Provides(u)' = Provides(u)
  BY <1>1 DEF Provides
<1>6. \A u : ProvidedSyms(u)' = ProvidedSyms(u)
  BY <1>5 DEF ProvidedSyms
<1>7. \A f : ImportedSyms(f)' = ImportedSyms(f)
  BY <1>1, <1>6 DEF ImportedSyms
<1>8. ASSUME NEW f, NEW s
      PROVE  Visible(f, s)' = Visible(f, s)
  <2>1. Providers(f, s)' = Providers(f, s)
    BY <1>6 DEF Providers
  <2>2. DeclsOf(f)' = DeclsOf(f)
    BY <1>1
  <2> QED BY <2>1, <2>2 DEF Visible
<1>9. \A f : Closed(f)' = Closed(f)
  BY <1>1, <1>6, <1>8 DEF Closed
<1> QED BY <1>1, <1>2, <1>3, <1>4, <1>5, <1>6, <1>7, <1>8, <1>9

LEMMA GraphFrozen ==
  ASSUME program' = program
  PROVE  /\ \A f : Order!Reach(f)' = Order!Reach(f)
         /\ Reachable' = Reachable
         /\ UsedNames' = UsedNames
         /\ Acyclic' = Acyclic
         /\ Legal' = Legal
<1>1. \A f : Order!Reach(f)' = Order!Reach(f)
  <2>1. [f \in File |-> Deps(f)]' = [f \in File |-> Deps(f)]
    BY Frozen
  <2> QED BY <2>1 DEF Order!Reach
<1>2. Reachable' = Reachable
  BY <1>1 DEF Reachable
<1>3. Acyclic' = Acyclic
  BY <1>1, <1>2 DEF Acyclic
<1>4. \A f : Unambiguous(f)' = Unambiguous(f)
  BY <1>2, Frozen DEF Unambiguous
<1>5. UsedNames' = UsedNames
  BY <1>2, Frozen DEF UsedNames
<1> QED BY <1>1, <1>2, <1>3, <1>4, <1>5, Frozen DEF Legal

-----------------------------------------------------------------------------
(* What the import graph says about the files that can be reached. *)
LEMMA UseFacts ==
  ASSUME program \in [File -> Source], NEW f \in File
  PROVE  /\ program[f].imports \in Seq(Use)
         /\ \A i \in DOMAIN program[f].imports : program[f].imports[i] \in UsesOf(f)
         /\ \A u \in UsesOf(f) : \E i \in DOMAIN program[f].imports : u = program[f].imports[i]
         /\ \A u \in UsesOf(f) : u \in Use /\ u.name \in Name /\ Find[u.name] \in File \cup {NoFile}
<1>1. program[f].imports \in Seq(Use)
  BY DEF Source
<1>2. /\ \A i \in DOMAIN program[f].imports : program[f].imports[i] \in UsesOf(f)
      /\ \A u \in UsesOf(f) : \E i \in DOMAIN program[f].imports : u = program[f].imports[i]
  BY DEF UsesOf, Range
<1>3. \A u \in UsesOf(f) : u \in Use
  BY <1>1, <1>2
<1>4. \A u \in Use : u.name \in Name
  BY DEF Use
<1>5. \A u \in UsesOf(f) : Find[u.name] \in File \cup {NoFile}
  BY <1>3, <1>4, ImportAssumption
<1> QED BY <1>1, <1>2, <1>3, <1>4, <1>5

LEMMA DepsFacts ==
  ASSUME program \in [File -> Source], NEW f \in File
  PROVE  /\ Deps(f) \in SUBSET File
         /\ \A u \in UsesOf(f) : program[f].parses /\ Find[u.name] # NoFile => Find[u.name] \in Deps(f)
         /\ \A g \in Deps(f) : program[f].parses /\ \E u \in UsesOf(f) : Find[u.name] = g /\ g # NoFile
<1>1. \A u \in UsesOf(f) : Find[u.name] \in File \cup {NoFile}
  BY UseFacts
<1> QED BY <1>1 DEF Deps

LEMMA ReachFacts ==
  ASSUME program \in [File -> Source], NEW f \in File
  PROVE  /\ Order!Reach(f) \in SUBSET File
         /\ Deps(f) \subseteq Order!Reach(f)
         /\ \A g \in Order!Reach(f) : Deps(g) \subseteq Order!Reach(f)
         /\ \A s \in SUBSET File :
              Deps(f) \subseteq s /\ (\A h \in s : Deps(h) \subseteq s) => Order!Reach(f) \subseteq s
<1> DEFINE deps == [g \in File |-> Deps(g)]
<1>1. Order!Reach(f) = {g \in File : \A s \in SUBSET File :
        (deps[f] \subseteq s /\ \A h \in s : deps[h] \subseteq s) => g \in s}
  BY DEF Order!Reach
<1>2. \A g \in File : deps[g] = Deps(g) /\ Deps(g) \in SUBSET File
  BY DepsFacts
<1> HIDE DEF deps
<1>3. Deps(f) \subseteq Order!Reach(f)
  BY <1>1, <1>2
<1>4. ASSUME NEW g \in Order!Reach(f) PROVE Deps(g) \subseteq Order!Reach(f)
  <2> SUFFICES ASSUME NEW x \in Deps(g), NEW s \in SUBSET File,
                      deps[f] \subseteq s, \A h \in s : deps[h] \subseteq s
               PROVE  x \in File /\ x \in s
    BY <1>1, <1>2, <1>4
  <2>1. g \in s /\ g \in File
    BY <1>1, <1>4
  <2>2. deps[g] \subseteq s
    BY <2>1
  <2> QED BY <1>2, <2>1, <2>2
<1>5. ASSUME NEW s \in SUBSET File, Deps(f) \subseteq s, \A h \in s : Deps(h) \subseteq s
      PROVE  Order!Reach(f) \subseteq s
  <2>1. deps[f] \subseteq s /\ \A h \in s : deps[h] \subseteq s
    BY <1>2, <1>5
  <2> QED BY <1>1, <2>1
<1> QED BY <1>1, <1>3, <1>4, <1>5

LEMMA Onward ==
  ASSUME program \in [File -> Source], NEW f \in File, NEW g \in Order!Reach(f)
  PROVE  Order!Reach(g) \subseteq Order!Reach(f)
<1>1. /\ g \in File /\ Order!Reach(f) \in SUBSET File
      /\ Deps(g) \subseteq Order!Reach(f)
      /\ \A h \in Order!Reach(f) : Deps(h) \subseteq Order!Reach(f)
  BY ReachFacts
<1> QED BY <1>1, ReachFacts

LEMMA ReachableFacts ==
  ASSUME program \in [File -> Source]
  PROVE  /\ Reachable \in SUBSET File /\ Root \in Reachable
         /\ \A f \in Reachable : Deps(f) \subseteq Reachable
         /\ \A f \in Reachable : Order!Reach(f) \subseteq Reachable
         /\ \A s \in SUBSET File :
              Root \in s /\ (\A h \in s : Deps(h) \subseteq s) => Reachable \subseteq s
<1>1. Root \in File
  BY ImportAssumption
<1>2. /\ Order!Reach(Root) \in SUBSET File
      /\ Deps(Root) \subseteq Order!Reach(Root)
      /\ \A g \in Order!Reach(Root) : Deps(g) \subseteq Order!Reach(Root)
      /\ \A s \in SUBSET File :
           Deps(Root) \subseteq s /\ (\A h \in s : Deps(h) \subseteq s) => Order!Reach(Root) \subseteq s
  BY <1>1, ReachFacts
<1>3. \A g \in Order!Reach(Root) : Order!Reach(g) \subseteq Order!Reach(Root)
  BY <1>1, Onward
<1>4. /\ Reachable \in SUBSET File /\ Root \in Reachable
      /\ \A f \in Reachable : Deps(f) \subseteq Reachable
  BY <1>1, <1>2 DEF Reachable
<1>5. \A f \in Reachable : Order!Reach(f) \subseteq Reachable
  BY <1>3 DEF Reachable
<1>6. ASSUME NEW s \in SUBSET File, Root \in s, \A h \in s : Deps(h) \subseteq s
      PROVE  Reachable \subseteq s
  <2>1. Deps(Root) \subseteq s
    BY <1>6
  <2>2. Order!Reach(Root) \subseteq s
    BY <1>2, <1>6, <2>1
  <2> QED BY <1>6, <2>2 DEF Reachable
<1> QED BY <1>4, <1>5, <1>6

(* The last of some use statements. *)
Latest(is) == CHOOSE i \in is : \A j \in is : j <= i

LEMMA LatestFacts ==
  ASSUME NEW n \in Nat, NEW is \in SUBSET (1 .. n), is # {}
  PROVE  Latest(is) \in is /\ \A j \in is : j <= Latest(is)
<1> DEFINE R == OpToRel(<, Nat)
           T == {n - i : i \in is}
<1>1. IsWellFoundedOn(R, Nat)
  BY NatLessThanWellFounded
<1>2. \A x, y \in Nat : x < y => <<x, y>> \in R
  BY DEF OpToRel
<1>3. T \in SUBSET Nat /\ T # {}
  <2>1. \A i \in is : n - i \in Nat
    OBVIOUS
  <2> QED BY <2>1
<1> HIDE DEF R
<1>4. PICK x \in T : \A y \in T : <<y, x>> \notin R
  <2> HIDE DEF T
  <2> QED BY <1>1, <1>3, WFMin
<1>5. PICK i \in is : x = n - i
  BY <1>4
<1>6. ASSUME NEW j \in is PROVE j <= i
  <2>1. n - j \in Nat /\ n - i \in Nat /\ n - j \in T
    OBVIOUS
  <2>2. ~(n - j < n - i)
    BY <1>2, <1>4, <1>5, <2>1
  <2>3. i \in 1 .. n /\ j \in 1 .. n
    OBVIOUS
  <2> QED BY <2>2, <2>3
<1> QED BY <1>6 DEF Latest

LEMMA VisibleFacts ==
  ASSUME program \in [File -> Source], NEW f \in File, NEW x
  PROVE  /\ x \in DeclSyms(f) => Visible(f, x) = f
         /\ x \notin DeclSyms(f) /\ Providers(f, x) = {} => Visible(f, x) = NoFile
         /\ x \notin DeclSyms(f) /\ Providers(f, x) # {} =>
              /\ Latest(Providers(f, x)) \in Providers(f, x)
              /\ Visible(f, x) = Find[program[f].imports[Latest(Providers(f, x))].name]
         /\ x \in DeclSyms(f) \/ Providers(f, x) # {} => Visible(f, x) # NoFile
<1>1. x \in DeclSyms(f) => Visible(f, x) = f
  BY DEF DeclSyms, Visible
<1>2. x \notin DeclSyms(f) /\ Providers(f, x) = {} => Visible(f, x) = NoFile
  BY DEF DeclSyms, Visible
<1>3. ASSUME x \notin DeclSyms(f), Providers(f, x) # {}
      PROVE  /\ Latest(Providers(f, x)) \in Providers(f, x)
             /\ Visible(f, x) = Find[program[f].imports[Latest(Providers(f, x))].name]
  <2>1. DOMAIN program[f].imports = 1 .. Len(program[f].imports) /\ Len(program[f].imports) \in Nat
    BY UseFacts
  <2>2. Providers(f, x) \in SUBSET (1 .. Len(program[f].imports))
    BY <2>1 DEF Providers
  <2>3. Latest(Providers(f, x)) \in Providers(f, x)
    BY <1>3, <2>1, <2>2, LatestFacts
  <2> QED BY <1>3, <2>3 DEF Visible, DeclSyms, Latest
<1>4. ASSUME x \notin DeclSyms(f), Providers(f, x) # {}
      PROVE  Visible(f, x) # NoFile
  <2>1. PICK i \in Providers(f, x) : Visible(f, x) = Find[program[f].imports[i].name]
    BY <1>3, <1>4
  <2>2. x \in ProvidedSyms(program[f].imports[i])
    BY DEF Providers
  <2> QED BY <2>1, <2>2 DEF ProvidedSyms, Provides
<1>5. f # NoFile
  BY ImportAssumption
<1> QED BY <1>1, <1>2, <1>3, <1>4, <1>5

-----------------------------------------------------------------------------
(* The declarations of a file, one by one. *)
LEMMA PlaceFacts ==
  ASSUME program \in [File -> Source], NEW f \in File
  PROVE  /\ \A d \in Places(f) : At(f, d) \in DeclsOf(f) /\ At(f, d) \in Decl
         /\ \A e \in DeclsOf(f) : \E d \in Places(f) : e = At(f, d)
         /\ \A k \in Scans : program[f].decls[k] \in Seq(Decl)
         /\ \A k \in Scans : \A i \in DOMAIN program[f].decls[k] : <<k, i>> \in Places(f)
         /\ \A d \in Places(f) : \E k \in Scans : \E i \in DOMAIN program[f].decls[k] : d = <<k, i>>
         /\ DeclaresTwice(f) <=> \E d, e \in Places(f) : d # e /\ At(f, d).sym = At(f, e).sym
<1>1. \A k \in Scans : program[f].decls[k] \in Seq(Decl)
  BY DEF Source
<1>2. /\ \A k \in Scans : \A i \in DOMAIN program[f].decls[k] : <<k, i>> \in Places(f)
      /\ \A d \in Places(f) : \E k \in Scans : \E i \in DOMAIN program[f].decls[k] : d = <<k, i>>
  BY DEF Places
<1>3. \A k, i : At(f, <<k, i>>) = program[f].decls[k][i]
  BY DEF At
<1>4. \A d \in Places(f) : At(f, d) \in DeclsOf(f) /\ At(f, d) \in Decl
  <2> SUFFICES ASSUME NEW k \in Scans, NEW i \in DOMAIN program[f].decls[k]
               PROVE  At(f, <<k, i>>) \in DeclsOf(f) /\ At(f, <<k, i>>) \in Decl
    BY <1>2
  <2>1. program[f].decls[k][i] \in Range(program[f].decls[k])
    BY DEF Range
  <2>2. program[f].decls[k][i] \in Decl
    BY <1>1
  <2> QED BY <1>3, <2>1, <2>2 DEF DeclsOf
<1>5. ASSUME NEW e \in DeclsOf(f) PROVE \E d \in Places(f) : e = At(f, d)
  <2>1. PICK k \in Scans : e \in Range(program[f].decls[k])
    BY <1>5 DEF DeclsOf
  <2>2. PICK i \in DOMAIN program[f].decls[k] : e = program[f].decls[k][i]
    BY <2>1 DEF Range
  <2>3. <<k, i>> \in Places(f) /\ e = At(f, <<k, i>>)
    BY <1>2, <1>3, <2>2
  <2> QED BY <2>3
<1>6. ASSUME DeclaresTwice(f)
      PROVE  \E d, e \in Places(f) : d # e /\ At(f, d).sym = At(f, e).sym
  <2>1. PICK k \in Scans, l \in Scans :
          \E i \in DOMAIN program[f].decls[k], j \in DOMAIN program[f].decls[l] :
            <<k, i>> # <<l, j>> /\ program[f].decls[k][i].sym = program[f].decls[l][j].sym
    BY <1>6 DEF DeclaresTwice
  <2>2. PICK i \in DOMAIN program[f].decls[k], j \in DOMAIN program[f].decls[l] :
          <<k, i>> # <<l, j>> /\ program[f].decls[k][i].sym = program[f].decls[l][j].sym
    BY <2>1
  <2>3. <<k, i>> \in Places(f) /\ <<l, j>> \in Places(f)
    BY <1>2
  <2>4. At(f, <<k, i>>).sym = At(f, <<l, j>>).sym
    BY <1>3, <2>2
  <2> QED BY <2>2, <2>3, <2>4
<1>7. ASSUME NEW d \in Places(f), NEW e \in Places(f), d # e, At(f, d).sym = At(f, e).sym
      PROVE  DeclaresTwice(f)
  <2>1. PICK k \in Scans : \E i \in DOMAIN program[f].decls[k] : d = <<k, i>>
    BY <1>2
  <2>2. PICK i \in DOMAIN program[f].decls[k] : d = <<k, i>>
    BY <2>1
  <2>3. PICK l \in Scans : \E j \in DOMAIN program[f].decls[l] : e = <<l, j>>
    BY <1>2
  <2>4. PICK j \in DOMAIN program[f].decls[l] : e = <<l, j>>
    BY <2>3
  <2>5. <<k, i>> # <<l, j>> /\ program[f].decls[k][i].sym = program[f].decls[l][j].sym
    BY <1>3, <1>7, <2>2, <2>4
  <2> QED BY <2>5 DEF DeclaresTwice
<1> QED BY <1>1, <1>2, <1>4, <1>5, <1>6, <1>7

(* What a frame is through with when it goes from one item or phase to another. *)
LEMMA NothingDone ==
  ASSUME NEW f, NEW n, NEW m
  PROVE  /\ \A p \in {"parse", "run"} : UsesDone(f, p, n) = {} /\ DeclsDone(f, p, n) = {}
         /\ \A p \in {"imports", "take"} : DeclsDone(f, p, n) = {}
<1>1. \A p \in {"parse", "run", "imports", "take"} : ScansDone(p) = {} /\ p \notin Scans
  BY DEF ScansDone, Scans
<1>2. \A d \in Places(f) : d[1] \in Scans
  BY DEF Places
<1>3. \A p \in {"parse", "run", "imports", "take"} : DeclsDone(f, p, n) = {}
  BY <1>1, <1>2 DEF DeclsDone
<1>4. \A p \in {"parse", "run"} : UsesDone(f, p, n) = {}
  BY DEF UsesDone, Scans
<1> QED BY <1>3, <1>4

LEMMA AllDone ==
  ASSUME NEW f, NEW n
  PROVE  /\ \A p \in Scans \cup {"sema", "generate"} : UsesDone(f, p, n) = DOMAIN program[f].imports
         /\ \A p \in {"sema", "generate"} : DeclsDone(f, p, n) = Places(f)
<1>1. \A d \in Places(f) : d[1] \in Scans
  BY DEF Places
<1>2. \A p \in {"sema", "generate"} : ScansDone(p) = Scans
  BY DEF ScansDone
<1> QED BY <1>1, <1>2 DEF UsesDone, DeclsDone

LEMMA UseDone ==
  ASSUME program \in [File -> Source], NEW f \in File, NEW n \in Nat \ {0}
  PROVE  /\ UsesDone(f, "take", n) = UsesDone(f, "imports", n)
         /\ UsesDone(f, "imports", 1) = {}
         /\ n \in DOMAIN program[f].imports =>
              UsesDone(f, "imports", n + 1) = UsesDone(f, "take", n) \cup {n}
         /\ n > Len(program[f].imports) => UsesDone(f, "imports", n) = DOMAIN program[f].imports
         /\ \A i \in UsesDone(f, "imports", n) : i < n
<1> DEFINE l == Len(program[f].imports)
<1>1. DOMAIN program[f].imports = 1 .. l /\ l \in Nat
  BY UseFacts
<1>2. \A m : UsesDone(f, "imports", m) = {i \in 1 .. l : i < m} /\ UsesDone(f, "take", m) = {i \in 1 .. l : i < m}
  BY <1>1 DEF UsesDone, Scans
<1> HIDE DEF l
<1>3. {i \in 1 .. l : i < 1} = {}
  BY <1>1
<1>4. n \in 1 .. l => {i \in 1 .. l : i < n + 1} = {i \in 1 .. l : i < n} \cup {n}
  BY <1>1
<1>5. n > l => {i \in 1 .. l : i < n} = 1 .. l
  BY <1>1
<1> QED BY <1>1, <1>2, <1>3, <1>4, <1>5 DEF l

LEMMA DeclDone ==
  ASSUME program \in [File -> Source], NEW f \in File, NEW k \in Scans,
         NEW n \in DOMAIN program[f].decls[k]
  PROVE  /\ DeclsDone(f, k, n + 1) = DeclsDone(f, k, n) \cup {<<k, n>>}
         /\ <<k, n>> \notin DeclsDone(f, k, n)
         /\ <<k, n>> \in Places(f) /\ At(f, <<k, n>>) = program[f].decls[k][n]
<1>1. /\ \A j \in Scans : \A i \in DOMAIN program[f].decls[j] : <<j, i>> \in Places(f)
      /\ \A d \in Places(f) : \E j \in Scans : \E i \in DOMAIN program[f].decls[j] : d = <<j, i>>
      /\ \A j \in Scans : program[f].decls[j] \in Seq(Decl)
  BY PlaceFacts
<1>2. \A j \in Scans : DOMAIN program[f].decls[j] \subseteq Nat
  BY <1>1
<1>3. k \notin ScansDone(k)
  BY DEF ScansDone, Scans
<1>4. <<k, n>> \in Places(f) /\ n \in Nat
  BY <1>1, <1>2
<1>5. <<k, n>> \notin DeclsDone(f, k, n)
  <2>1. ~(n < n)
    BY <1>4
  <2> QED BY <1>3, <2>1 DEF DeclsDone
<1>6. ASSUME NEW d \in Places(f)
      PROVE  d \in DeclsDone(f, k, n + 1) <=> d \in DeclsDone(f, k, n) \/ d = <<k, n>>
  <2>1. PICK j \in Scans : \E i \in DOMAIN program[f].decls[j] : d = <<j, i>>
    BY <1>1
  <2>2. PICK i \in DOMAIN program[f].decls[j] : d = <<j, i>>
    BY <2>1
  <2>3. i \in Nat
    BY <1>2
  <2>4. i < n + 1 <=> i < n \/ i = n
    BY <1>4, <2>3
  <2>5. d[1] = j /\ d[2] = i
    BY <2>2
  <2>6. \A m : d \in DeclsDone(f, k, m) <=> j \in ScansDone(k) \/ (j = k /\ i < m)
    BY <2>5 DEF DeclsDone
  <2>7. d = <<k, n>> <=> j = k /\ i = n
    BY <2>2
  <2> QED BY <1>3, <2>4, <2>6, <2>7
<1>7. \A m : DeclsDone(f, k, m) \subseteq Places(f)
  BY DEF DeclsDone
<1>8. At(f, <<k, n>>) = program[f].decls[k][n]
  BY DEF At
<1>9. DeclsDone(f, k, n + 1) = DeclsDone(f, k, n) \cup {<<k, n>>}
  BY <1>4, <1>6, <1>7
<1> QED BY <1>4, <1>5, <1>8, <1>9

LEMMA ScanDone ==
  ASSUME program \in [File -> Source], NEW f \in File, NEW n \in Nat \ {0},
         NEW p \in Scans \cup {"imports"},
         n > Len(IF p = "imports" THEN program[f].imports ELSE program[f].decls[p])
  PROVE  /\ UsesDone(f, Following[p], 1) = UsesDone(f, p, n)
         /\ UsesDone(f, p, n) = DOMAIN program[f].imports
         /\ DeclsDone(f, Following[p], 1) = DeclsDone(f, p, n)
<1>1. /\ \A d \in Places(f) : \E j \in Scans : \E i \in DOMAIN program[f].decls[j] : d = <<j, i>>
      /\ \A j \in Scans : program[f].decls[j] \in Seq(Decl)
  BY PlaceFacts
<1>2. UsesDone(f, Following[p], 1) = DOMAIN program[f].imports
  <2>1. Following[p] \in Scans \cup {"sema", "generate"}
    BY DEF Following, Scans
  <2> QED BY <2>1, AllDone
<1>3. UsesDone(f, p, n) = DOMAIN program[f].imports
  <2>1. CASE p = "imports"
    BY <2>1, UseDone
  <2>2. CASE p \in Scans
    BY <2>2, AllDone
  <2> QED BY <2>1, <2>2
<1>4. ASSUME NEW d \in Places(f)
      PROVE  d[1] \in ScansDone(Following[p]) \/ (d[1] = Following[p] /\ d[2] < 1)
             <=> d[1] \in ScansDone(p) \/ (d[1] = p /\ d[2] < n)
  <2>1. PICK j \in Scans : \E i \in DOMAIN program[f].decls[j] : d = <<j, i>>
    BY <1>1
  <2>2. PICK i \in DOMAIN program[f].decls[j] : d = <<j, i>>
    BY <2>1
  <2>3. i \in Nat \ {0} /\ i <= Len(program[f].decls[j]) /\ Len(program[f].decls[j]) \in Nat
    BY <1>1
  <2>4. ~(i < 1)
    BY <2>3
  <2>5. j = p => i < n
    <3> HAVE j = p
    <3>1. p # "imports"
      BY DEF Scans
    <3>2. n > Len(program[f].decls[j])
      BY <3>1
    <3> QED BY <2>3, <3>2
  <2>6. j \in ScansDone(Following[p]) <=> j \in ScansDone(p) \/ j = p
    BY DEF ScansDone, Following, Scans
  <2>7. d[1] = j /\ d[2] = i
    BY <2>2
  <2> QED BY <2>4, <2>5, <2>6, <2>7
<1>5. DeclsDone(f, Following[p], 1) = DeclsDone(f, p, n)
  BY <1>4 DEF DeclsDone
<1> QED BY <1>2, <1>3, <1>5

-----------------------------------------------------------------------------
(* The invariant.                                                          *)

(* The files there is code for. *)
Coded == {mir[i].file : i \in DOMAIN mir}

(* The module of a use statement is compiled or being compiled; and it has
   what the statement asks for. *)
Met(u) == Find[u.name] # NoFile /\ status[u.name] # "not_exist"
Served(u) == Met(u) /\ u.syms \subseteq ProvidedSyms(u)

(* A frame of file f in this phase, at this item.  If the file is built already
   it is compiled again, which only a file without declarations survives. *)
FrameAt(f, phase, next) ==
  /\ phase # "parse" => program[f].parses
  /\ phase \notin {"parse", "run"} => domain[f].exists
  /\ phase = "take" => next \in DOMAIN program[f].imports /\ Met(program[f].imports[next])
  /\ \A i \in UsesDone(f, phase, next) : Served(program[f].imports[i])
  /\ \A d \in DeclsDone(f, phase, next) : At(f, d) \in domain[f].owned
  /\ \A d, e \in DeclsDone(f, phase, next) : d # e => At(f, d).sym # At(f, e).sym
  /\ phase = "generate" => \A x \in program[f].needs : Visible(f, x) # NoFile
  /\ f \in Coded => DeclsDone(f, phase, next) = {}

(* A file there is code for. *)
CodedOk(f) ==
  /\ f \in Reachable /\ Closed(f) /\ ~DeclaresTwice(f)
  /\ \A u \in UsesOf(f) : Served(u)
  /\ domain[f].exists /\ DeclsOf(f) \subseteq domain[f].owned

(* A module that has been met. *)
NameOk(n) ==
  status[n] # "not_exist" =>
    Find[n] \in File /\ n \in UsedNames /\ (status[n] = "analysed" => Find[n] \in Coded)

(* The tables of a file. *)
Comes(f, x, g) ==
  \/ g = f /\ x \in DeclSyms(f)
  \/ \E u \in UsesOf(f) : x \in ProvidedSyms(u) /\ Find[u.name] = g
TableOk(f) ==
  /\ domain[f].owned \subseteq DeclsOf(f)
  /\ \A d \in domain[f].owned : domain[f].global[d.sym] # NoFile
  /\ \A x \in Sym : domain[f].global[x] # NoFile => Comes(f, x, domain[f].global[x])

(* The frames form a chain of imports that starts with the root. *)
Chain ==
  /\ stack # <<>> => stack[1].file = Root
  /\ \A i, j \in DOMAIN stack : i < j => stack[j].file \in Order!Reach(stack[i].file)

(* A file that declares something is compiled for one name only. *)
OneCode == \A i, j \in DOMAIN mir : mir[i].file = mir[j].file => i = j \/ Bare(mir[i].file)
OneName ==
  \A m, n \in Name :
    status[m] = "analysed" /\ status[n] = "analysed" /\ Find[m] = Find[n] => m = n \/ Bare(Find[m])
CodeNames ==
  \A i \in DOMAIN mir :
    Bare(mir[i].file) \/ mir[i].name = nameOf[mir[i].file] \/ mir[i].file \in Active

Books ==
  /\ Chain
  /\ \A i \in DOMAIN stack : FrameAt(stack[i].file, stack[i].phase, stack[i].next)
  /\ \A f \in Coded : CodedOk(f)
  /\ \A n \in Name : NameOk(n)
  /\ \A f \in File : TableOk(f)
  /\ OneCode /\ OneName /\ CodeNames
  /\ stack = <<>> => Root \in Coded

Accounted == errors = {} => Books

LEMMA CodedFacts ==
  ASSUME TypeOK
  PROVE  /\ Coded = Range(Built) /\ Coded \in SUBSET File
         /\ DOMAIN mir = 1 .. Len(mir) /\ Len(mir) \in Nat
<1> DEFINE E == [file : File, name : Name \cup {NoName}]
<1>1. mir \in Seq(E)
  BY DEF TypeOK
<1>e. \A r \in E : r.file \in File
  OBVIOUS
<1> HIDE DEF E
<1>2. DOMAIN mir = 1 .. Len(mir) /\ Len(mir) \in Nat /\ \A i \in DOMAIN mir : mir[i] \in E
  BY <1>1
<1>3. \A i \in DOMAIN mir : mir[i].file \in File
  BY <1>2, <1>e
<1>4. Coded = Range(Built)
  BY DEF Coded, Built, Range
<1> QED BY <1>2, <1>3, <1>4 DEF Coded

LEMMA BooksInit == Init => Accounted
<1> SUFFICES ASSUME Init PROVE Books
  BY DEF Accounted
<1>1. /\ DOMAIN stack = {1} /\ stack # <<>>
      /\ stack[1].file = Root /\ stack[1].phase = "parse" /\ stack[1].next = 1
  BY DEF Init, NewFrame
<1>2. mir = <<>> /\ Coded = {} /\ DOMAIN mir = {}
  BY DEF Init, Coded
<1>3. \A n \in Name : status[n] = "not_exist"
  BY DEF Init
<1>4. \A f \in File : domain[f].owned = {} /\ \A x \in Sym : domain[f].global[x] = NoFile
  BY DEF Init, EmptyTable
<1>5. Chain
  BY <1>1 DEF Chain
<1>6. FrameAt(Root, "parse", 1)
  <2>1. UsesDone(Root, "parse", 1) = {} /\ DeclsDone(Root, "parse", 1) = {}
    BY NothingDone
  <2> QED BY <2>1 DEF FrameAt
<1>7. \A f \in File : TableOk(f)
  BY <1>4 DEF TableOk
<1>8. OneCode /\ OneName /\ CodeNames
  BY <1>2, <1>3 DEF OneCode, OneName, CodeNames
<1> QED BY <1>1, <1>2, <1>3, <1>5, <1>6, <1>7, <1>8 DEF Books, NameOk

-----------------------------------------------------------------------------
(* What no step takes back. *)
Grows ==
  /\ program' = program
  /\ \A u : Met(u) => Met(u)'
  /\ \A f \in File : domain[f].owned \subseteq domain'[f].owned
  /\ \A f \in File : domain[f].exists => domain'[f].exists
  /\ Coded \subseteq Coded'

LEMMA ServedStays ==
  ASSUME Grows, NEW u, Served(u)
  PROVE  Served(u)'
  BY Frozen DEF Grows, Served

LEMMA FrameStays ==
  ASSUME Grows, NEW f \in File, NEW p, NEW n, FrameAt(f, p, n),
         f \in Coded' => f \in Coded \/ DeclsDone(f, p, n) = {}
  PROVE  FrameAt(f, p, n)'
<1>1. /\ UsesDone(f, p, n)' = UsesDone(f, p, n)
      /\ DeclsDone(f, p, n)' = DeclsDone(f, p, n)
      /\ \A d : At(f, d)' = At(f, d)
      /\ \A x : Visible(f, x)' = Visible(f, x)
      /\ program' = program
  BY Frozen DEF Grows
<1>2. \A i \in UsesDone(f, p, n) : Served(program[f].imports[i])'
  <2> SUFFICES ASSUME NEW i \in UsesDone(f, p, n) PROVE Served(program[f].imports[i])'
    OBVIOUS
  <2>1. PICK u : u = program[f].imports[i]
    OBVIOUS
  <2>2. Served(u)
    BY <2>1 DEF FrameAt
  <2>3. Served(u)'
    BY <2>2, ServedStays
  <2> QED BY <1>1, <2>1, <2>3
<1>3. p = "take" => n \in DOMAIN program[f].imports /\ Met(program[f].imports[n])'
  <2> SUFFICES ASSUME p = "take" PROVE n \in DOMAIN program[f].imports /\ Met(program[f].imports[n])'
    OBVIOUS
  <2>1. PICK u : u = program[f].imports[n]
    OBVIOUS
  <2>2. Met(u)'
    BY <2>1 DEF FrameAt, Grows
  <2> QED BY <1>1, <2>1, <2>2 DEF FrameAt
<1> QED BY <1>1, <1>2, <1>3 DEF FrameAt, Grows

LEMMA CodedStays ==
  ASSUME Grows, NEW f \in File, CodedOk(f)
  PROVE  CodedOk(f)'
<1>1. /\ UsesOf(f)' = UsesOf(f) /\ DeclsOf(f)' = DeclsOf(f)
      /\ Closed(f)' = Closed(f) /\ DeclaresTwice(f)' = DeclaresTwice(f)
      /\ Reachable' = Reachable
  BY Frozen, GraphFrozen DEF Grows
<1>2. \A u \in UsesOf(f) : Served(u)'
  BY ServedStays DEF CodedOk
<1> QED BY <1>1, <1>2 DEF CodedOk, Grows

-----------------------------------------------------------------------------
(* A step in which the innermost frame goes on within its file. *)
LEMMA BooksGo ==
  ASSUME TypeOK, Books, stack # <<>>, NEW p \in Phases, NEW k \in Nat \ {0}, Go(p, k),
         Grows, mir' = mir, status' = status, nameOf' = nameOf,
         NEW f, f = Top.file, FrameAt(f, p, k)', \A g \in File : TableOk(g)'
  PROVE  Books'
<1>1. StackOK /\ program \in [File -> Source] /\ Len(stack) \in Nat \ {0}
  BY TopFrame DEF TypeOK, StackOK
<1>2. /\ stack' \in Seq(Frame) /\ Len(stack') = Len(stack)
      /\ \A i \in 1 .. Len(stack) :
           stack'[i] = IF i = Len(stack) THEN Resume(Top, p, k) ELSE stack[i]
  BY <1>1, GoStack DEF StackOK
<1>3. /\ DOMAIN stack = 1 .. Len(stack) /\ DOMAIN stack' = 1 .. Len(stack) /\ stack' # <<>>
      /\ Top = stack[Len(stack)]
      /\ \A i \in 1 .. Len(stack) : stack[i] \in Frame
  BY <1>1, <1>2 DEF StackOK, Top
<1>4. /\ Resume(Top, p, k).file = f /\ Resume(Top, p, k).phase = p /\ Resume(Top, p, k).next = k
  <2>1. Top \in Frame
    BY <1>1, <1>3
  <2> QED BY <2>1 DEF Resume, Frame
<1>5. \A i \in 1 .. Len(stack) : stack'[i].file = stack[i].file
  BY <1>2, <1>3, <1>4
<1>6. Coded' = Coded /\ program' = program
  BY DEF Coded, Grows
<1>7. Chain'
  <2>1. \A g : Order!Reach(g)' = Order!Reach(g)
    BY <1>6, GraphFrozen
  <2>2. stack'[1].file = Root
    BY <1>1, <1>5 DEF Books, Chain
  <2>3. \A i, j \in DOMAIN stack : i < j => stack[j].file \in Order!Reach(stack[i].file)
    BY DEF Books, Chain
  <2>4. \A i, j \in DOMAIN stack' : i < j => stack'[j].file \in Order!Reach(stack[i].file)
    BY <1>3, <1>5, <2>3
  <2>5. \A i \in DOMAIN stack' : Order!Reach(stack[i].file) = Order!Reach(stack[i].file)'
    <3>1. \A i \in DOMAIN stack' : stack'[i].file = stack[i].file
      BY <1>3, <1>5
    <3> QED BY <2>1, <3>1
  <2> QED BY <2>2, <2>4, <2>5 DEF Chain
<1>8. \A i \in DOMAIN stack' : FrameAt(stack[i].file, stack[i].phase, stack[i].next)'
  <2> SUFFICES ASSUME NEW i \in 1 .. Len(stack)
               PROVE  FrameAt(stack[i].file, stack[i].phase, stack[i].next)'
    BY <1>3
  <2>1. CASE i = Len(stack)
    <3>1. stack'[i].file = f /\ stack'[i].phase = p /\ stack'[i].next = k
      BY <1>2, <1>4, <2>1
    <3> QED BY <3>1
  <2>2. CASE i # Len(stack)
    <3>1. PICK g, q, n : g = stack[i].file /\ q = stack[i].phase /\ n = stack[i].next
      OBVIOUS
    <3>2. g \in File /\ FrameAt(g, q, n)
      BY <1>3, <3>1 DEF Books, Frame
    <3>3. FrameAt(g, q, n)'
      BY <1>6, <3>2, FrameStays
    <3>4. stack'[i].file = g /\ stack'[i].phase = q /\ stack'[i].next = n
      BY <1>2, <2>2, <3>1
    <3> QED BY <3>3, <3>4
  <2> QED BY <2>1, <2>2
<1>9. \A g \in Coded' : CodedOk(g)'
  <2>1. \A g \in Coded : g \in File /\ CodedOk(g)
    BY CodedFacts DEF Books
  <2> QED BY <1>6, <2>1, CodedStays
<1>10. \A n \in Name : NameOk(n)'
  <2>1. UsedNames' = UsedNames
    BY <1>6, GraphFrozen
  <2> QED BY <1>6, <2>1 DEF Books, NameOk
<1>11. OneCode' /\ OneName' /\ CodeNames'
  <2>1. \A g : Bare(g)' = Bare(g)
    BY <1>6, Frozen
  <2>2. Active' = Active
    BY <1>3, <1>5 DEF Active
  <2>3. OneCode /\ OneName /\ CodeNames
    BY DEF Books
  <2>4. OneCode' /\ OneName'
    BY <2>1, <2>3 DEF OneCode, OneName
  <2>5. CodeNames'
    BY <2>1, <2>2, <2>3 DEF CodeNames
  <2> QED BY <2>4, <2>5
<1> QED BY <1>3, <1>7, <1>8, <1>9, <1>10, <1>11 DEF Books

-----------------------------------------------------------------------------
(* The actions, when nothing has failed and nothing fails. *)
LEMMA Unreported ==
  ASSUME errors' = {}
  PROVE  /\ \A es : Report(es) => es = {} /\ errors = {}
         /\ \A what, cond : ReportIf(what, cond) => ~cond /\ errors = {}
<1>1. \A es : Report(es) => es = {} /\ errors = {}
  BY DEF Report
<1>2. ASSUME NEW what, NEW cond, ReportIf(what, cond)
      PROVE  ~cond /\ errors = {}
  <2>1. errors = {} /\ (IF cond THEN {Here(what)} ELSE {}) = {}
    BY <1>1, <1>2 DEF ReportIf
  <2> QED BY <2>1
<1> QED BY <1>1, <1>2

LEMMA TopFacts ==
  ASSUME TypeOK, Books, stack # <<>>
  PROVE  /\ StackOK /\ program \in [File -> Source]
         /\ Top \in Frame /\ Len(stack) \in Nat \ {0} /\ Len(stack) \in DOMAIN stack
         /\ Top.file \in File /\ Top.phase \in Phases /\ Top.next \in Nat \ {0}
         /\ Src = program[Top.file]
         /\ FrameAt(Top.file, Top.phase, Top.next)
         /\ Top.file \in Reachable
<1>1. StackOK /\ program \in [File -> Source]
  BY DEF TypeOK, StackOK
<1>2. Top \in Frame /\ Len(stack) \in Nat \ {0} /\ Top = stack[Len(stack)]
  BY <1>1, TopFrame DEF Top
<1>3. Len(stack) \in DOMAIN stack /\ 1 \in DOMAIN stack
  BY <1>1, <1>2 DEF StackOK
<1>4. Top.file \in File /\ Top.phase \in Phases /\ Top.next \in Nat \ {0}
  BY <1>2 DEF Frame
<1>5. FrameAt(Top.file, Top.phase, Top.next)
  BY <1>2, <1>3 DEF Books
<1>6. Top.file \in Reachable
  <2>1. stack[1].file = Root /\ (1 < Len(stack) => Top.file \in Order!Reach(Root))
    BY <1>2, <1>3 DEF Books, Chain
  <2>2. 1 < Len(stack) \/ Len(stack) = 1
    BY <1>2
  <2> QED BY <1>2, <2>1, <2>2 DEF Reachable
<1> QED BY <1>1, <1>2, <1>3, <1>4, <1>5, <1>6 DEF Src

LEMMA ParseBooks ==
  ASSUME TypeOK, Books, Parse, errors' = {}
  PROVE  Books'
<1>1. stack # <<>> /\ Top.phase = "parse" /\ Src.parses /\ Go("run", 1)
  BY Unreported DEF Parse, Running, AnyErrors
<1>2. /\ program' = program /\ domain' = domain /\ mir' = mir
      /\ status' = status /\ nameOf' = nameOf
  BY DEF Parse, pkgVars
<1>3. Coded' = Coded /\ \A u : Met(u)' = Met(u)
  BY <1>2 DEF Coded, Met
<1>4. Grows
  BY <1>2, <1>3 DEF Grows
<1>5. PICK f : f = Top.file
  OBVIOUS
<1>6. f \in File /\ program[f].parses
  BY <1>1, <1>5, TopFacts
<1>7. FrameAt(f, "run", 1)'
  <2>1. UsesDone(f, "run", 1)' = {} /\ DeclsDone(f, "run", 1)' = {}
    BY <1>2, NothingDone, Frozen
  <2> QED BY <1>2, <1>6, <2>1 DEF FrameAt
<1>8. \A g \in File : TableOk(g)'
  BY <1>2, Frozen DEF Books, TableOk, Comes
<1>9. "run" \in Phases
  BY DEF Phases
<1> QED BY <1>1, <1>2, <1>4, <1>5, <1>7, <1>8, <1>9, BooksGo

LEMMA BeginRunBooks ==
  ASSUME TypeOK, Books, BeginRun, errors' = {}
  PROVE  Books'
<1>1. stack # <<>> /\ Top.phase = "run" /\ Go("imports", 1)
  BY DEF BeginRun, Running
<1>2. /\ program' = program /\ mir' = mir
      /\ status' = status /\ nameOf' = nameOf
  BY DEF BeginRun, pkgVars
<1>3. PICK f : f = Top.file
  OBVIOUS
<1>4. f \in File /\ program \in [File -> Source] /\ FrameAt(f, "run", Top.next)
  BY <1>1, <1>3, TopFacts
<1>5. /\ domain' \in [File -> Domain] /\ domain'[f].exists
      /\ \A g \in File : /\ domain'[g].owned = domain[g].owned
                         /\ domain'[g].global = domain[g].global
                         /\ domain[g].exists => domain'[g].exists
  <2>1. domain \in [File -> Domain] /\ domain' = [domain EXCEPT ![f].exists = TRUE]
    BY <1>3 DEF TypeOK, BeginRun
  <2> QED BY <1>4, <2>1 DEF Domain
<1>6. Coded' = Coded /\ \A u : Met(u)' = Met(u)
  BY <1>2 DEF Coded, Met
<1>7. Grows
  BY <1>2, <1>5, <1>6 DEF Grows
<1>8. FrameAt(f, "imports", 1)'
  <2>1. UsesDone(f, "imports", 1)' = {} /\ DeclsDone(f, "imports", 1)' = {}
    BY <1>2, <1>4, NothingDone, UseDone, Frozen
  <2>2. program[f].parses
    BY <1>4 DEF FrameAt
  <2> QED BY <1>2, <1>5, <2>1, <2>2 DEF FrameAt
<1>9. \A g \in File : TableOk(g)'
  <2>1. \A g : DeclsOf(g)' = DeclsOf(g) /\ \A x, y : Comes(g, x, y)' = Comes(g, x, y)
    BY <1>2, Frozen DEF Comes
  <2> QED BY <1>5, <2>1 DEF Books, TableOk
<1>10. "imports" \in Phases
  BY DEF Phases
<1> QED BY <1>1, <1>2, <1>3, <1>7, <1>8, <1>9, <1>10, BooksGo

LEMMA EndScanBooks ==
  ASSUME TypeOK, Books, EndScan, errors' = {}
  PROVE  Books'
<1>1. /\ stack # <<>> /\ Top.phase \in Scans \cup {"imports"} /\ Top.next > Len(Items)
      /\ Go(Following[Top.phase], 1)
  BY DEF EndScan, AnyErrors
<1>2. /\ program' = program /\ mir' = mir /\ domain' = domain
      /\ status' = status /\ nameOf' = nameOf
  BY DEF EndScan, pkgVars
<1>3. PICK f, p, n, q : f = Top.file /\ p = Top.phase /\ n = Top.next /\ q = Following[p]
  OBVIOUS
<1>4. f \in File /\ program \in [File -> Source] /\ FrameAt(f, p, n) /\ n \in Nat \ {0}
  BY <1>1, <1>3, TopFacts
<1>5. Coded' = Coded /\ \A u : Met(u)' = Met(u)
  BY <1>2 DEF Coded, Met
<1>6. Grows
  BY <1>2, <1>5 DEF Grows
<1>7. q \in Scans \cup {"sema"}
  BY <1>1, <1>3 DEF Following, Scans
<1>8. FrameAt(f, q, 1)
  <2>1. n > Len(IF p = "imports" THEN program[f].imports ELSE program[f].decls[p])
    BY <1>1, <1>3, TopFacts DEF Items
  <2>2. UsesDone(f, q, 1) = UsesDone(f, p, n) /\ DeclsDone(f, q, 1) = DeclsDone(f, p, n)
    BY <1>1, <1>3, <1>4, <2>1, ScanDone
  <2>3. p \notin {"parse", "run"} /\ q \notin {"parse", "run", "take", "generate"}
    BY <1>1, <1>3, <1>7 DEF Scans
  <2> QED BY <1>4, <2>2, <2>3 DEF FrameAt
<1>9. FrameAt(f, q, 1)'
  BY <1>4, <1>5, <1>6, <1>8, FrameStays
<1>10. \A g \in File : TableOk(g)'
  BY <1>2, Frozen DEF Books, TableOk, Comes
<1>11. q \in Phases /\ Go(q, 1)
  BY <1>1, <1>3, <1>7 DEF Phases, Scans
<1> QED BY <1>1, <1>2, <1>3, <1>6, <1>9, <1>10, <1>11, BooksGo

LEMMA ComesVisible ==
  ASSUME program \in [File -> Source], NEW f \in File, NEW x, NEW g, Comes(f, x, g)
  PROVE  Visible(f, x) # NoFile
<1>1. CASE x \in DeclSyms(f)
  BY <1>1, VisibleFacts
<1>2. CASE \E u \in UsesOf(f) : x \in ProvidedSyms(u)
  <2>1. PICK u \in UsesOf(f) : x \in ProvidedSyms(u)
    BY <1>2
  <2>2. PICK i \in DOMAIN program[f].imports : u = program[f].imports[i]
    BY UseFacts
  <2>3. Providers(f, x) # {}
    BY <2>1, <2>2 DEF Providers
  <2> QED BY <2>3, VisibleFacts
<1> QED BY <1>1, <1>2 DEF Comes

LEMMA AnalyseBooks ==
  ASSUME TypeOK, Books, Analyse, errors' = {}
  PROVE  Books'
<1>1. /\ stack # <<>> /\ Top.phase = "sema" /\ Go("generate", 1)
      /\ \A x \in Src.needs : domain[Top.file].global[x] # NoFile
  BY Unreported DEF Analyse, Running, AnyErrors
<1>2. /\ program' = program /\ mir' = mir /\ domain' = domain
      /\ status' = status /\ nameOf' = nameOf
  BY DEF Analyse, pkgVars
<1>3. PICK f, n : f = Top.file /\ n = Top.next
  OBVIOUS
<1>4. f \in File /\ program \in [File -> Source] /\ FrameAt(f, "sema", n)
  BY <1>1, <1>3, TopFacts
<1>5. Coded' = Coded /\ \A u : Met(u)' = Met(u)
  BY <1>2 DEF Coded, Met
<1>6. Grows
  BY <1>2, <1>5 DEF Grows
<1>7. FrameAt(f, "generate", 1)
  <2>1. /\ UsesDone(f, "generate", 1) = UsesDone(f, "sema", n)
        /\ DeclsDone(f, "generate", 1) = DeclsDone(f, "sema", n)
    BY AllDone
  <2>2. ASSUME NEW x \in program[f].needs PROVE Visible(f, x) # NoFile
    <3>1. x \in Sym
      BY <1>4 DEF Source
    <3>2. domain[f].global[x] # NoFile
      BY <1>1, <1>3, TopFacts
    <3>3. Comes(f, x, domain[f].global[x])
      BY <1>4, <3>1, <3>2 DEF Books, TableOk
    <3> QED BY <1>4, <3>3, ComesVisible
  <2> QED BY <1>4, <2>1, <2>2 DEF FrameAt
<1>8. FrameAt(f, "generate", 1)'
  BY <1>4, <1>5, <1>6, <1>7, FrameStays
<1>9. \A g \in File : TableOk(g)'
  BY <1>2, Frozen DEF Books, TableOk, Comes
<1>10. "generate" \in Phases
  BY DEF Phases
<1> QED BY <1>1, <1>2, <1>3, <1>6, <1>8, <1>9, <1>10, BooksGo

(* The tables after declarations have entered them. *)
LEMMA Entered ==
  ASSUME NEW dm \in Domain, NEW ds, NEW g
  PROVE  LET new == EnterBoth(dm, ds, g) IN
         /\ new.exists = dm.exists /\ new.owned = dm.owned
         /\ \A x \in Sym : new.global[x] = IF \E d \in ds : d.sym = x THEN g ELSE dm.global[x]
<1>1. \A x \in Sym : Enter(dm.global, ds, g)[x] = IF \E d \in ds : d.sym = x THEN g ELSE dm.global[x]
  BY DEF Enter
<1>2. /\ EnterBoth(dm, ds, g).exists = dm.exists /\ EnterBoth(dm, ds, g).owned = dm.owned
      /\ EnterBoth(dm, ds, g).global = Enter(dm.global, ds, g)
  BY DEF EnterBoth, Domain
<1> QED BY <1>1, <1>2

(* The use statement that is being served. *)
LEMMA Serving ==
  ASSUME TypeOK, CallersWait, WritesOwnTables, Books, TakeSymbols, errors' = {}
  PROVE  LET f == Top.file
             u == program[f].imports[Top.next]
             g == Find[u.name]
         IN  /\ stack # <<>> /\ Top.phase = "take" /\ Go("imports", Top.next + 1)
             /\ thisFile = f /\ f \in File
             /\ Top.next \in DOMAIN program[f].imports /\ u \in UsesOf(f) /\ u \in Use
             /\ g \in File /\ Met(u) /\ domain[g].exists
             /\ u.syms \subseteq {d.sym : d \in Taken(u, g)}
             /\ domain' = [domain EXCEPT ![f] = EnterBoth(domain[f], Taken(u, g), g)]
<1> DEFINE f == Top.file
           u == program[f].imports[Top.next]
           g == Find[u.name]
<1>1. stack # <<>> /\ Top.phase = "take" /\ Go("imports", Top.next + 1)
  BY DEF TakeSymbols, Running, NextImport
<1>2. errors = {}
  BY Unreported DEF TakeSymbols
<1>3. /\ program \in [File -> Source] /\ f \in File /\ Src = program[f]
      /\ FrameAt(f, "take", Top.next)
  BY <1>1, TopFacts
<1>4. thisFile = f
  BY <1>1, <1>2 DEF WritesOwnTables
<1>5. Top.next \in DOMAIN program[f].imports /\ Met(u)
  BY <1>3 DEF FrameAt
<1>6. u \in UsesOf(f)
  BY <1>3, <1>5, UseFacts
<1>7. u \in Use /\ Find[u.name] \in File \cup {NoFile}
  BY <1>3, <1>6, UseFacts
<1>8. g \in File
  BY <1>5, <1>7 DEF Met
<1>9. Src.imports[Top.next] = u
  BY <1>3
<1>10. domain[g].exists
  <2> HIDE DEF u
  <2>1. ~domain[g].exists => Report({Here("no_module")})
    BY <1>9 DEF TakeSymbols
  <2> QED BY <2>1, Unreported
<1>11. /\ ReportIf("no_symbol", Missing(u, g) # {})
       /\ domain' = [domain EXCEPT ![thisFile] = EnterBoth(domain[thisFile], Taken(u, g), g)]
  <2> HIDE DEF u
  <2> QED BY <1>9, <1>10 DEF TakeSymbols
<1>12. Missing(u, g) = {}
  BY <1>11, Unreported
<1> QED BY <1>1, <1>3, <1>4, <1>5, <1>6, <1>7, <1>8, <1>10, <1>11, <1>12 DEF Missing

LEMMA TakeBooks ==
  ASSUME TypeOK, CallersWait, WritesOwnTables, Books, TakeSymbols, errors' = {}
  PROVE  Books'
<1>1. PICK f, n : f = Top.file /\ n = Top.next
  OBVIOUS
<1>2. PICK u : u = program[f].imports[n]
  OBVIOUS
<1>3. PICK g : g = Find[u.name]
  OBVIOUS
<1>4. /\ stack # <<>> /\ Top.phase = "take" /\ Go("imports", n + 1)
      /\ f \in File /\ n \in DOMAIN program[f].imports /\ u \in UsesOf(f)
      /\ g \in File /\ Met(u) /\ u.syms \subseteq {d.sym : d \in Taken(u, g)}
      /\ domain' = [domain EXCEPT ![f] = EnterBoth(domain[f], Taken(u, g), g)]
  BY <1>1, <1>2, <1>3, Serving
<1>5. program \in [File -> Source] /\ FrameAt(f, "take", n) /\ n \in Nat \ {0}
  BY <1>1, <1>4, TopFacts
<1>6. /\ program' = program /\ mir' = mir
      /\ status' = status /\ nameOf' = nameOf
  BY DEF TakeSymbols, pkgVars
<1>7. {d.sym : d \in Taken(u, g)} \subseteq ProvidedSyms(u)
  <2>1. domain[g].owned \subseteq DeclsOf(g)
    BY <1>4 DEF Books, TableOk
  <2>2. Taken(u, g) \subseteq Provides(u)
    BY <1>3, <1>4, <2>1 DEF Taken, Provides, Met
  <2> QED BY <2>2 DEF ProvidedSyms
<1>8. /\ \A h \in File : h # f => domain'[h] = domain[h]
      /\ domain'[f].exists = domain[f].exists /\ domain'[f].owned = domain[f].owned
      /\ \A x \in Sym : domain'[f].global[x] =
           IF \E d \in Taken(u, g) : d.sym = x THEN g ELSE domain[f].global[x]
  <2>1. domain \in [File -> Domain]
    BY DEF TypeOK
  <2> DEFINE new == EnterBoth(domain[f], Taken(u, g), g)
  <2>2. domain[f] \in Domain
    BY <1>4, <2>1
  <2>3. /\ new.exists = domain[f].exists /\ new.owned = domain[f].owned
        /\ \A x \in Sym : new.global[x] = IF \E d \in Taken(u, g) : d.sym = x THEN g ELSE domain[f].global[x]
    BY <2>2, Entered
  <2>4. domain'[f] = new /\ \A h \in File : h # f => domain'[h] = domain[h]
    <3> HIDE DEF new
    <3>1. domain' = [domain EXCEPT ![f] = new]
      BY <1>4 DEF new
    <3> QED BY <1>4, <2>1, <3>1
  <2> HIDE DEF new
  <2> QED BY <2>3, <2>4
<1>9. Coded' = Coded /\ \A v : Met(v)' = Met(v)
  BY <1>6 DEF Coded, Met
<1>10. Grows
  <2>1. \A h \in File : domain[h].owned \subseteq domain'[h].owned /\ (domain[h].exists => domain'[h].exists)
    BY <1>8
  <2> QED BY <1>6, <1>9, <2>1 DEF Grows
<1>11. FrameAt(f, "imports", n + 1)
  <2>1. UsesDone(f, "imports", n + 1) = UsesDone(f, "take", n) \cup {n}
    BY <1>4, <1>5, UseDone
  <2>2. DeclsDone(f, "imports", n + 1) = {}
    BY NothingDone
  <2>3. Served(program[f].imports[n])
    BY <1>2, <1>4, <1>7 DEF Served
  <2>4. program[f].parses /\ domain[f].exists /\ \A i \in UsesDone(f, "take", n) : Served(program[f].imports[i])
    BY <1>5 DEF FrameAt
  <2>5. \A i \in UsesDone(f, "imports", n + 1) : Served(program[f].imports[i])
    BY <2>1, <2>3, <2>4
  <2> QED BY <2>2, <2>4, <2>5 DEF FrameAt
<1>12. PICK k : k = n + 1
  OBVIOUS
<1>13. FrameAt(f, "imports", k)'
  BY <1>4, <1>9, <1>10, <1>11, <1>12, FrameStays
<1>14. \A h \in File : TableOk(h)'
  <2>1. \A h : DeclsOf(h)' = DeclsOf(h) /\ \A x, y : Comes(h, x, y)' = Comes(h, x, y)
    BY <1>6, Frozen DEF Comes
  <2>2. TableOk(f)'
    <3>1. /\ domain[f].owned \subseteq DeclsOf(f)
          /\ \A d \in domain[f].owned : domain[f].global[d.sym] # NoFile
          /\ \A x \in Sym : domain[f].global[x] # NoFile => Comes(f, x, domain[f].global[x])
      BY <1>4 DEF Books, TableOk
    <3>2. \A d \in domain[f].owned : d.sym \in Sym
      <4>1. domain[f] \in Domain
        BY <1>4 DEF TypeOK
      <4> QED BY <4>1 DEF Domain, Decl
    <3>3. g # NoFile
      BY <1>3, <1>4 DEF Met
    <3>4. \A x \in Sym : (\E d \in Taken(u, g) : d.sym = x) => Comes(f, x, g)
      BY <1>3, <1>4, <1>7 DEF Comes
    <3>5. \A d \in domain'[f].owned : domain'[f].global[d.sym] # NoFile
      BY <1>8, <3>1, <3>2, <3>3
    <3>6. \A x \in Sym : domain'[f].global[x] # NoFile => Comes(f, x, domain'[f].global[x])
      BY <1>8, <3>1, <3>4
    <3> QED BY <1>8, <2>1, <3>1, <3>5, <3>6 DEF TableOk
  <2>3. ASSUME NEW h \in File, h # f PROVE TableOk(h)'
    <3>1. domain'[h] = domain[h] /\ TableOk(h)
      BY <1>8, <2>3 DEF Books
    <3> QED BY <2>1, <3>1 DEF TableOk
  <2> QED BY <2>2, <2>3
<1>15. "imports" \in Phases /\ k \in Nat \ {0} /\ Go("imports", k)
  BY <1>4, <1>5, <1>12 DEF Phases
<1> QED BY <1>1, <1>4, <1>6, <1>10, <1>13, <1>14, <1>15, BooksGo

(* The declaration that is being registered. *)
LEMMA Registering ==
  ASSUME TypeOK, WritesOwnTables, Books, Register, errors' = {}
  PROVE  LET f == Top.file
             d == At(f, <<Top.phase, Top.next>>)
         IN  /\ stack # <<>> /\ Top.phase \in Scans /\ Go(Top.phase, Top.next + 1)
             /\ thisFile = f /\ f \in File
             /\ Top.next \in DOMAIN program[f].decls[Top.phase]
             /\ d \in DeclsOf(f) /\ d \in Decl
             /\ domain[f].global[d.sym] = NoFile
             /\ domain' = [domain EXCEPT ![f] = EnterBoth(Own(domain[f], d), {d}, f)]
<1> DEFINE f == Top.file
           d == At(f, <<Top.phase, Top.next>>)
<1>1. stack # <<>> /\ Top.phase \in Scans /\ Go(Top.phase, Top.next + 1) /\ Top.next <= Len(Items)
  BY DEF Register
<1>2. /\ program \in [File -> Source] /\ f \in File /\ Src = program[f] /\ Top.next \in Nat \ {0}
  BY <1>1, TopFacts
<1>3. Items = program[f].decls[Top.phase]
  BY <1>1, <1>2 DEF Items, Scans
<1>4. Top.next \in DOMAIN program[f].decls[Top.phase]
  <2>1. program[f].decls[Top.phase] \in Seq(Decl)
    BY <1>1, <1>2, PlaceFacts
  <2> QED BY <1>1, <1>2, <1>3, <2>1
<1>5. <<Top.phase, Top.next>> \in Places(f) /\ Items[Top.next] = d
  BY <1>1, <1>2, <1>3, <1>4 DEF Places, At
<1>6. d \in DeclsOf(f) /\ d \in Decl
  BY <1>2, <1>5, PlaceFacts
<1>7. ReportIf("clash", Clash(Items[Top.next]))
  BY DEF Register
<1>8. ~Clash(d) /\ errors = {}
  BY <1>5, <1>7, Unreported
<1>9. thisFile = f
  BY <1>1, <1>8 DEF WritesOwnTables, Scans
<1>10. domain[f].global[d.sym] = NoFile
  BY <1>8, <1>9 DEF Clash
<1>11. domain' = [domain EXCEPT ![f] = EnterBoth(Own(domain[f], d), {d}, f)]
  <2> HIDE DEF d
  <2> DEFINE own == [domain EXCEPT ![f] = Own(domain[f], d)]
  <2>1. domain' = [own EXCEPT ![f] = EnterBoth(own[f], {d}, f)]
    BY <1>5, <1>8, <1>9 DEF Register
  <2>2. domain \in [File -> Domain]
    BY DEF TypeOK
  <2>3. own[f] = Own(domain[f], d)
    BY <1>2, <2>2
  <2> DEFINE e == EnterBoth(Own(domain[f], d), {d}, f)
             o == Own(domain[f], d)
  <2>4. domain' = [own EXCEPT ![f] = e]
    BY <2>1, <2>3
  <2>5. own = [domain EXCEPT ![f] = o]
    OBVIOUS
  <2> HIDE DEF own, e, o
  <2>6. [own EXCEPT ![f] = e] = [domain EXCEPT ![f] = e]
    BY <1>2, <2>2, <2>5
  <2> QED BY <2>4, <2>6 DEF e
<1> QED BY <1>1, <1>2, <1>4, <1>6, <1>9, <1>10, <1>11

LEMMA RegisterBooks ==
  ASSUME TypeOK, WritesOwnTables, Books, Register, errors' = {}
  PROVE  Books'
<1>1. PICK f, p, n : f = Top.file /\ p = Top.phase /\ n = Top.next
  OBVIOUS
<1>2. PICK d : d = At(f, <<p, n>>)
  OBVIOUS
<1>3. /\ stack # <<>> /\ p \in Scans /\ Go(p, n + 1)
      /\ f \in File /\ n \in DOMAIN program[f].decls[p]
      /\ d \in DeclsOf(f) /\ d \in Decl
      /\ domain[f].global[d.sym] = NoFile
      /\ domain' = [domain EXCEPT ![f] = EnterBoth(Own(domain[f], d), {d}, f)]
  BY <1>1, <1>2, Registering
<1>4. program \in [File -> Source] /\ FrameAt(f, p, n) /\ n \in Nat \ {0} /\ p \in Phases
  BY <1>1, <1>3, TopFacts
<1>5. /\ program' = program /\ mir' = mir
      /\ status' = status /\ nameOf' = nameOf
  BY DEF Register, pkgVars
<1>6. /\ \A h \in File : h # f => domain'[h] = domain[h]
      /\ domain'[f].exists = domain[f].exists /\ domain'[f].owned = domain[f].owned \cup {d}
      /\ \A x \in Sym : domain'[f].global[x] = IF x = d.sym THEN f ELSE domain[f].global[x]
  <2>1. domain \in [File -> Domain]
    BY DEF TypeOK
  <2> DEFINE own == Own(domain[f], d)
             new == EnterBoth(own, {d}, f)
  <2>2. domain[f] \in Domain
    BY <1>3, <2>1
  <2>3. /\ own \in Domain /\ own.exists = domain[f].exists
        /\ own.owned = domain[f].owned \cup {d} /\ own.global = domain[f].global
    BY <1>3, <2>2, OwnType DEF Own, Domain
  <2>4. /\ new.exists = own.exists /\ new.owned = own.owned
        /\ \A x \in Sym : new.global[x] = IF \E e \in {d} : e.sym = x THEN f ELSE own.global[x]
    <3> HIDE DEF own
    <3> QED BY <2>3, Entered
  <2>5. domain'[f] = new /\ \A h \in File : h # f => domain'[h] = domain[h]
    <3> HIDE DEF new
    <3>1. domain' = [domain EXCEPT ![f] = new]
      BY <1>3 DEF new
    <3> QED BY <1>3, <2>1, <3>1
  <2> HIDE DEF own, new
  <2> QED BY <2>3, <2>4, <2>5
<1>7. Coded' = Coded /\ \A v : Met(v)' = Met(v)
  BY <1>5 DEF Coded, Met
<1>8. Grows
  <2>1. \A h \in File : domain[h].owned \subseteq domain'[h].owned /\ (domain[h].exists => domain'[h].exists)
    BY <1>6
  <2> QED BY <1>5, <1>7, <2>1 DEF Grows
<1>9. TableOk(f) /\ \A e \in domain[f].owned : e.sym \in Sym
  <2>1. TableOk(f)
    BY <1>3 DEF Books
  <2>2. domain[f] \in Domain
    BY <1>3 DEF TypeOK
  <2>3. domain[f].owned \in SUBSET Decl
    BY <2>2 DEF Domain
  <2>4. \A e \in Decl : e.sym \in Sym
    BY DEF Decl
  <2> QED BY <2>1, <2>3, <2>4
<1>10. d \notin domain[f].owned /\ \A e \in domain[f].owned : e.sym # d.sym
  BY <1>3, <1>9 DEF TableOk
<1>11. f \notin Coded
  <2>1. f \in Coded => DeclsOf(f) \subseteq domain[f].owned
    BY DEF Books, CodedOk
  <2> QED BY <1>3, <1>10, <2>1
<1>12. PICK k : k = n + 1
  OBVIOUS
<1>13. FrameAt(f, p, k)'
  <2>1. /\ UsesDone(f, p, k)' = UsesDone(f, p, n)
        /\ DeclsDone(f, p, k)' = DeclsDone(f, p, n) \cup {<<p, n>>}
    <3>1. UsesDone(f, p, k) = UsesDone(f, p, n)
      BY <1>3, AllDone
    <3>2. DeclsDone(f, p, k) = DeclsDone(f, p, n) \cup {<<p, n>>}
      BY <1>3, <1>4, <1>12, DeclDone
    <3> QED BY <1>5, <3>1, <3>2, Frozen
  <2>2. \A e : At(f, e)' = At(f, e)
    BY <1>5, Frozen
  <2>3. p \notin {"parse", "run", "take", "generate"}
    BY <1>3 DEF Scans
  <2>4. /\ program[f].parses /\ domain[f].exists
        /\ \A i \in UsesDone(f, p, n) : Served(program[f].imports[i])
        /\ \A e \in DeclsDone(f, p, n) : At(f, e) \in domain[f].owned
        /\ \A e, g \in DeclsDone(f, p, n) : e # g => At(f, e).sym # At(f, g).sym
    BY <1>4, <2>3 DEF FrameAt
  <2>5. \A i \in UsesDone(f, p, n) : Served(program[f].imports[i])'
    <3> SUFFICES ASSUME NEW i \in UsesDone(f, p, n) PROVE Served(program[f].imports[i])'
      OBVIOUS
    <3>1. PICK u : u = program[f].imports[i]
      OBVIOUS
    <3>2. Served(u)'
      BY <1>8, <2>4, <3>1, ServedStays
    <3> QED BY <1>5, <3>1, <3>2
  <2>6. \A e \in DeclsDone(f, p, n) \cup {<<p, n>>} : At(f, e) \in domain'[f].owned
    BY <1>2, <1>6, <2>4
  <2>7. \A e, g \in DeclsDone(f, p, n) \cup {<<p, n>>} : e # g => At(f, e).sym # At(f, g).sym
    <3>1. \A e \in DeclsDone(f, p, n) : At(f, e).sym # At(f, <<p, n>>).sym
      BY <1>2, <1>10, <2>4
    <3> QED BY <2>4, <3>1
  <2>8. program'[f].parses /\ domain'[f].exists
    BY <1>5, <1>6, <2>4
  <2> QED BY <1>5, <1>7, <1>11, <2>1, <2>2, <2>3, <2>5, <2>6, <2>7, <2>8 DEF FrameAt
<1>14. \A h \in File : TableOk(h)'
  <2>1. \A h : DeclsOf(h)' = DeclsOf(h) /\ \A x, y : Comes(h, x, y)' = Comes(h, x, y)
    BY <1>5, Frozen DEF Comes
  <2>2. TableOk(f)'
    <3>1. /\ domain[f].owned \subseteq DeclsOf(f)
          /\ \A e \in domain[f].owned : domain[f].global[e.sym] # NoFile
          /\ \A x \in Sym : domain[f].global[x] # NoFile => Comes(f, x, domain[f].global[x])
      BY <1>9 DEF TableOk
    <3>2. f # NoFile /\ d.sym \in Sym
      BY <1>3, ImportAssumption DEF Decl
    <3>3. Comes(f, d.sym, f)
      BY <1>3 DEF Comes, DeclSyms
    <3>4. \A e \in domain'[f].owned : domain'[f].global[e.sym] # NoFile
      BY <1>6, <1>9, <3>1, <3>2
    <3>5. \A x \in Sym : domain'[f].global[x] # NoFile => Comes(f, x, domain'[f].global[x])
      BY <1>6, <3>1, <3>3
    <3> QED BY <1>3, <1>6, <2>1, <3>1, <3>4, <3>5 DEF TableOk
  <2>3. ASSUME NEW h \in File, h # f PROVE TableOk(h)'
    <3>1. domain'[h] = domain[h] /\ TableOk(h)
      BY <1>6, <2>3 DEF Books
    <3> QED BY <2>1, <3>1 DEF TableOk
  <2> QED BY <2>2, <2>3
<1>15. k \in Nat \ {0} /\ Go(p, k)
  BY <1>3, <1>4, <1>12
<1> QED BY <1>1, <1>3, <1>4, <1>5, <1>8, <1>13, <1>14, <1>15, BooksGo

(* The use statement whose module is looked for. *)
LEMMA Finding ==
  ASSUME TypeOK, Books, FindModule, errors' = {}
  PROVE  LET f == Top.file
             u == program[f].imports[Top.next]
             g == Find[u.name]
         IN  /\ stack # <<>> /\ Top.phase = "imports" /\ f \in File
             /\ Top.next \in DOMAIN program[f].imports /\ u \in UsesOf(f)
             /\ u.name \in Name /\ g \in File /\ g \in Deps(f)
             /\ \/ /\ status[u.name] # "not_exist" /\ Go("take", Top.next)
                   /\ status' = status /\ nameOf' = nameOf
                \/ /\ status[u.name] = "not_exist"
                   /\ stack' = Append(stack, NewFrame(g, u.name))
                   /\ status' = [status EXCEPT ![u.name] = "analysing"]
                   /\ nameOf' = [nameOf EXCEPT ![g] = u.name]
<1> DEFINE f == Top.file
           u == program[f].imports[Top.next]
           g == Find[u.name]
<1>1. stack # <<>> /\ Top.phase = "imports" /\ Top.next <= Len(Items)
  BY DEF FindModule, Running
<1>2. /\ program \in [File -> Source] /\ f \in File /\ Src = program[f] /\ Top.next \in Nat \ {0}
      /\ FrameAt(f, "imports", Top.next)
  BY <1>1, TopFacts
<1>3. Items = program[f].imports /\ Items \in Seq(Use)
  BY <1>1, <1>2, UseFacts DEF Items
<1>4. Top.next \in DOMAIN program[f].imports /\ Items[Top.next] = u
  BY <1>1, <1>2, <1>3
<1>5. u \in UsesOf(f)
  BY <1>2, <1>4, UseFacts
<1>6. u.name \in Name /\ g \in File \cup {NoFile}
  BY <1>2, <1>5, UseFacts
<1>7. ReportIf("no_file", g = NoFile)
  <2> HIDE DEF u
  <2> QED BY <1>4 DEF FindModule
<1>8. g \in File
  BY <1>6, <1>7, Unreported
<1>9. g \in Deps(f)
  <2>1. program[f].parses
    BY <1>2 DEF FrameAt
  <2> QED BY <1>2, <1>5, <1>8, <2>1, ImportAssumption, DepsFacts
<1>10. \/ /\ status[u.name] # "not_exist" /\ Go("take", Top.next)
          /\ status' = status /\ nameOf' = nameOf
       \/ /\ status[u.name] = "not_exist"
          /\ stack' = Append(stack, NewFrame(g, u.name))
          /\ status' = [status EXCEPT ![u.name] = "analysing"]
          /\ nameOf' = [nameOf EXCEPT ![g] = u.name]
  <2> HIDE DEF u
  <2>1. g # NoFile
    BY <1>8, ImportAssumption
  <2> QED BY <1>4, <2>1 DEF FindModule, Fresh, Mark
<1> QED BY <1>1, <1>2, <1>4, <1>5, <1>6, <1>8, <1>9, <1>10

LEMMA KnownBooks ==
  ASSUME TypeOK, Books, FindModule, errors' = {}, status' = status, nameOf' = nameOf,
         status[program[Top.file].imports[Top.next].name] # "not_exist", Go("take", Top.next)
  PROVE  Books'
<1>1. PICK f, n : f = Top.file /\ n = Top.next
  OBVIOUS
<1>2. /\ stack # <<>> /\ Top.phase = "imports" /\ f \in File
      /\ n \in DOMAIN program[f].imports /\ Find[program[f].imports[n].name] \in File
  BY <1>1, Finding
<1>3. program \in [File -> Source] /\ FrameAt(f, "imports", n) /\ n \in Nat \ {0}
  BY <1>1, <1>2, TopFacts
<1>4. program' = program /\ mir' = mir /\ domain' = domain
  BY DEF FindModule
<1>5. Coded' = Coded /\ \A v : Met(v)' = Met(v)
  BY <1>4 DEF Coded, Met
<1>6. Grows
  BY <1>4, <1>5 DEF Grows
<1>7. FrameAt(f, "take", n)
  <2>1. UsesDone(f, "take", n) = UsesDone(f, "imports", n)
    BY <1>2, <1>3, UseDone
  <2>2. DeclsDone(f, "take", n) = {}
    BY NothingDone
  <2>3. Met(program[f].imports[n])
    BY <1>1, <1>2, ImportAssumption DEF Met
  <2> QED BY <1>2, <1>3, <2>1, <2>2, <2>3 DEF FrameAt
<1>8. FrameAt(f, "take", n)'
  BY <1>2, <1>5, <1>6, <1>7, FrameStays
<1>9. \A h \in File : TableOk(h)'
  BY <1>4, Frozen DEF Books, TableOk, Comes
<1>10. "take" \in Phases /\ Go("take", n)
  BY <1>1 DEF Phases
<1> QED BY <1>1, <1>2, <1>3, <1>4, <1>6, <1>8, <1>9, <1>10, BooksGo

(* The frame of module m, whose file g the innermost file f imports, is pushed. *)
Enters(f, m, g) ==
  /\ stack # <<>> /\ f = Top.file /\ f \in File /\ g \in Deps(f)
  /\ m \in Name /\ m \in UsedNames /\ g = Find[m] /\ g \in File
  /\ status[m] = "not_exist"
  /\ stack' = Append(stack, NewFrame(g, m))
  /\ status' = [status EXCEPT ![m] = "analysing"]
  /\ nameOf' = [nameOf EXCEPT ![g] = m]
  /\ program' = program /\ mir' = mir /\ domain' = domain

LEMMA FreshBooks ==
  ASSUME TypeOK, Books, NEW f, NEW m, NEW g, Enters(f, m, g)
  PROVE  Books'
<1>1. /\ stack # <<>> /\ f = Top.file /\ f \in File /\ g \in Deps(f)
      /\ m \in Name /\ m \in UsedNames /\ g = Find[m] /\ g \in File
  BY DEF Enters
<1>2. /\ program \in [File -> Source] /\ StackOK
      /\ Len(stack) \in Nat \ {0} /\ DOMAIN stack = 1 .. Len(stack) /\ Top = stack[Len(stack)]
      /\ \A i \in 1 .. Len(stack) : stack[i] \in Frame
  BY <1>1, TopFacts DEF StackOK, Top
<1>3. /\ Len(stack') = Len(stack) + 1 /\ DOMAIN stack' = 1 .. Len(stack) + 1 /\ stack' # <<>>
      /\ \A i \in 1 .. Len(stack) : stack'[i] = stack[i]
      /\ stack'[Len(stack) + 1].file = g /\ stack'[Len(stack) + 1].phase = "parse"
      /\ stack'[Len(stack) + 1].next = 1
  <2>1. /\ StackOK' /\ Top' = NewFrame(g, m) /\ Len(stack') = Len(stack) + 1
        /\ \A i \in 1 .. Len(stack) : stack'[i] = stack[i]
    <3>1. stack' = Append(stack, NewFrame(g, m))
      BY DEF Enters
    <3> QED BY <1>1, <1>2, <3>1, PushOK
  <2>2. DOMAIN stack' = 1 .. Len(stack) + 1
    BY <2>1 DEF StackOK
  <2>3. stack'[Len(stack) + 1] = NewFrame(g, m)
    BY <2>1 DEF Top
  <2> QED BY <1>2, <2>1, <2>2, <2>3 DEF NewFrame
<1>4. \A i \in 1 .. Len(stack) + 1 : i \in 1 .. Len(stack) \/ i = Len(stack) + 1
  BY <1>2
<1>5. program' = program /\ mir' = mir /\ domain' = domain /\ Coded' = Coded
  BY DEF Enters, Coded
<1>6. /\ status'[m] = "analysing"
      /\ \A n : n # m => status'[n] = status[n]
  <2>1. status \in [Name -> Statuses]
    BY DEF TypeOK
  <2>2. status' = [status EXCEPT ![m] = "analysing"]
    BY DEF Enters
  <2> QED BY <1>1, <2>1, <2>2
<1>7. \A v : Met(v) => Met(v)'
  BY <1>6 DEF Met
<1>8. Grows
  BY <1>5, <1>7 DEF Grows
<1>9. Chain'
  <2>1. \A h : Order!Reach(h)' = Order!Reach(h)
    BY <1>5, GraphFrozen
  <2>2. stack'[1].file = Root
    BY <1>1, <1>2, <1>3 DEF Books, Chain
  <2>3. \A i, j \in DOMAIN stack : i < j => stack[j].file \in Order!Reach(stack[i].file)
    BY DEF Books, Chain
  <2>4. \A i \in 1 .. Len(stack) : g \in Order!Reach(stack[i].file)
    <3> SUFFICES ASSUME NEW i \in 1 .. Len(stack) PROVE g \in Order!Reach(stack[i].file)
      OBVIOUS
    <3>1. CASE i = Len(stack)
      BY <1>1, <1>2, <3>1, ReachFacts
    <3>2. CASE i < Len(stack)
      <4>1. f \in Order!Reach(stack[i].file)
        <5>1. i \in DOMAIN stack /\ Len(stack) \in DOMAIN stack
          BY <1>2
        <5>2. f = stack[Len(stack)].file
          BY <1>1, <1>2
        <5> QED BY <2>3, <3>2, <5>1, <5>2
      <4>2. stack[i].file \in File
        BY <1>2 DEF Frame
      <4> QED BY <1>1, <1>2, <4>1, <4>2, ReachFacts
    <3>3. i = Len(stack) \/ i < Len(stack)
      <4>1. Len(stack) \in Nat
        BY <1>2
      <4> QED BY <4>1
    <3> QED BY <3>1, <3>2, <3>3
  <2>5. ASSUME NEW i \in DOMAIN stack', NEW j \in DOMAIN stack', i < j
        PROVE  stack'[j].file \in Order!Reach(stack[i].file)'
    <3>1. i \in 1 .. Len(stack)
      BY <1>2, <1>3, <2>5
    <3>2. stack'[i].file = stack[i].file
      BY <1>3, <3>1
    <3>3. Order!Reach(stack[i].file)' = Order!Reach(stack[i].file)
      BY <2>1, <3>2
    <3>4. stack'[j].file \in Order!Reach(stack[i].file)
      <4>1. CASE j = Len(stack) + 1
        BY <1>3, <2>4, <3>1, <4>1
      <4>2. CASE j \in 1 .. Len(stack)
        BY <1>2, <1>3, <2>3, <2>5, <3>1, <4>2
      <4> QED BY <1>3, <1>4, <4>1, <4>2
    <3> QED BY <3>3, <3>4
  <2> QED BY <2>2, <2>5 DEF Chain
<1>10. FrameAt(g, "parse", 1)'
  <2>1. UsesDone(g, "parse", 1) = {} /\ DeclsDone(g, "parse", 1) = {}
    BY NothingDone
  <2>2. UsesDone(g, "parse", 1)' = {} /\ DeclsDone(g, "parse", 1)' = {}
    BY <1>5, <2>1, Frozen
  <2> QED BY <2>2 DEF FrameAt
<1>11. \A i \in DOMAIN stack' : FrameAt(stack[i].file, stack[i].phase, stack[i].next)'
  <2> SUFFICES ASSUME NEW i \in 1 .. Len(stack) + 1
               PROVE  FrameAt(stack[i].file, stack[i].phase, stack[i].next)'
    BY <1>3
  <2>1. CASE i = Len(stack) + 1
    BY <1>3, <1>10, <2>1
  <2>2. CASE i \in 1 .. Len(stack)
    <3>1. PICK h, q, n : h = stack[i].file /\ q = stack[i].phase /\ n = stack[i].next
      OBVIOUS
    <3>2. h \in File /\ FrameAt(h, q, n)
      BY <1>2, <2>2, <3>1 DEF Books, Frame
    <3>3. FrameAt(h, q, n)'
      BY <1>5, <1>8, <3>2, FrameStays
    <3>4. stack'[i].file = h /\ stack'[i].phase = q /\ stack'[i].next = n
      BY <1>3, <2>2, <3>1
    <3> QED BY <3>3, <3>4
  <2> QED BY <1>4, <2>1, <2>2
<1>12. \A h \in Coded' : CodedOk(h)'
  <2>1. \A h \in Coded : h \in File /\ CodedOk(h)
    BY CodedFacts DEF Books
  <2> QED BY <1>5, <1>8, <2>1, CodedStays
<1>13. \A n \in Name : NameOk(n)'
  <2>1. UsedNames' = UsedNames
    BY <1>5, GraphFrozen
  <2>2. NameOk(m)'
    BY <1>1, <1>6, <2>1 DEF NameOk
  <2>3. ASSUME NEW n \in Name, n # m PROVE NameOk(n)'
    BY <1>5, <1>6, <2>1, <2>3 DEF Books, NameOk
  <2> QED BY <2>2, <2>3
<1>14. OneCode' /\ OneName' /\ CodeNames'
  <2>1. \A h : Bare(h)' = Bare(h)
    BY <1>5, Frozen
  <2>2. Active' = Active \cup {g}
    <3>1. \A i \in DOMAIN stack : i \in DOMAIN stack' /\ stack'[i].file = stack[i].file
      BY <1>2, <1>3
    <3>2. Len(stack) + 1 \in DOMAIN stack' /\ stack'[Len(stack) + 1].file = g
      BY <1>2, <1>3
    <3>3. \A i \in DOMAIN stack' : stack'[i].file = g \/ (i \in DOMAIN stack /\ stack'[i].file = stack[i].file)
      BY <1>2, <1>3, <1>4
    <3> QED BY <3>1, <3>2, <3>3 DEF Active
  <2>3. OneCode /\ OneName /\ CodeNames
    BY DEF Books
  <2>4. OneCode'
    BY <1>5, <2>1, <2>3 DEF OneCode
  <2>5. OneName'
    BY <1>6, <2>1, <2>3 DEF OneName
  <2>6. CodeNames'
    <3>1. \A h : h # g => nameOf'[h] = nameOf[h]
      <4>1. nameOf \in [File -> Name \cup {NoName}]
        BY DEF TypeOK
      <4>2. nameOf' = [nameOf EXCEPT ![g] = m]
        BY DEF Enters
      <4> QED BY <4>1, <4>2
    <3> QED BY <1>5, <2>1, <2>2, <2>3, <3>1 DEF CodeNames
  <2> QED BY <2>4, <2>5, <2>6
<1>15. \A h \in File : TableOk(h)'
  BY <1>5, Frozen DEF Books, TableOk, Comes
<1> QED BY <1>3, <1>9, <1>11, <1>12, <1>13, <1>14, <1>15 DEF Books

LEMMA FindBooks ==
  ASSUME TypeOK, Books, FindModule, errors' = {}
  PROVE  Books'
<1>1. PICK f, u : f = Top.file /\ u = program[f].imports[Top.next]
  OBVIOUS
<1>2. PICK m, g : m = u.name /\ g = Find[m]
  OBVIOUS
<1>3. /\ stack # <<>> /\ f \in File /\ u \in UsesOf(f) /\ m \in Name /\ g \in File /\ g \in Deps(f)
      /\ \/ /\ status[m] # "not_exist" /\ Go("take", Top.next)
            /\ status' = status /\ nameOf' = nameOf
         \/ /\ status[m] = "not_exist"
            /\ stack' = Append(stack, NewFrame(g, m))
            /\ status' = [status EXCEPT ![m] = "analysing"]
            /\ nameOf' = [nameOf EXCEPT ![g] = m]
  BY <1>1, <1>2, Finding
<1>4. CASE status[m] # "not_exist"
  BY <1>1, <1>2, <1>3, <1>4, KnownBooks
<1>5. CASE status[m] = "not_exist"
  <2>1. f \in Reachable
    BY <1>1, <1>3, TopFacts
  <2>2. m \in UsedNames
    BY <1>2, <1>3, <2>1 DEF UsedNames
  <2>3. program' = program /\ mir' = mir /\ domain' = domain
    BY DEF FindModule
  <2>4. Enters(f, m, g)
    BY <1>1, <1>2, <1>3, <1>5, <2>2, <2>3 DEF Enters
  <2> QED BY <2>4, FreshBooks
<1> QED BY <1>4, <1>5

(* The frame of the innermost file f, compiled as module m unless it is the
   root, returns to its caller. *)
Leaves(f, m) ==
  /\ stack # <<>> /\ f = Top.file /\ f \in File /\ m = Top.name
  /\ Return("take", Caller.next)
  /\ mir' = Append(mir, [file |-> f, name |-> nameOf[f]])
  /\ status' = IF Len(stack) = 1 THEN status ELSE [status EXCEPT ![m] = "analysed"]
  /\ Len(stack) > 1 => m \in Name /\ Find[m] = f /\ status[m] = "analysing"
  /\ program' = program /\ domain' = domain /\ nameOf' = nameOf

LEMMA Leaving ==
  ASSUME TypeOK, CallersWait, NoReentry, Books, Generate
  PROVE  Leaves(Top.file, Top.name) /\ Top.phase = "generate"
<1>1. stack # <<>> /\ Top.phase = "generate" /\ Return("take", Caller.next)
  BY DEF Generate, Running
<1>2. /\ StackOK /\ program \in [File -> Source] /\ Top.file \in File
      /\ Len(stack) \in Nat \ {0} /\ Len(stack) \in DOMAIN stack
  BY <1>1, TopFacts
<1>3. ASSUME Len(stack) > 1
      PROVE  Top.name \in Name /\ Find[Top.name] = Top.file /\ status[Top.name] = "analysing"
  <2>1. Top.name \in Name
    BY <1>1, <1>2, <1>3, TopFrame
  <2>2. Len(stack) - 1 \in DOMAIN stack /\ Len(stack) = (Len(stack) - 1) + 1
    BY <1>2, <1>3 DEF StackOK
  <2>3. Waits(Len(stack) - 1, Len(stack))
    BY <1>2, <2>2 DEF CallersWait, Nested
  <2>4. Find[Top.name] = Top.file
    BY <2>3 DEF Waits, Top
  <2>5. status[Top.name] = "analysing"
    BY <1>2, <1>3 DEF NoReentry, Top
  <2> QED BY <2>1, <2>4, <2>5
<1> QED BY <1>1, <1>2, <1>3 DEF Leaves, Generate

(* What is known of a file when its code is generated. *)
LEMMA GeneratedFile ==
  ASSUME TypeOK, Books, stack # <<>>, Top.phase = "generate"
  PROVE  CodedOk(Top.file) /\ (Top.file \in Coded => Bare(Top.file))
<1>1. PICK f, n : f = Top.file /\ n = Top.next
  OBVIOUS
<1>2. /\ program \in [File -> Source] /\ f \in File /\ FrameAt(f, "generate", n)
      /\ f \in Reachable
  BY <1>1, TopFacts
<1>3. UsesDone(f, "generate", n) = DOMAIN program[f].imports /\ DeclsDone(f, "generate", n) = Places(f)
  BY AllDone
<1>4. /\ program[f].parses /\ domain[f].exists
      /\ \A x \in program[f].needs : Visible(f, x) # NoFile
      /\ \A i \in DOMAIN program[f].imports : Served(program[f].imports[i])
      /\ \A d \in Places(f) : At(f, d) \in domain[f].owned
      /\ \A d, e \in Places(f) : d # e => At(f, d).sym # At(f, e).sym
      /\ f \in Coded => Places(f) = {}
  BY <1>2, <1>3 DEF FrameAt
<1>5. \A u \in UsesOf(f) : Served(u)
  BY <1>2, <1>4, UseFacts
<1>6. Closed(f)
  BY <1>4, <1>5 DEF Closed, Served, Met
<1>7. ~DeclaresTwice(f) /\ DeclsOf(f) \subseteq domain[f].owned
  BY <1>2, <1>4, PlaceFacts
<1>8. f \in Coded => Bare(f)
  BY <1>2, <1>4, PlaceFacts DEF Bare
<1> QED BY <1>1, <1>2, <1>4, <1>5, <1>6, <1>7, <1>8 DEF CodedOk

(* The stack without its innermost frame. *)
LEMMA LeftStack ==
  ASSUME TypeOK, CallersWait, NEW f, NEW m, Leaves(f, m)
  PROVE  /\ Len(stack) \in Nat \ {0} /\ DOMAIN stack = 1 .. Len(stack)
         /\ DOMAIN stack' = 1 .. Len(stack) - 1
         /\ stack' = <<>> => Len(stack) = 1
         /\ \A i \in 1 .. Len(stack) : stack[i] \in Frame
         /\ f = stack[Len(stack)].file
         /\ \A i \in 1 .. Len(stack) - 1 :
              /\ stack'[i].file = stack[i].file /\ stack'[i].next = stack[i].next
              /\ stack[i].phase = "imports"
              /\ stack[i].next \in DOMAIN program[stack[i].file].imports
              /\ i < Len(stack) - 1 => stack'[i].phase = "imports"
              /\ i = Len(stack) - 1 => /\ stack'[i].phase = "take"
                                       /\ program[stack[i].file].imports[stack[i].next].name = m
<1>1. stack # <<>> /\ f = Top.file /\ m = Top.name /\ Return("take", Caller.next)
  BY DEF Leaves
<1>2. StackOK /\ program \in [File -> Source] /\ stack \in Seq(Frame)
  BY DEF TypeOK, StackOK
<1>3. /\ Len(stack) \in Nat \ {0} /\ DOMAIN stack = 1 .. Len(stack)
      /\ \A i \in 1 .. Len(stack) : stack[i] \in Frame
      /\ f = stack[Len(stack)].file /\ m = stack[Len(stack)].name
  BY <1>1, <1>2 DEF Top
<1>4. ASSUME Len(stack) > 1 PROVE Caller \in Frame /\ Caller.next \in Nat \ {0} /\ Caller = stack[Len(stack) - 1]
  BY <1>3, <1>4 DEF Frame, Caller
<1>5. /\ stack' \in Seq(Frame) /\ Len(stack') = Len(stack) - 1
      /\ \A i \in 1 .. Len(stack) - 1 :
           stack'[i] = IF i = Len(stack) - 1 THEN Resume(Caller, "take", Caller.next) ELSE stack[i]
  <2>1. "take" \in Phases
    BY DEF Phases
  <2> QED BY <1>1, <1>2, <1>4, <2>1, ReturnStack
<1>6. ASSUME NEW i \in 1 .. Len(stack) - 1
      PROVE  /\ stack'[i].file = stack[i].file /\ stack'[i].next = stack[i].next
             /\ stack[i].phase = "imports"
             /\ stack[i].next \in DOMAIN program[stack[i].file].imports
             /\ i < Len(stack) - 1 => stack'[i].phase = "imports"
             /\ i = Len(stack) - 1 => /\ stack'[i].phase = "take"
                                      /\ program[stack[i].file].imports[stack[i].next].name = m
  <2>1. i \in DOMAIN stack /\ i + 1 \in DOMAIN stack /\ Len(stack) > 1 /\ stack[i] \in Frame
    BY <1>3
  <2>2. Waits(i, i + 1)
    BY <2>1 DEF CallersWait, Nested
  <2>3. /\ stack[i].phase = "imports"
        /\ stack[i].next <= Len(program[stack[i].file].imports)
        /\ stack[i + 1].name = program[stack[i].file].imports[stack[i].next].name
    BY <2>2 DEF Waits
  <2>4. stack[i].next \in Nat \ {0} /\ stack[i].file \in File
    BY <2>1 DEF Frame
  <2>5. stack[i].next \in DOMAIN program[stack[i].file].imports
    <3>1. program[stack[i].file].imports \in Seq(Use)
      BY <1>2, <2>4, UseFacts
    <3> QED BY <2>3, <2>4, <3>1
  <2>6. CASE i < Len(stack) - 1
    <3>1. i # Len(stack) - 1
      <4>1. Len(stack) \in Nat /\ i \in Nat
        BY <1>3
      <4> QED BY ONLY <2>6, <4>1
    <3>2. stack'[i] = stack[i]
      BY <1>5, <3>1
    <3> QED BY <2>3, <2>5, <3>1, <3>2
  <2>7. CASE i = Len(stack) - 1
    <3>1. stack'[i] = Resume(Caller, "take", Caller.next) /\ Caller = stack[i]
      BY <1>4, <1>5, <2>1, <2>7
    <3>2. stack'[i].file = stack[i].file /\ stack'[i].next = stack[i].next /\ stack'[i].phase = "take"
      BY <2>1, <3>1 DEF Resume, Frame
    <3>3. i + 1 = Len(stack)
      BY <1>3, <2>7
    <3>4. program[stack[i].file].imports[stack[i].next].name = m
      BY <1>3, <2>3, <3>3
    <3>5. ~(i < Len(stack) - 1)
      BY <1>3, <2>7
    <3> QED BY <2>3, <2>5, <3>2, <3>4, <3>5
  <2>8. i < Len(stack) - 1 \/ i = Len(stack) - 1
    <3>1. Len(stack) \in Nat
      BY <1>3
    <3> QED BY <3>1
  <2> QED BY <2>6, <2>7, <2>8
<1>7. DOMAIN stack' = 1 .. Len(stack) - 1 /\ (stack' = <<>> => Len(stack) = 1)
  <2>1. stack' \in Seq(Frame) /\ Len(stack') = Len(stack) - 1 /\ Len(stack) \in Nat
    BY <1>3, <1>5
  <2> QED BY <2>1
<1> QED BY <1>3, <1>6, <1>7

(* What the return changes besides the stack. *)
LEMMA LeftBehind ==
  ASSUME TypeOK, NEW f, NEW m, Leaves(f, m)
  PROVE  /\ Len(mir) \in Nat /\ DOMAIN mir = 1 .. Len(mir) /\ DOMAIN mir' = 1 .. Len(mir) + 1
         /\ \A i \in 1 .. Len(mir) : mir'[i] = mir[i]
         /\ mir'[Len(mir) + 1].file = f /\ mir'[Len(mir) + 1].name = nameOf[f]
         /\ Coded' = Coded \cup {f}
         /\ \A n : n # m => status'[n] = status[n]
         /\ Len(stack) = 1 => status' = status
         /\ Len(stack) > 1 => status'[m] = "analysed" /\ m \in Name /\ Find[m] = f /\ status[m] = "analysing"
         /\ Grows
<1> DEFINE E == [file : File, name : Name \cup {NoName}]
           e == [file |-> f, name |-> nameOf[f]]
<1>1. mir \in Seq(E) /\ mir' = Append(mir, e)
  BY DEF TypeOK, Leaves
<1>2. e \in E /\ e.file = f /\ e.name = nameOf[f]
  BY DEF Leaves, TypeOK
<1> HIDE DEF E, e
<1>3. /\ Len(mir) \in Nat /\ DOMAIN mir = 1 .. Len(mir) /\ DOMAIN mir' = 1 .. Len(mir) + 1
      /\ \A i \in 1 .. Len(mir) : mir'[i] = mir[i]
      /\ mir'[Len(mir) + 1] = e
  BY <1>1, <1>2
<1>4. Coded' = Coded \cup {f}
  <2>1. \A i \in DOMAIN mir : i \in DOMAIN mir' /\ mir'[i].file = mir[i].file
    BY <1>3
  <2>2. Len(mir) + 1 \in DOMAIN mir' /\ mir'[Len(mir) + 1].file = f
    BY <1>2, <1>3
  <2>3. \A i \in DOMAIN mir' : i \in DOMAIN mir \/ i = Len(mir) + 1
    BY <1>3
  <2> QED BY <2>1, <2>2, <2>3 DEF Coded
<1>5. /\ \A n : n # m => status'[n] = status[n]
      /\ Len(stack) = 1 => status' = status
      /\ Len(stack) > 1 => status'[m] = "analysed" /\ m \in Name /\ Find[m] = f /\ status[m] = "analysing"
      /\ Len(stack) = 1 \/ Len(stack) > 1
  <2>1. status \in [Name -> Statuses]
    BY DEF TypeOK
  <2>2. Len(stack) \in Nat /\ (Len(stack) = 1 \/ Len(stack) > 1)
    <3>1. stack # <<>> /\ stack \in Seq(Frame)
      BY DEF TypeOK, Leaves
    <3> QED BY <3>1
  <2>3. status' = IF Len(stack) = 1 THEN status ELSE [status EXCEPT ![m] = "analysed"]
    BY DEF Leaves
  <2>4. Len(stack) > 1 => m \in Name /\ Find[m] = f /\ status[m] = "analysing"
    BY DEF Leaves
  <2>5. CASE Len(stack) = 1
    <3>1. ~(Len(stack) > 1)
      BY <2>5
    <3> QED BY <2>3, <2>5, <3>1
  <2>6. CASE Len(stack) > 1
    <3>1. Len(stack) # 1
      <4>1. PICK k \in Nat : k = Len(stack)
        BY <2>2
      <4>2. k > 1
        BY <2>6, <4>1
      <4>3. k # 1
        BY <4>2
      <4> QED BY <4>1, <4>3
    <3> QED BY <2>1, <2>3, <2>4, <2>6, <3>1
  <2> QED BY <2>2, <2>5, <2>6
<1>6. \A u : Met(u) => Met(u)'
  <2>1. \A n : status[n] # "not_exist" => status'[n] # "not_exist"
    <3>1. status'[m] = status[m] \/ status'[m] = "analysed"
      BY <1>5
    <3> QED BY <1>5, <3>1
  <2> QED BY <2>1 DEF Met
<1>7. Grows
  BY <1>4, <1>6 DEF Leaves, Grows
<1> QED BY <1>2, <1>3, <1>4, <1>5, <1>7

LEMMA LeaveBooks ==
  ASSUME TypeOK, CallersWait, Books, NEW f, NEW m, Leaves(f, m),
         CodedOk(f), f \in Coded => Bare(f)
  PROVE  Books'
<1>1. /\ Len(stack) \in Nat \ {0} /\ DOMAIN stack = 1 .. Len(stack)
      /\ DOMAIN stack' = 1 .. Len(stack) - 1
      /\ stack' = <<>> => Len(stack) = 1
      /\ \A i \in 1 .. Len(stack) : stack[i] \in Frame
      /\ f = stack[Len(stack)].file
      /\ \A i \in 1 .. Len(stack) - 1 :
           /\ stack'[i].file = stack[i].file /\ stack'[i].next = stack[i].next
           /\ stack[i].phase = "imports"
           /\ stack[i].next \in DOMAIN program[stack[i].file].imports
           /\ i < Len(stack) - 1 => stack'[i].phase = "imports"
           /\ i = Len(stack) - 1 => /\ stack'[i].phase = "take"
                                    /\ program[stack[i].file].imports[stack[i].next].name = m
  BY LeftStack
<1>2. /\ Len(mir) \in Nat /\ DOMAIN mir = 1 .. Len(mir) /\ DOMAIN mir' = 1 .. Len(mir) + 1
      /\ \A i \in 1 .. Len(mir) : mir'[i] = mir[i]
      /\ mir'[Len(mir) + 1].file = f /\ mir'[Len(mir) + 1].name = nameOf[f]
      /\ Coded' = Coded \cup {f}
      /\ \A n : n # m => status'[n] = status[n]
      /\ Len(stack) = 1 => status' = status
      /\ Len(stack) > 1 => status'[m] = "analysed" /\ m \in Name /\ Find[m] = f /\ status[m] = "analysing"
      /\ Grows
  BY LeftBehind
<1>3. /\ program \in [File -> Source] /\ program' = program /\ domain' = domain /\ nameOf' = nameOf
      /\ f \in File
  BY DEF TypeOK, Leaves
<1>4. \A i \in 1 .. Len(stack) - 1 : i \in 1 .. Len(stack)
  <2>1. Len(stack) \in Nat
    BY <1>1
  <2> QED BY <2>1
<1>5. Chain'
  <2>1. \A g : Order!Reach(g)' = Order!Reach(g)
    BY <1>3, GraphFrozen
  <2>2. stack' # <<>> => stack'[1].file = Root
    <3> HAVE stack' # <<>>
    <3>1. 1 \in 1 .. Len(stack) - 1
      <4>1. stack' \in Seq(Frame)
        <5>1. StackOK' /\ stack # <<>>
          <6>1. StackOK /\ stack # <<>> /\ "take" \in Phases /\ Return("take", Caller.next)
            BY DEF TypeOK, StackOK, Leaves, Phases
          <6>2. Len(stack) > 1 => Caller.next \in Nat \ {0}
            BY <1>3, <6>1, TopFrame DEF Frame
          <6> QED BY <6>1, <6>2, ReturnOK
        <5> QED BY <5>1 DEF StackOK
      <4>2. 1 \in DOMAIN stack'
        BY <4>1
      <4> QED BY <1>1, <4>2
    <3>2. 1 \in DOMAIN stack /\ stack # <<>>
      BY <1>1, <1>4, <3>1 DEF Leaves
    <3> QED BY <1>1, <3>1, <3>2 DEF Books, Chain
  <2>3. ASSUME NEW i \in DOMAIN stack', NEW j \in DOMAIN stack', i < j
        PROVE  stack'[j].file \in Order!Reach(stack[i].file)'
    <3>1. i \in DOMAIN stack /\ j \in DOMAIN stack
      BY <1>1, <1>4
    <3>2. stack'[i].file = stack[i].file /\ stack'[j].file = stack[j].file
      BY <1>1
    <3>3. stack[j].file \in Order!Reach(stack[i].file)
      BY <2>3, <3>1 DEF Books, Chain
    <3>4. Order!Reach(stack[i].file)' = Order!Reach(stack[i].file)
      BY <2>1, <3>2
    <3> QED BY <3>2, <3>3, <3>4
  <2> QED BY <2>2, <2>3 DEF Chain
<1>6. ASSUME NEW i \in 1 .. Len(stack) - 1
      PROVE  FrameAt(stack[i].file, stack[i].phase, stack[i].next)'
  <2>1. PICK g, n : g = stack[i].file /\ n = stack[i].next
    OBVIOUS
  <2>2. /\ g \in File /\ FrameAt(g, "imports", n) /\ n \in DOMAIN program[g].imports /\ n \in Nat \ {0}
    <3>1. i \in DOMAIN stack /\ stack[i] \in Frame
      BY <1>1, <1>4
    <3>2. FrameAt(stack[i].file, stack[i].phase, stack[i].next)
      BY <3>1 DEF Books
    <3> QED BY <1>1, <2>1, <3>1, <3>2 DEF Frame
  <2>3. DeclsDone(g, "imports", n) = {} /\ DeclsDone(g, "take", n) = {}
    BY NothingDone
  <2>4. stack'[i].file = g /\ stack'[i].next = n
    BY <1>1, <2>1
  <2>5. CASE i < Len(stack) - 1
    <3>1. FrameAt(g, "imports", n)'
      BY <1>2, <2>2, <2>3, FrameStays
    <3>2. stack'[i].phase = "imports"
      BY <1>1, <2>5
    <3> QED BY <2>4, <3>1, <3>2
  <2>6. CASE i = Len(stack) - 1
    <3>1. stack'[i].phase = "take" /\ program[g].imports[n].name = m
      BY <1>1, <2>1, <2>6
    <3>2. FrameAt(g, "imports", n)'
      BY <1>2, <2>2, <2>3, FrameStays
    <3>3. Find[m] = f /\ status'[m] = "analysed"
      <4>1. Len(stack) > 1
        <5>1. Len(stack) \in Nat /\ i >= 1
          BY <1>1
        <5> QED BY <2>6, <5>1
      <4> QED BY <1>2, <4>1
    <3>4. Met(program[g].imports[n])'
      <4>1. f # NoFile
        BY <1>3, ImportAssumption
      <4> QED BY <1>3, <3>1, <3>3, <4>1 DEF Met
    <3>5. UsesDone(g, "take", n) = UsesDone(g, "imports", n)
      BY <1>3, <2>2, UseDone
    <3>6. UsesDone(g, "take", n)' = UsesDone(g, "imports", n)'
      BY <1>3, <3>5, Frozen
    <3>7. DeclsDone(g, "take", n)' = {}
      BY <1>3, <2>3, Frozen
    <3>8. FrameAt(g, "take", n)'
      BY <1>3, <2>2, <3>2, <3>4, <3>6, <3>7 DEF FrameAt
    <3> QED BY <2>4, <3>1, <3>8
  <2>7. i < Len(stack) - 1 \/ i = Len(stack) - 1
    <3>1. Len(stack) \in Nat
      BY <1>1
    <3> QED BY <3>1
  <2> QED BY <2>5, <2>6, <2>7
<1>7. \A g \in Coded' : CodedOk(g)'
  <2>1. \A g \in Coded : g \in File /\ CodedOk(g)
    BY CodedFacts DEF Books
  <2>2. \A g \in Coded \cup {f} : CodedOk(g)'
    BY <1>2, <1>3, <2>1, CodedStays
  <2> QED BY <1>2, <2>2
<1>8. \A n \in Name : NameOk(n)'
  <2>1. UsedNames' = UsedNames
    BY <1>3, GraphFrozen
  <2>2. ASSUME NEW n \in Name, n # m \/ Len(stack) = 1 PROVE NameOk(n)'
    <3>1. status'[n] = status[n] /\ NameOk(n)
      BY <1>2, <2>2 DEF Books
    <3> QED BY <1>2, <2>1, <3>1 DEF NameOk
  <2>3. ASSUME Len(stack) > 1 PROVE NameOk(m)'
    <3>1. m \in Name /\ NameOk(m) /\ status[m] # "not_exist" /\ Find[m] = f
      BY <1>2, <2>3 DEF Books
    <3> QED BY <1>2, <1>3, <2>1, <3>1 DEF NameOk
  <2>4. Len(stack) = 1 \/ Len(stack) > 1
    BY <1>1
  <2> QED BY <2>2, <2>3, <2>4
<1>9. \A g \in File : TableOk(g)'
  BY <1>3, Frozen DEF Books, TableOk, Comes
<1>10. OneCode'
  <2>1. \A g : Bare(g)' = Bare(g)
    BY <1>3, Frozen
  <2>2. \A i \in 1 .. Len(mir) + 1 : i \in DOMAIN mir \/ i = Len(mir) + 1
    BY <1>2
  <2>3. \A i \in DOMAIN mir : mir[i].file = f => Bare(f)
    BY DEF Coded
  <2>4. OneCode
    BY DEF Books
  <2>5. ASSUME NEW i \in 1 .. Len(mir) + 1, NEW j \in 1 .. Len(mir) + 1, mir'[i].file = mir'[j].file, i # j
        PROVE  Bare(mir'[i].file)
    <3>1. CASE i \in DOMAIN mir /\ j \in DOMAIN mir
      BY <1>2, <2>4, <2>5, <3>1 DEF OneCode
    <3>2. CASE i \in DOMAIN mir /\ j = Len(mir) + 1
      BY <1>2, <2>3, <2>5, <3>2
    <3>3. CASE i = Len(mir) + 1 /\ j \in DOMAIN mir
      BY <1>2, <2>3, <2>5, <3>3
    <3> QED BY <2>2, <2>5, <3>1, <3>2, <3>3
  <2> QED BY <1>2, <2>1, <2>5 DEF OneCode
<1>11. OneName'
  <2>1. \A g : Bare(g)' = Bare(g)
    BY <1>3, Frozen
  <2>2. OneName
    BY DEF Books
  <2>3. CASE Len(stack) = 1
    BY <1>2, <2>1, <2>2, <2>3 DEF OneName
  <2>4. CASE Len(stack) > 1
    <3>1. \A n \in Name : n # m /\ status'[n] = "analysed" => status[n] = "analysed"
      BY <1>2
    <3>2. \A n \in Name : n # m /\ status'[n] = "analysed" /\ Find[n] = f => Bare(f)
      BY <3>1 DEF Books, NameOk
    <3>3. Find[m] = f
      BY <1>2, <2>4
    <3> QED BY <2>1, <2>2, <3>1, <3>2, <3>3 DEF OneName
  <2>5. Len(stack) = 1 \/ Len(stack) > 1
    BY <1>1
  <2> QED BY <2>3, <2>4, <2>5
<1>12. CodeNames'
  <2>1. \A g : Bare(g)' = Bare(g)
    BY <1>3, Frozen
  <2>2. ASSUME NEW g \in Active, g # f PROVE g \in Active'
    <3>1. PICK i \in 1 .. Len(stack) : g = stack[i].file
      BY <1>1 DEF Active
    <3>2. i # Len(stack)
      BY <1>1, <2>2, <3>1
    <3>3. i \in 1 .. Len(stack) - 1
      <4>1. Len(stack) \in Nat
        BY <1>1
      <4> QED BY <3>2, <4>1
    <3>4. i \in DOMAIN stack' /\ stack'[i].file = g
      BY <1>1, <3>1, <3>3
    <3> QED BY <3>4 DEF Active
  <2>3. \A i \in 1 .. Len(mir) + 1 : i \in DOMAIN mir \/ i = Len(mir) + 1
    BY <1>2
  <2>4. \A i \in DOMAIN mir : mir[i].file = f => Bare(f)
    BY DEF Coded
  <2>5. CodeNames
    BY DEF Books
  <2>6. ASSUME NEW i \in 1 .. Len(mir) + 1
        PROVE  Bare(mir'[i].file) \/ mir'[i].name = nameOf[mir'[i].file] \/ mir'[i].file \in Active'
    <3>1. CASE i \in DOMAIN mir
      BY <1>2, <2>2, <2>4, <2>5, <3>1 DEF CodeNames
    <3>2. CASE i = Len(mir) + 1
      BY <1>2, <3>2
    <3> QED BY <2>3, <3>1, <3>2
  <2> QED BY <1>2, <1>3, <2>1, <2>6 DEF CodeNames
<1>13. stack' = <<>> => Root \in Coded'
  <2> HAVE stack' = <<>>
  <2>1. Len(stack) = 1 /\ stack # <<>>
    BY <1>1 DEF Leaves
  <2>2. f = Root
    BY <1>1, <2>1 DEF Books, Chain
  <2> QED BY <1>2, <2>2
<1> QED BY <1>1, <1>5, <1>6, <1>7, <1>8, <1>9, <1>10, <1>11, <1>12, <1>13 DEF Books

(* Everything that is claimed of a compilation without errors holds at every step. *)
LEMMA AccountedStep ==
  ASSUME TypeOK, CallersWait, NoReentry, WritesOwnTables, Accounted, [Next]_vars
  PROVE  Accounted'
<1> SUFFICES ASSUME errors' = {} PROVE Books'
  BY DEF Accounted
<1>1. CASE Parse
  <2>1. Books
    BY <1>1, Unreported DEF Parse, Accounted
  <2> QED BY <1>1, <2>1, ParseBooks
<1>2. CASE BeginRun
  <2>1. Books
    BY <1>2 DEF BeginRun, Accounted
  <2> QED BY <1>2, <2>1, BeginRunBooks
<1>3. CASE FindModule
  <2>1. Books
    BY <1>3, Unreported DEF FindModule, Accounted
  <2> QED BY <1>3, <2>1, FindBooks
<1>4. CASE TakeSymbols
  <2>1. Books
    BY <1>4, Unreported DEF TakeSymbols, Accounted
  <2> QED BY <1>4, <2>1, TakeBooks
<1>5. CASE Register
  <2>1. Books
    BY <1>5, Unreported DEF Register, Accounted
  <2> QED BY <1>5, <2>1, RegisterBooks
<1>6. CASE EndScan
  <2>1. Books
    BY <1>6, Unreported DEF EndScan, Accounted
  <2> QED BY <1>6, <2>1, EndScanBooks
<1>7. CASE Analyse
  <2>1. Books
    BY <1>7, Unreported DEF Analyse, Accounted
  <2> QED BY <1>7, <2>1, AnalyseBooks
<1>8. CASE Generate
  <2>1. Books
    BY <1>8 DEF Generate, Accounted
  <2>2. Leaves(Top.file, Top.name) /\ Top.phase = "generate" /\ stack # <<>>
    BY <1>8, <2>1, Leaving DEF Leaves
  <2>3. CodedOk(Top.file) /\ (Top.file \in Coded => Bare(Top.file))
    BY <2>1, <2>2, GeneratedFile
  <2>4. PICK f, m : f = Top.file /\ m = Top.name
    OBVIOUS
  <2> QED BY <2>1, <2>2, <2>3, <2>4, LeaveBooks
<1>9. CASE UNCHANGED vars
  <2>1. Books
    BY <1>9 DEF vars, Accounted
  <2>2. /\ program' = program /\ stack' = stack /\ mir' = mir /\ domain' = domain
        /\ status' = status /\ nameOf' = nameOf
    BY <1>9 DEF vars
  <2>3. Coded' = Coded /\ Active' = Active /\ \A u : Met(u)' = Met(u)
    BY <2>2 DEF Coded, Active, Met
  <2>4. Grows
    BY <2>2, <2>3 DEF Grows
  <2>5. Chain' = Chain
    <3>1. \A g : Order!Reach(g)' = Order!Reach(g)
      BY <2>2, GraphFrozen
    <3>2. \A i \in DOMAIN stack : Order!Reach(stack[i].file)' = Order!Reach(stack[i].file)
      BY <2>2, <3>1
    <3> QED BY <2>2, <3>2 DEF Chain
  <2>6. \A i \in DOMAIN stack' : FrameAt(stack[i].file, stack[i].phase, stack[i].next)'
    <3> SUFFICES ASSUME NEW i \in DOMAIN stack PROVE FrameAt(stack[i].file, stack[i].phase, stack[i].next)'
      BY <2>2
    <3>1. PICK g, q, n : g = stack[i].file /\ q = stack[i].phase /\ n = stack[i].next
      OBVIOUS
    <3>2. g \in File
      <4>1. stack[i] \in Frame
        BY DEF TypeOK
      <4> QED BY <3>1, <4>1 DEF Frame
    <3>3. FrameAt(g, q, n)'
      BY <2>1, <2>3, <2>4, <3>1, <3>2, FrameStays DEF Books
    <3> QED BY <2>2, <3>1, <3>3
  <2>7. \A g \in Coded' : CodedOk(g)'
    <3>1. \A g \in Coded : g \in File /\ CodedOk(g)
      BY <2>1, CodedFacts DEF Books
    <3> QED BY <2>3, <2>4, <3>1, CodedStays
  <2>8. \A n \in Name : NameOk(n)'
    <3>1. UsedNames' = UsedNames
      BY <2>2, GraphFrozen
    <3> QED BY <2>1, <2>2, <2>3, <3>1 DEF Books, NameOk
  <2>9. OneCode' /\ OneName' /\ CodeNames'
    <3>1. \A g : Bare(g)' = Bare(g)
      BY <2>2, Frozen
    <3> QED BY <2>1, <2>2, <2>3, <3>1 DEF Books, OneCode, OneName, CodeNames
  <2>10. \A g \in File : TableOk(g)'
    BY <2>1, <2>2, Frozen DEF Books, TableOk, Comes
  <2> QED BY <2>1, <2>2, <2>3, <2>5, <2>6, <2>7, <2>8, <2>9, <2>10 DEF Books
<1> QED BY <1>1, <1>2, <1>3, <1>4, <1>5, <1>6, <1>7, <1>8, <1>9 DEF Next

(* The invariant of a compilation without errors. *)
THEOREM BooksKept == Spec => []Accounted
<1>1. Init => Accounted
  BY BooksInit
<1>2. TypeOK /\ CallersWait /\ NoReentry /\ WritesOwnTables /\ Accounted /\ [Next]_vars => Accounted'
  BY AccountedStep
<1> QED BY <1>1, <1>2, ImportTypesCorrect, NoModuleInItself, TablesOfScannedFile, PTL DEF Spec

-----------------------------------------------------------------------------
(* What a compilation that ends without errors has accepted. *)
LEMMA MetModule ==
  ASSUME TypeOK, CallersWait, NoReentry, Books, errors = {},
         NEW f \in File, NEW u \in UsesOf(f), Met(u)
  PROVE  Find[u.name] \in Coded \/ \E i \in DOMAIN stack : i > 1 /\ stack[i].file = Find[u.name]
<1>1. program \in [File -> Source] /\ StackOK
  BY DEF TypeOK, StackOK
<1>2. u.name \in Name
  BY <1>1, UseFacts
<1>3. status[u.name] \in {"analysing", "analysed"}
  <2>1. status[u.name] \in Statuses
    BY <1>2 DEF TypeOK
  <2> QED BY <2>1 DEF Met, Statuses
<1>4. CASE status[u.name] = "analysed"
  BY <1>2, <1>4 DEF Books, NameOk
<1>5. CASE status[u.name] = "analysing"
  <2>1. PICK i \in DOMAIN stack : stack[i].name = u.name
    BY <1>2, <1>5 DEF NoReentry
  <2>2. DOMAIN stack = 1 .. Len(stack) /\ Len(stack) \in Nat
    BY <1>1 DEF StackOK
  <2>3. i # 1
    BY <1>2, <2>1, ImportAssumption DEF TypeOK
  <2>4. i > 1 /\ i - 1 \in DOMAIN stack /\ i = (i - 1) + 1
    BY <2>2, <2>3
  <2>5. Waits(i - 1, i)
    BY <2>4 DEF CallersWait, Nested
  <2>6. stack[i].file = Find[u.name]
    BY <2>1, <2>5 DEF Waits
  <2> QED BY <2>4, <2>6
<1> QED BY <1>3, <1>4, <1>5

(* The files a built file imports are built, or being compiled. *)
LEMMA NeededFiles ==
  ASSUME TypeOK, CallersWait, NoReentry, Books, errors = {},
         NEW f \in File, CodedOk(f), NEW g \in Deps(f)
  PROVE  g \in Coded \/ \E i \in DOMAIN stack : i > 1 /\ stack[i].file = g
<1>1. program \in [File -> Source]
  BY DEF TypeOK
<1>2. PICK u \in UsesOf(f) : Find[u.name] = g
  BY <1>1, DepsFacts
<1>3. Met(u)
  BY DEF CodedOk, Served
<1> QED BY <1>2, <1>3, MetModule

LEMMA AllBuilt ==
  ASSUME TypeOK, CallersWait, NoReentry, Books, Compiled
  PROVE  Reachable \subseteq Coded
<1>1. program \in [File -> Source] /\ errors = {} /\ DOMAIN stack = {} /\ Root \in Coded
  BY DEF TypeOK, Books, Compiled, Finished
<1>2. \A f \in Coded : f \in File /\ CodedOk(f)
  BY CodedFacts DEF Books
<1>3. \A f \in Coded : Deps(f) \subseteq Coded
  BY <1>1, <1>2, NeededFiles
<1>4. Coded \in SUBSET File
  BY CodedFacts
<1> QED BY <1>1, <1>3, <1>4, ReachableFacts

(* A program that compiles is closed: every file that is reached parses, every
   use statement finds its module and its symbols, and every name a body uses
   is visible, whatever the circles of imports. *)
THEOREM CompiledIsClosed == Spec => []AcceptsOnlyClosed
<1>1. TypeOK /\ CallersWait /\ NoReentry /\ Accounted => AcceptsOnlyClosed
  <2> SUFFICES ASSUME TypeOK, CallersWait, NoReentry, Accounted, Compiled, NEW f \in Reachable
               PROVE  Closed(f)
    BY DEF AcceptsOnlyClosed
  <2>1. Books
    BY DEF Accounted, Compiled
  <2>2. f \in Coded
    BY <2>1, AllBuilt
  <2> QED BY <2>1, <2>2 DEF Books, CodedOk
<1> QED BY <1>1, ImportTypesCorrect, NoModuleInItself, BooksKept, PTL

(* In a program that compiles, the module name under which the code of a file
   was generated is the one all other files use for it. *)
THEOREM OneNameForAll == Spec => []NamesAgree
<1>1. Accounted => NamesAgree
  <2> SUFFICES ASSUME Accounted, Compiled PROVE NamesAgree
    BY DEF NamesAgree
  <2>1. CodeNames /\ Active = {}
    BY DEF Accounted, Books, Compiled, Finished, Active
  <2> QED BY <2>1 DEF CodeNames, NamesAgree
<1> QED BY <1>1, BooksKept, PTL

-----------------------------------------------------------------------------
(* The order of code generation: ModuleImport implements ImportOrder. *)
LEMMA NoErrorForgotten ==
  ASSUME [Next]_vars
  PROVE  errors \subseteq errors'
<1>1. \A es : Report(es) => errors \subseteq errors'
  BY DEF Report
<1>2. \A what, cond : ReportIf(what, cond) => errors \subseteq errors'
  BY <1>1 DEF ReportIf
<1>3. CASE Parse
  BY <1>2, <1>3 DEF Parse
<1>4. CASE BeginRun
  BY <1>4 DEF BeginRun
<1>5. CASE FindModule
  BY <1>2, <1>5 DEF FindModule
<1>6. CASE TakeSymbols
  BY <1>1, <1>2, <1>6 DEF TakeSymbols
<1>7. CASE Register
  BY <1>2, <1>7 DEF Register
<1>8. CASE EndScan
  BY <1>1, <1>8 DEF EndScan
<1>9. CASE Analyse
  BY <1>2, <1>9 DEF Analyse
<1>10. CASE Generate
  BY <1>10 DEF Generate
<1>11. CASE UNCHANGED vars
  BY <1>11 DEF vars
<1> QED BY <1>3, <1>4, <1>5, <1>6, <1>7, <1>8, <1>9, <1>10, <1>11 DEF Next

(* Steps that generate no code; without errors they return from no file. *)
LEMMA NoCodeStep ==
  ASSUME TypeOK, Next, ~Generate
  PROVE  /\ mir' = mir /\ stack # <<>>
         /\ errors' = {} => stack' # <<>>
<1>1. StackOK /\ program \in [File -> Source]
  BY DEF TypeOK, StackOK
<1>p. {"run", "imports", "take", "sema", "generate", "enums", "structs", "funcs"} \subseteq Phases
  BY DEF Phases, Scans
<1>2. \A p \in Phases, k \in Nat \ {0} : stack # <<>> /\ Go(p, k) => stack' # <<>>
  BY <1>1, GoOK
<1>3. stack # <<>> => Top.next \in Nat \ {0} /\ Top.next + 1 \in Nat \ {0}
  <2> HAVE stack # <<>>
  <2>1. Top \in Frame
    BY <1>1, TopFrame
  <2> QED BY <2>1 DEF Frame
<1>4. CASE Parse
  BY <1>2, <1>4, <1>p DEF Parse, Running, AnyErrors
<1>5. CASE BeginRun
  BY <1>2, <1>5, <1>p DEF BeginRun, Running
<1>6. CASE FindModule
  <2>1. stack # <<>> /\ mir' = mir
    BY <1>6 DEF FindModule, Running
  <2>2. \/ Go("imports", Top.next + 1) \/ Go("take", Top.next)
        \/ \E fr : stack' = Append(stack, fr)
    BY <1>6 DEF FindModule, NextImport
  <2>3. ASSUME NEW fr, stack' = Append(stack, fr) PROVE stack' # <<>>
    <3>1. stack \in Seq(Frame)
      BY <1>1 DEF StackOK
    <3>2. Append(stack, fr) # <<>>
      <4>1. PICK S : stack \in Seq(S) /\ fr \in S
        <5>1. stack \in Seq(Frame \cup {fr})
          BY <3>1
        <5> QED BY <5>1
      <4>2. Len(Append(stack, fr)) = Len(stack) + 1 /\ Len(stack) \in Nat
        BY <4>1
      <4>3. Len(Append(stack, fr)) # 0
        BY <4>2
      <4> QED BY <4>3
    <3> QED BY <2>3, <3>2
  <2> QED BY <1>2, <1>3, <1>p, <2>1, <2>2, <2>3
<1>7. CASE TakeSymbols
  <2>1. stack # <<>> /\ mir' = mir /\ Go("imports", Top.next + 1)
    BY <1>7 DEF TakeSymbols, Running, NextImport
  <2> QED BY <1>2, <1>3, <1>p, <2>1
<1>8. CASE Register
  <2>1. stack # <<>> /\ mir' = mir /\ Go(Top.phase, Top.next + 1) /\ Top.phase \in Scans
    BY <1>8 DEF Register
  <2>2. Top.phase \in Phases
    BY <2>1 DEF Phases
  <2> QED BY <1>2, <1>3, <2>1, <2>2
<1>9. CASE EndScan
  <2>1. /\ stack # <<>> /\ mir' = mir /\ Top.phase \in Scans \cup {"imports"}
        /\ errors' = {} => Go(Following[Top.phase], 1)
    BY <1>9 DEF EndScan, AnyErrors
  <2>2. Following[Top.phase] \in Phases
    BY <2>1 DEF Phases, Scans, Following
  <2> QED BY <1>2, <2>1, <2>2
<1>10. CASE Analyse
  BY <1>2, <1>10, <1>p DEF Analyse, Running, AnyErrors
<1> QED BY <1>4, <1>5, <1>6, <1>7, <1>8, <1>9, <1>10 DEF Next

(* The file whose code is generated may be built; and when it is the root's
   turn, everything the root needs has been built. *)
LEMMA BuildInOrder ==
  ASSUME TypeOK, CallersWait, NoReentry, Books, errors = {}, NEW f, NEW m, Leaves(f, m),
         CodedOk(f), f \in Coded => Bare(f)
  PROVE  /\ Order!MayBuild(f)
         /\ Len(stack) = 1 => f = Root /\ Order!Reach(Root) \subseteq Coded \cup {Root}
<1>1. /\ program \in [File -> Source] /\ f \in File /\ stack # <<>>
      /\ Len(stack) \in Nat \ {0} /\ DOMAIN stack = 1 .. Len(stack)
      /\ \A i \in 1 .. Len(stack) : stack[i] \in Frame
      /\ f = stack[Len(stack)].file
  BY LeftStack DEF TypeOK, Leaves
<1>2. Coded = Order!Done
  BY CodedFacts DEF Order!Done, Order!Range, Range
<1>3. ASSUME NEW g \in Deps(f) PROVE g \in Coded \/ f \in Order!Reach(g)
  <2>1. CASE g \in Coded
    BY <2>1
  <2>2. CASE \E i \in DOMAIN stack : i > 1 /\ stack[i].file = g
    <3>1. PICK i \in DOMAIN stack : stack[i].file = g
      BY <2>2
    <3>2. CASE i = Len(stack)
      <4>1. g = f
        BY <1>1, <3>1, <3>2
      <4>2. Deps(f) \subseteq Order!Reach(f)
        BY <1>1, ReachFacts
      <4> QED BY <1>3, <4>1, <4>2
    <3>3. CASE i < Len(stack)
      <4>1. Len(stack) \in DOMAIN stack
        BY <1>1
      <4> QED BY <1>1, <3>1, <3>3, <4>1 DEF Books, Chain
    <3>4. i = Len(stack) \/ i < Len(stack)
      <4>1. Len(stack) \in Nat /\ i \in 1 .. Len(stack)
        BY <1>1
      <4> QED BY <4>1
    <3> QED BY <3>2, <3>3, <3>4
  <2> QED BY <1>1, <2>1, <2>2, NeededFiles
<1>4. Order!MayBuild(f)
  <2>1. Outcome = "running"
    BY <1>1 DEF Outcome, Finished
  <2>2. f \in Order!Done => f \in {g \in File : Bare(g)}
    BY <1>1, <1>2
  <2>3. [g \in File |-> Deps(g)][f] = Deps(f)
    BY <1>1
  <2>4. \A g \in [h \in File |-> Deps(h)][f] : g \in Order!Done \/ f \in Order!Reach(g)
    BY <1>2, <1>3, <2>3
  <2> QED BY <2>1, <2>2, <2>4 DEF Order!MayBuild
<1>5. ASSUME Len(stack) = 1
      PROVE  f = Root /\ Order!Reach(Root) \subseteq Coded \cup {Root}
  <2>1. f = Root
    BY <1>1, <1>5 DEF Books, Chain
  <2>2. \A h \in Coded \cup {Root} : h \in File /\ CodedOk(h)
    BY <1>1, <2>1, CodedFacts DEF Books
  <2>3. ASSUME NEW h \in Coded \cup {Root}, NEW g \in Deps(h) PROVE g \in Coded \cup {Root}
    <3>1. ~\E i \in DOMAIN stack : i > 1
      BY <1>1, <1>5
    <3> QED BY <2>2, <2>3, <3>1, NeededFiles
  <2>4. Deps(Root) \subseteq Coded \cup {Root}
    BY <2>3
  <2>5. Coded \cup {Root} \in SUBSET File
    BY <2>2
  <2>6. Root \in File
    BY ImportAssumption
  <2> QED BY <1>1, <2>1, <2>3, <2>4, <2>5, <2>6, ReachFacts
<1> QED BY <1>4, <1>5

LEMMA OrderStep ==
  ASSUME TypeOK, CallersWait, NoReentry, Accounted, GeneratesCleanly, [Next]_vars
  PROVE  [Order!Next]_(Order!vars)
<1>1. program' = program
  BY DEF Next, Parse, BeginRun, FindModule, TakeSymbols, Register, EndScan, Analyse, Generate, vars
<1>2. /\ [f \in File |-> Deps(f)]' = [f \in File |-> Deps(f)]
      /\ {f \in File : Bare(f)}' = {f \in File : Bare(f)}
  BY <1>1, Frozen
<1>3. errors \subseteq errors'
  BY NoErrorForgotten
<1>4. mir' = mir => Built' = Built
  BY DEF Built
<1>5. CASE UNCHANGED vars
  <2>1. Built' = Built /\ Outcome' = Outcome
    BY <1>5 DEF vars, Built, Outcome, Finished
  <2> QED BY <1>2, <2>1 DEF Order!vars
<1>6. CASE Next /\ ~Generate
  <2>1. Built' = Built /\ stack # <<>> /\ (errors' = {} => stack' # <<>>)
    BY <1>4, <1>6, NoCodeStep
  <2>2. CASE errors # {} \/ errors' = {}
    <3>1. Outcome' = Outcome
      BY <1>3, <2>1, <2>2 DEF Outcome, Finished
    <3> QED BY <1>2, <2>1, <3>1 DEF Order!vars
  <2>3. CASE errors = {} /\ errors' # {}
    <3>1. Outcome = "running" /\ Outcome' = "failed"
      BY <2>1, <2>3 DEF Outcome, Finished
    <3>2. Order!Fail
      BY <1>2, <2>1, <3>1 DEF Order!Fail
    <3> QED BY <3>2 DEF Order!Next
  <2> QED BY <2>2, <2>3
<1>7. CASE Generate
  <2>1. stack # <<>> /\ Top.phase = "generate" /\ errors' = errors
    BY <1>7 DEF Generate, Running
  <2>2. errors = {} /\ Books
    BY <2>1 DEF GeneratesCleanly, Running, Accounted
  <2>3. PICK f, m : f = Top.file /\ m = Top.name
    OBVIOUS
  <2>4. Leaves(f, m) /\ CodedOk(f) /\ (f \in Coded => Bare(f))
    BY <1>7, <2>1, <2>2, <2>3, Leaving, GeneratedFile
  <2>5. /\ Order!MayBuild(f)
        /\ Len(stack) = 1 => f = Root /\ Order!Reach(Root) \subseteq Coded \cup {Root}
    BY <2>2, <2>4, BuildInOrder
  <2>6. Built' = Append(Built, f)
    <3>1. /\ Len(mir) \in Nat /\ DOMAIN mir = 1 .. Len(mir) /\ DOMAIN mir' = 1 .. Len(mir) + 1
          /\ \A i \in 1 .. Len(mir) : mir'[i] = mir[i]
          /\ mir'[Len(mir) + 1].file = f
      BY <2>4, LeftBehind
    <3>2. Coded \subseteq File /\ f \in File
      BY <2>4, CodedFacts DEF Leaves
    <3>3. Built \in Seq(File) /\ Len(Built) = Len(mir)
      BY <3>1, <3>2 DEF Built, Coded
    <3>4. Append(Built, f) = [i \in 1 .. Len(mir) + 1 |-> IF i = Len(mir) + 1 THEN f ELSE mir[i].file]
      <4>1. /\ Append(Built, f) \in Seq(File) /\ Len(Append(Built, f)) = Len(mir) + 1
            /\ \A i \in 1 .. Len(mir) : Append(Built, f)[i] = Built[i]
            /\ Append(Built, f)[Len(mir) + 1] = f
        BY <3>2, <3>3
      <4>2. \A i \in 1 .. Len(mir) : Built[i] = mir[i].file
        BY <3>1 DEF Built
      <4> HIDE DEF Built
      <4>3. DOMAIN Append(Built, f) = 1 .. Len(mir) + 1
        BY <4>1
      <4>4. \A i \in 1 .. Len(mir) + 1 : i # Len(mir) + 1 => i \in 1 .. Len(mir)
        BY <3>1
      <4>5. \A i \in 1 .. Len(mir) + 1 :
              Append(Built, f)[i] = IF i = Len(mir) + 1 THEN f ELSE mir[i].file
        BY <4>1, <4>2, <4>4
      <4>6. Append(Built, f) \in [1 .. Len(mir) + 1 -> File]
        <5>1. PICK b : b = Append(Built, f)
          OBVIOUS
        <5>2. b \in Seq(File) /\ Len(b) = Len(mir) + 1
          BY <4>1, <5>1
        <5>3. b \in [1 .. Len(mir) + 1 -> File]
          BY <5>2
        <5> QED BY <5>1, <5>3
      <4> QED BY <4>3, <4>5, <4>6
    <3>5. Built' = [i \in 1 .. Len(mir) + 1 |-> mir'[i].file]
      BY <3>1 DEF Built
    <3>6. \A i \in 1 .. Len(mir) + 1 : mir'[i].file = IF i = Len(mir) + 1 THEN f ELSE mir[i].file
      <4>1. \A i \in 1 .. Len(mir) + 1 : i # Len(mir) + 1 => i \in 1 .. Len(mir)
        BY <3>1
      <4> QED BY <3>1, <4>1
    <3> QED BY <3>4, <3>5, <3>6
  <2>7. Len(stack) \in Nat \ {0} /\ (stack' = <<>> <=> Len(stack) = 1)
    <3>1. /\ Len(stack) \in Nat \ {0} /\ DOMAIN stack' = 1 .. Len(stack) - 1
          /\ stack' = <<>> => Len(stack) = 1
      BY <2>4, LeftStack
    <3>2. stack' \in Seq(Frame)
      <4>1. TypeOK'
        BY TypeStep
      <4> QED BY <4>1 DEF TypeOK
    <3>3. ASSUME Len(stack) = 1 PROVE stack' = <<>>
      <4>1. Len(stack') = 0
        BY <3>1, <3>2, <3>3
      <4> QED BY <3>2, <4>1
    <3> QED BY <3>1, <3>3
  <2>8. CASE Len(stack) = 1
    <3>1. Outcome' = "ok"
      BY <2>1, <2>2, <2>7, <2>8 DEF Outcome, Finished
    <3>2. Coded = Order!Done
      BY CodedFacts DEF Order!Done, Order!Range, Range
    <3>3. Order!Finish
      BY <1>2, <2>5, <2>6, <2>8, <3>1, <3>2 DEF Order!Finish
    <3> QED BY <3>3 DEF Order!Next
  <2>9. CASE Len(stack) # 1
    <3>1. Outcome' = Outcome
      BY <2>1, <2>2, <2>7, <2>9 DEF Outcome, Finished
    <3>2. f \in File
      BY <2>4 DEF Leaves
    <3>3. Order!Build(f)
      BY <1>2, <2>5, <2>6, <3>1 DEF Order!Build
    <3> QED BY <3>2, <3>3 DEF Order!Next
  <2> QED BY <2>8, <2>9
<1> QED BY <1>5, <1>6, <1>7

LEMMA OrderInit == Init => Order!Init
<1> SUFFICES ASSUME Init PROVE Order!Init
  OBVIOUS
<1>1. program \in [File -> Source]
  BY ImportAssumption DEF Init
<1>2. [f \in File |-> Deps(f)] \in [File -> SUBSET File]
  BY <1>1, DepsFacts
<1>3. {f \in File : Bare(f)} \in SUBSET File
  OBVIOUS
<1>4. Built = <<>>
  BY DEF Init, Built
<1>5. Outcome = "running"
  BY DEF Init, Outcome, Finished
<1> QED BY <1>2, <1>3, <1>4, <1>5 DEF Order!Init

(* Code is generated file by file, after the code of the files that are
   imported except around import circles, once for a file that declares
   something, not at all after an error, and completely when the program
   compiles: every step of ModuleImport is one of ImportOrder or none. *)
THEOREM OrderImplemented == Spec => BuildsInOrder
<1>1. Init => Order!Init
  BY OrderInit
<1>2. Init => GeneratesCleanly
  <2> SUFFICES ASSUME Init PROVE GeneratesCleanly
    OBVIOUS
  <2> QED BY DEF Init, GeneratesCleanly
<1>3. TypeOK /\ GeneratesCleanly /\ [Next]_vars => GeneratesCleanly'
  BY CleanStep
<1>4. TypeOK /\ CallersWait /\ NoReentry /\ Accounted /\ GeneratesCleanly /\ [Next]_vars
        => [Order!Next]_(Order!vars)
  BY OrderStep
<1> QED BY <1>1, <1>2, <1>3, <1>4, ImportTypesCorrect, NoModuleInItself, BooksKept, PTL
      DEF Spec, Order!Spec, BuildsInOrder

-----------------------------------------------------------------------------
(* The tables where imports form no circle.                                *)

(* What a frame has made of a symbol: its own declaration, else the last use
   statement it is through with that provides it, else what an earlier
   compilation of the file has left. *)
Bringing(f, phase, next, x) == UsesDone(f, phase, next) \cap Providers(f, x)
Expect(f, phase, next, x) ==
  IF \E d \in DeclsDone(f, phase, next) : At(f, d).sym = x THEN f
  ELSE IF Bringing(f, phase, next, x) # {}
       THEN Find[program[f].imports[Latest(Bringing(f, phase, next, x))].name]
  ELSE IF f \in Coded THEN Visible(f, x) ELSE NoFile

FrameExact(f, phase, next) ==
  /\ \A x \in Sym : domain[f].global[x] = Expect(f, phase, next, x)
  /\ \A d \in DeclsDone(f, phase, next) : At(f, d).sym \notin ImportedSyms(f)

Exact ==
  /\ \A i \in DOMAIN stack : FrameExact(stack[i].file, stack[i].phase, stack[i].next)
  /\ \A f \in Coded \ Active : \A x \in Sym : domain[f].global[x] = Visible(f, x)
  /\ \A f \in File \ (Coded \cup Active) : \A x \in Sym : domain[f].global[x] = NoFile
  /\ \A f \in Coded : DeclSyms(f) \cap ImportedSyms(f) = {}

Settled == (errors = {} /\ Acyclic) => Exact

LEMMA ExpectFacts ==
  ASSUME program \in [File -> Source], NEW f \in File, NEW p, NEW n
  PROVE  /\ \A q, k : UsesDone(f, q, k) = UsesDone(f, p, n) /\ DeclsDone(f, q, k) = DeclsDone(f, p, n)
              => /\ \A x : Expect(f, q, k, x) = Expect(f, p, n, x)
                 /\ FrameExact(f, p, n) => FrameExact(f, q, k)
         /\ p \in {"sema", "generate"} => \A x : Expect(f, p, n, x) = Visible(f, x)
         /\ UsesDone(f, p, n) = {} /\ DeclsDone(f, p, n) = {} =>
              \A x : Expect(f, p, n, x) = IF f \in Coded THEN Visible(f, x) ELSE NoFile
<1>1. ASSUME NEW q, NEW k, UsesDone(f, q, k) = UsesDone(f, p, n), DeclsDone(f, q, k) = DeclsDone(f, p, n)
      PROVE  /\ \A x : Expect(f, q, k, x) = Expect(f, p, n, x)
             /\ FrameExact(f, p, n) => FrameExact(f, q, k)
  <2>1. \A x : Bringing(f, q, k, x) = Bringing(f, p, n, x)
    BY <1>1 DEF Bringing
  <2>2. \A x : Expect(f, q, k, x) = Expect(f, p, n, x)
    BY <1>1, <2>1 DEF Expect
  <2> QED BY <1>1, <2>2 DEF FrameExact
<1>2. ASSUME p \in {"sema", "generate"}, NEW x
      PROVE  Expect(f, p, n, x) = Visible(f, x)
  <2>1. UsesDone(f, p, n) = DOMAIN program[f].imports /\ DeclsDone(f, p, n) = Places(f)
    BY <1>2, AllDone
  <2>2. Bringing(f, p, n, x) = Providers(f, x)
    BY <2>1 DEF Bringing, Providers
  <2>3. (\E d \in DeclsDone(f, p, n) : At(f, d).sym = x) <=> x \in DeclSyms(f)
    <3>1. /\ \A d \in Places(f) : At(f, d) \in DeclsOf(f)
          /\ \A e \in DeclsOf(f) : \E d \in Places(f) : e = At(f, d)
      BY PlaceFacts
    <3> QED BY <2>1, <3>1 DEF DeclSyms
  <2>4. CASE x \in DeclSyms(f)
    BY <2>3, <2>4, VisibleFacts DEF Expect
  <2>5. CASE x \notin DeclSyms(f) /\ Providers(f, x) # {}
    BY <2>2, <2>3, <2>5, VisibleFacts DEF Expect
  <2>6. CASE x \notin DeclSyms(f) /\ Providers(f, x) = {}
    BY <2>2, <2>3, <2>6, VisibleFacts DEF Expect
  <2> QED BY <2>4, <2>5, <2>6
<1>3. ASSUME UsesDone(f, p, n) = {}, DeclsDone(f, p, n) = {}, NEW x
      PROVE  Expect(f, p, n, x) = IF f \in Coded THEN Visible(f, x) ELSE NoFile
  BY <1>3 DEF Expect, Bringing
<1> QED BY <1>1, <1>2, <1>3

LEMMA ExactStays ==
  ASSUME program' = program, NEW f \in File, NEW p, NEW n,
         domain'[f].global = domain[f].global, f \in Coded' <=> f \in Coded,
         FrameExact(f, p, n)
  PROVE  FrameExact(f, p, n)'
<1>1. /\ UsesDone(f, p, n)' = UsesDone(f, p, n)
      /\ DeclsDone(f, p, n)' = DeclsDone(f, p, n)
      /\ \A d : At(f, d)' = At(f, d)
      /\ \A x : Visible(f, x)' = Visible(f, x)
      /\ \A u : ProvidedSyms(u)' = ProvidedSyms(u)
      /\ ImportedSyms(f)' = ImportedSyms(f)
  BY Frozen
<1>2. \A x : Providers(f, x)' = Providers(f, x)
  BY <1>1 DEF Providers
<1>3. \A x : Bringing(f, p, n, x)' = Bringing(f, p, n, x)
  BY <1>1, <1>2 DEF Bringing
<1>4. \A x : Expect(f, p, n, x)' = Expect(f, p, n, x)
  BY <1>1, <1>3 DEF Expect
<1> QED BY <1>1, <1>4 DEF FrameExact

(* Without import circles no file is compiled inside of itself. *)
LEMMA Apart ==
  ASSUME TypeOK, Books, Acyclic
  PROVE  /\ \A i, j \in DOMAIN stack : stack[i].file = stack[j].file => i = j
         /\ stack # <<>> => \A g \in Deps(Top.file) : g \notin Active
<1>1. /\ program \in [File -> Source] /\ stack \in Seq(Frame)
      /\ DOMAIN stack = 1 .. Len(stack) /\ Len(stack) \in Nat
  BY DEF TypeOK
<1>2. \A i \in DOMAIN stack : stack[i].file \in File
  <2>1. \A i \in DOMAIN stack : stack[i] \in Frame
    BY <1>1
  <2>2. \A fr \in Frame : fr.file \in File
    BY DEF Frame
  <2> QED BY <2>1, <2>2
<1>3. \A i \in DOMAIN stack : stack[i].file \in Reachable
  <2> SUFFICES ASSUME NEW i \in DOMAIN stack PROVE stack[i].file \in Reachable
    OBVIOUS
  <2>1. 1 \in DOMAIN stack /\ (i = 1 \/ 1 < i) /\ stack # <<>>
    BY <1>1
  <2>2. stack[1].file = Root
    BY <2>1 DEF Books, Chain
  <2>3. 1 < i => stack[i].file \in Order!Reach(Root)
    BY <2>1, <2>2 DEF Books, Chain
  <2> QED BY <2>1, <2>2, <2>3 DEF Reachable
<1>4. \A i, j \in DOMAIN stack : i < j => stack[i].file # stack[j].file
  BY <1>3 DEF Books, Chain, Acyclic
<1>5. ASSUME NEW i \in DOMAIN stack, NEW j \in DOMAIN stack, stack[i].file = stack[j].file
      PROVE  i = j
  <2>1. i < j \/ j < i \/ i = j
    BY <1>1
  <2> QED BY <1>4, <1>5, <2>1
<1>6. ASSUME stack # <<>>, NEW g \in Deps(Top.file), g \in Active
      PROVE  FALSE
  <2>1. PICK i \in DOMAIN stack : g = stack[i].file
    BY <1>6 DEF Active
  <2>2. Len(stack) \in DOMAIN stack /\ Top = stack[Len(stack)] /\ (i = Len(stack) \/ i < Len(stack))
    BY <1>1 DEF Top
  <2>3. g \in File /\ Top.file \in File /\ g \in Reachable
    BY <1>2, <1>3, <2>1, <2>2
  <2>4. Top.file \in Order!Reach(g) \/ Top.file = g
    BY <2>1, <2>2 DEF Books, Chain
  <2>5. Deps(Top.file) \subseteq Order!Reach(g)
    BY <1>1, <2>3, <2>4, ReachFacts
  <2> QED BY <1>6, <2>3, <2>5 DEF Acyclic
<1> QED BY <1>5, <1>6

(* A step in which the innermost frame goes on within its file. *)
LEMMA ExactGo ==
  ASSUME TypeOK, Books, Acyclic, Exact, stack # <<>>, NEW p \in Phases, NEW k \in Nat \ {0}, Go(p, k),
         program' = program, mir' = mir, NEW f, f = Top.file, FrameExact(f, p, k)',
         \A g \in File : g # f => domain'[g].global = domain[g].global
  PROVE  Exact'
<1>1. StackOK /\ program \in [File -> Source] /\ Len(stack) \in Nat \ {0}
  BY TopFrame DEF TypeOK, StackOK
<1>2. /\ stack' \in Seq(Frame) /\ Len(stack') = Len(stack)
      /\ \A i \in 1 .. Len(stack) :
           stack'[i] = IF i = Len(stack) THEN Resume(Top, p, k) ELSE stack[i]
  BY <1>1, GoStack DEF StackOK
<1>3. /\ DOMAIN stack = 1 .. Len(stack) /\ DOMAIN stack' = 1 .. Len(stack)
      /\ Top = stack[Len(stack)] /\ Len(stack) \in 1 .. Len(stack)
      /\ \A i \in 1 .. Len(stack) : stack[i] \in Frame
  BY <1>1, <1>2 DEF StackOK, Top
<1>4. /\ Resume(Top, p, k).file = f /\ Resume(Top, p, k).phase = p /\ Resume(Top, p, k).next = k
  <2>1. Top \in Frame
    BY <1>1, <1>3
  <2> QED BY <2>1 DEF Resume, Frame
<1>5. \A i \in 1 .. Len(stack) : stack'[i].file = stack[i].file
  BY <1>2, <1>3, <1>4
<1>6. Coded' = Coded
  BY DEF Coded
<1>7. Active' = Active /\ f \in Active
  <2>1. Active' = Active
    BY <1>3, <1>5 DEF Active
  <2>2. f \in Active
    BY <1>3 DEF Active
  <2> QED BY <2>1, <2>2
<1>8. \A i \in DOMAIN stack' : FrameExact(stack[i].file, stack[i].phase, stack[i].next)'
  <2> SUFFICES ASSUME NEW i \in 1 .. Len(stack)
               PROVE  FrameExact(stack[i].file, stack[i].phase, stack[i].next)'
    BY <1>3
  <2>1. CASE i = Len(stack)
    <3>1. stack'[i].file = f /\ stack'[i].phase = p /\ stack'[i].next = k
      BY <1>2, <1>4, <2>1
    <3> QED BY <3>1
  <2>2. CASE i # Len(stack)
    <3>1. PICK g, q, n : g = stack[i].file /\ q = stack[i].phase /\ n = stack[i].next
      OBVIOUS
    <3>2. g \in File /\ FrameExact(g, q, n)
      BY <1>3, <3>1 DEF Exact, Frame
    <3>3. g # f
      BY <1>3, <2>2, <3>1, Apart
    <3>4. FrameExact(g, q, n)'
      BY <1>6, <3>2, <3>3, ExactStays
    <3>5. stack'[i].file = g /\ stack'[i].phase = q /\ stack'[i].next = n
      BY <1>2, <2>2, <3>1
    <3> QED BY <3>4, <3>5
  <2> QED BY <2>1, <2>2
<1>9. \A g \in Coded' \ Active' : \A x \in Sym : domain'[g].global[x] = Visible(g, x)'
  <2>1. \A g, x : Visible(g, x)' = Visible(g, x)
    BY Frozen
  <2>2. \A g \in Coded \ Active : g \in File /\ g # f
    BY <1>7, CodedFacts
  <2> QED BY <1>6, <1>7, <2>1, <2>2 DEF Exact
<1>10. \A g \in File \ (Coded' \cup Active') : \A x \in Sym : domain'[g].global[x] = NoFile
  <2>1. \A g \in File \ (Coded \cup Active) : g # f
    BY <1>7
  <2> QED BY <1>6, <1>7, <2>1 DEF Exact
<1>11. \A g \in Coded' : DeclSyms(g)' \cap ImportedSyms(g)' = {}
  BY <1>6, Frozen DEF Exact
<1> QED BY <1>8, <1>9, <1>10, <1>11 DEF Exact

LEMMA ExactInit == Init => Settled
<1> SUFFICES ASSUME Init PROVE Exact
  BY DEF Settled
<1>1. /\ DOMAIN stack = {1} /\ stack[1].file = Root /\ stack[1].phase = "parse" /\ stack[1].next = 1
  BY DEF Init, NewFrame
<1>2. Coded = {} /\ program \in [File -> Source] /\ Root \in File
  BY ImportAssumption DEF Init, Coded
<1>3. \A f \in File : \A x \in Sym : domain[f].global[x] = NoFile
  BY DEF Init, EmptyTable
<1>4. FrameExact(Root, "parse", 1)
  <2>1. UsesDone(Root, "parse", 1) = {} /\ DeclsDone(Root, "parse", 1) = {}
    BY NothingDone
  <2>2. \A x : Expect(Root, "parse", 1, x) = NoFile
    BY <1>2, <2>1, ExpectFacts
  <2> QED BY <1>2, <1>3, <2>1, <2>2 DEF FrameExact
<1> QED BY <1>1, <1>2, <1>3, <1>4 DEF Exact

(* The steps that leave the tables as they are and go from one place of a file
   to another with the same statements and declarations behind it. *)
LEMMA ExactAlong ==
  ASSUME TypeOK, Books, Acyclic, Exact, stack # <<>>, NEW p \in Phases, NEW k \in Nat \ {0}, Go(p, k),
         program' = program, mir' = mir, NEW f, f = Top.file,
         UsesDone(f, p, k) = UsesDone(f, Top.phase, Top.next),
         DeclsDone(f, p, k) = DeclsDone(f, Top.phase, Top.next),
         \A g \in File : domain'[g].global = domain[g].global
  PROVE  Exact'
<1>1. PICK q, n : q = Top.phase /\ n = Top.next
  OBVIOUS
<1>2. /\ program \in [File -> Source] /\ f \in File /\ Len(stack) \in DOMAIN stack
  BY TopFacts
<1>3. FrameExact(f, q, n)
  BY <1>1, <1>2 DEF Exact, Top
<1>4. FrameExact(f, p, k)
  BY <1>1, <1>2, <1>3, ExpectFacts
<1>5. Coded' = Coded
  BY DEF Coded
<1>6. FrameExact(f, p, k)'
  BY <1>2, <1>4, <1>5, ExactStays
<1> QED BY <1>6, ExactGo

LEMMA ParseExact ==
  ASSUME TypeOK, Books, Acyclic, Exact, Parse, errors' = {}
  PROVE  Exact'
<1>1. stack # <<>> /\ Top.phase = "parse" /\ Go("run", 1) /\ "run" \in Phases
  BY DEF Parse, Running, AnyErrors, Phases
<1>2. program' = program /\ domain' = domain /\ mir' = mir
  BY DEF Parse
<1>3. PICK f : f = Top.file
  OBVIOUS
<1>4. /\ UsesDone(f, "run", 1) = UsesDone(f, Top.phase, Top.next)
      /\ DeclsDone(f, "run", 1) = DeclsDone(f, Top.phase, Top.next)
  BY <1>1, NothingDone
<1> QED BY <1>1, <1>2, <1>3, <1>4, ExactAlong

LEMMA BeginRunExact ==
  ASSUME TypeOK, Books, Acyclic, Exact, BeginRun, errors' = {}
  PROVE  Exact'
<1>1. stack # <<>> /\ Top.phase = "run" /\ Go("imports", 1) /\ "imports" \in Phases
  BY DEF BeginRun, Running, Phases
<1>2. program' = program /\ mir' = mir
  BY DEF BeginRun
<1>3. PICK f : f = Top.file
  OBVIOUS
<1>4. program \in [File -> Source] /\ f \in File
  BY <1>1, <1>3, TopFacts
<1>5. /\ UsesDone(f, "imports", 1) = UsesDone(f, Top.phase, Top.next)
      /\ DeclsDone(f, "imports", 1) = DeclsDone(f, Top.phase, Top.next)
  <2>1. PICK n : n = Top.next
    OBVIOUS
  <2>2. UsesDone(f, "run", n) = {} /\ DeclsDone(f, "run", n) = {} /\ DeclsDone(f, "imports", 1) = {}
    BY NothingDone
  <2>3. UsesDone(f, "imports", 1) = {}
    BY <1>4, UseDone
  <2> QED BY <1>1, <2>1, <2>2, <2>3
<1>6. \A g \in File : domain'[g].global = domain[g].global
  <2>1. domain \in [File -> Domain] /\ domain' = [domain EXCEPT ![f].exists = TRUE]
    BY <1>3 DEF TypeOK, BeginRun
  <2> QED BY <1>4, <2>1 DEF Domain
<1> QED BY <1>1, <1>2, <1>3, <1>5, <1>6, ExactAlong

LEMMA EndScanExact ==
  ASSUME TypeOK, Books, Acyclic, Exact, EndScan, errors' = {}
  PROVE  Exact'
<1>1. /\ stack # <<>> /\ Top.phase \in Scans \cup {"imports"} /\ Top.next > Len(Items)
      /\ Go(Following[Top.phase], 1)
  BY DEF EndScan, AnyErrors
<1>2. program' = program /\ mir' = mir /\ domain' = domain
  BY DEF EndScan
<1>3. PICK f, p, n, q : f = Top.file /\ p = Top.phase /\ n = Top.next /\ q = Following[p]
  OBVIOUS
<1>4. program \in [File -> Source] /\ f \in File /\ n \in Nat \ {0}
  BY <1>1, <1>3, TopFacts
<1>5. UsesDone(f, q, 1) = UsesDone(f, p, n) /\ DeclsDone(f, q, 1) = DeclsDone(f, p, n)
  <2>1. n > Len(IF p = "imports" THEN program[f].imports ELSE program[f].decls[p])
    BY <1>1, <1>3, TopFacts DEF Items
  <2> QED BY <1>1, <1>3, <1>4, <2>1, ScanDone
<1>6. q \in Phases /\ Go(q, 1)
  BY <1>1, <1>3 DEF Following, Scans, Phases
<1> QED BY <1>1, <1>2, <1>3, <1>5, <1>6, ExactAlong

LEMMA AnalyseExact ==
  ASSUME TypeOK, Books, Acyclic, Exact, Analyse, errors' = {}
  PROVE  Exact'
<1>1. stack # <<>> /\ Top.phase = "sema" /\ Go("generate", 1) /\ "generate" \in Phases
  BY DEF Analyse, Running, AnyErrors, Phases
<1>2. program' = program /\ domain' = domain /\ mir' = mir
  BY DEF Analyse
<1>3. PICK f : f = Top.file
  OBVIOUS
<1>4. /\ UsesDone(f, "generate", 1) = UsesDone(f, Top.phase, Top.next)
      /\ DeclsDone(f, "generate", 1) = DeclsDone(f, Top.phase, Top.next)
  BY <1>1, AllDone
<1> QED BY <1>1, <1>2, <1>3, <1>4, ExactAlong

LEMMA KnownExact ==
  ASSUME TypeOK, Books, Acyclic, Exact, FindModule, errors' = {}, Go("take", Top.next)
  PROVE  Exact'
<1>1. stack # <<>> /\ Top.phase = "imports" /\ "take" \in Phases
  BY DEF FindModule, Running, Phases
<1>2. program' = program /\ domain' = domain /\ mir' = mir
  BY DEF FindModule
<1>3. PICK f, n : f = Top.file /\ n = Top.next
  OBVIOUS
<1>4. program \in [File -> Source] /\ f \in File /\ n \in Nat \ {0}
  BY <1>1, <1>3, TopFacts
<1>5. /\ UsesDone(f, "take", n) = UsesDone(f, Top.phase, Top.next)
      /\ DeclsDone(f, "take", n) = DeclsDone(f, Top.phase, Top.next)
  <2>1. DeclsDone(f, "take", n) = {} /\ DeclsDone(f, "imports", n) = {}
    BY NothingDone
  <2>2. UsesDone(f, "take", n) = UsesDone(f, "imports", n)
    BY <1>4, UseDone
  <2> QED BY <1>1, <1>3, <2>1, <2>2
<1> QED BY <1>1, <1>2, <1>3, <1>4, <1>5, ExactAlong

LEMMA FreshExact ==
  ASSUME TypeOK, Books, Acyclic, Exact, NEW f, NEW m, NEW g, Enters(f, m, g)
  PROVE  Exact'
<1>1. /\ stack # <<>> /\ f = Top.file /\ f \in File /\ g \in Deps(f) /\ m \in Name /\ g \in File
  BY DEF Enters
<1>2. /\ program \in [File -> Source] /\ StackOK
      /\ Len(stack) \in Nat \ {0} /\ DOMAIN stack = 1 .. Len(stack)
      /\ \A i \in 1 .. Len(stack) : stack[i] \in Frame
  BY <1>1, TopFacts DEF StackOK
<1>3. /\ DOMAIN stack' = 1 .. Len(stack) + 1
      /\ \A i \in 1 .. Len(stack) : stack'[i] = stack[i]
      /\ stack'[Len(stack) + 1].file = g /\ stack'[Len(stack) + 1].phase = "parse"
      /\ stack'[Len(stack) + 1].next = 1
  <2>1. /\ StackOK' /\ Top' = NewFrame(g, m) /\ Len(stack') = Len(stack) + 1
        /\ \A i \in 1 .. Len(stack) : stack'[i] = stack[i]
    <3>1. stack' = Append(stack, NewFrame(g, m))
      BY DEF Enters
    <3> QED BY <1>1, <1>2, <3>1, PushOK
  <2>2. DOMAIN stack' = 1 .. Len(stack) + 1
    BY <2>1 DEF StackOK
  <2>3. stack'[Len(stack) + 1] = NewFrame(g, m)
    BY <2>1 DEF Top
  <2> QED BY <1>2, <2>1, <2>2, <2>3 DEF NewFrame
<1>4. \A i \in 1 .. Len(stack) + 1 : i \in 1 .. Len(stack) \/ i = Len(stack) + 1
  BY <1>2
<1>5. program' = program /\ mir' = mir /\ domain' = domain /\ Coded' = Coded
  BY DEF Enters, Coded
<1>6. g \notin Active
  BY <1>1, Apart
<1>7. Active' = Active \cup {g}
  <2>1. \A i \in DOMAIN stack : i \in DOMAIN stack' /\ stack'[i].file = stack[i].file
    BY <1>2, <1>3
  <2>2. Len(stack) + 1 \in DOMAIN stack' /\ stack'[Len(stack) + 1].file = g
    BY <1>2, <1>3
  <2>3. \A i \in DOMAIN stack' : stack'[i].file = g \/ (i \in DOMAIN stack /\ stack'[i].file = stack[i].file)
    BY <1>2, <1>3, <1>4
  <2> QED BY <2>1, <2>2, <2>3 DEF Active
<1>8. FrameExact(g, "parse", 1)'
  <2>1. UsesDone(g, "parse", 1) = {} /\ DeclsDone(g, "parse", 1) = {}
    BY NothingDone
  <2>2. \A x : Expect(g, "parse", 1, x) = IF g \in Coded THEN Visible(g, x) ELSE NoFile
    BY <1>1, <1>2, <2>1, ExpectFacts
  <2>3. \A x \in Sym : domain[g].global[x] = IF g \in Coded THEN Visible(g, x) ELSE NoFile
    BY <1>1, <1>6 DEF Exact
  <2>4. FrameExact(g, "parse", 1)
    BY <2>1, <2>2, <2>3 DEF FrameExact
  <2> QED BY <1>1, <1>5, <2>4, ExactStays
<1>9. \A i \in DOMAIN stack' : FrameExact(stack[i].file, stack[i].phase, stack[i].next)'
  <2> SUFFICES ASSUME NEW i \in 1 .. Len(stack) + 1
               PROVE  FrameExact(stack[i].file, stack[i].phase, stack[i].next)'
    BY <1>3
  <2>1. CASE i = Len(stack) + 1
    BY <1>3, <1>8, <2>1
  <2>2. CASE i \in 1 .. Len(stack)
    <3>1. PICK h, q, n : h = stack[i].file /\ q = stack[i].phase /\ n = stack[i].next
      OBVIOUS
    <3>2. h \in File /\ FrameExact(h, q, n)
      BY <1>2, <2>2, <3>1 DEF Exact, Frame
    <3>3. FrameExact(h, q, n)'
      BY <1>5, <3>2, ExactStays
    <3>4. stack'[i].file = h /\ stack'[i].phase = q /\ stack'[i].next = n
      BY <1>3, <2>2, <3>1
    <3> QED BY <3>3, <3>4
  <2> QED BY <1>4, <2>1, <2>2
<1>10. /\ \A h \in Coded' \ Active' : \A x \in Sym : domain'[h].global[x] = Visible(h, x)'
       /\ \A h \in File \ (Coded' \cup Active') : \A x \in Sym : domain'[h].global[x] = NoFile
  <2>1. \A h, x : Visible(h, x)' = Visible(h, x)
    BY <1>5, Frozen
  <2> QED BY <1>5, <1>7, <2>1 DEF Exact
<1>11. \A h \in Coded' : DeclSyms(h)' \cap ImportedSyms(h)' = {}
  BY <1>5, Frozen DEF Exact
<1> QED BY <1>9, <1>10, <1>11 DEF Exact

LEMMA FindExact ==
  ASSUME TypeOK, Books, Acyclic, Exact, FindModule, errors' = {}
  PROVE  Exact'
<1>1. PICK f, u : f = Top.file /\ u = program[f].imports[Top.next]
  OBVIOUS
<1>2. PICK m, g : m = u.name /\ g = Find[m]
  OBVIOUS
<1>3. /\ stack # <<>> /\ f \in File /\ u \in UsesOf(f) /\ m \in Name /\ g \in File /\ g \in Deps(f)
      /\ \/ /\ status[m] # "not_exist" /\ Go("take", Top.next)
            /\ status' = status /\ nameOf' = nameOf
         \/ /\ status[m] = "not_exist"
            /\ stack' = Append(stack, NewFrame(g, m))
            /\ status' = [status EXCEPT ![m] = "analysing"]
            /\ nameOf' = [nameOf EXCEPT ![g] = m]
  BY <1>1, <1>2, Finding
<1>4. CASE status[m] # "not_exist"
  BY <1>3, <1>4, KnownExact
<1>5. CASE status[m] = "not_exist"
  <2>1. f \in Reachable
    BY <1>1, <1>3, TopFacts
  <2>2. m \in UsedNames
    BY <1>2, <1>3, <2>1 DEF UsedNames
  <2>3. program' = program /\ mir' = mir /\ domain' = domain
    BY DEF FindModule
  <2>4. Enters(f, m, g)
    BY <1>1, <1>2, <1>3, <1>5, <2>2, <2>3 DEF Enters
  <2> QED BY <2>4, FreshExact
<1> QED BY <1>4, <1>5

(* A module that is taken from has been built, so it provides all it should. *)
LEMMA TakenIsProvided ==
  ASSUME TypeOK, CallersWait, NoReentry, Books, Acyclic, errors = {}, stack # <<>>,
         NEW f, f = Top.file, program[f].parses, NEW u \in UsesOf(f), NEW g, g = Find[u.name], Met(u)
  PROVE  /\ g \in Coded /\ domain[g].exists /\ g \in File
         /\ Taken(u, g) = Provides(u)
         /\ \A x : (\E d \in Taken(u, g) : d.sym = x) <=> x \in ProvidedSyms(u)
<1>1. program \in [File -> Source] /\ f \in File
  BY TopFacts
<1>2. g \in Deps(f)
  BY <1>1, DepsFacts DEF Met
<1>3. g \notin Active
  BY <1>2, Apart
<1>4. g \in Coded
  <2>1. ~\E i \in DOMAIN stack : stack[i].file = g
    BY <1>3 DEF Active
  <2> QED BY <1>1, <2>1, MetModule
<1>5. g \in File /\ CodedOk(g) /\ TableOk(g)
  BY <1>4, CodedFacts DEF Books
<1>6. domain[g].owned = DeclsOf(g) /\ domain[g].exists
  BY <1>5 DEF CodedOk, TableOk
<1>7. Taken(u, g) = Provides(u)
  BY <1>6 DEF Taken, Provides, Met
<1>8. \A x : (\E d \in Taken(u, g) : d.sym = x) <=> x \in ProvidedSyms(u)
  BY <1>7 DEF ProvidedSyms
<1> QED BY <1>4, <1>5, <1>6, <1>7, <1>8

LEMMA TakeExact ==
  ASSUME TypeOK, CallersWait, NoReentry, WritesOwnTables, Books, Acyclic, Exact,
         TakeSymbols, errors' = {}
  PROVE  Exact'
<1>1. PICK f, n : f = Top.file /\ n = Top.next
  OBVIOUS
<1>2. PICK u : u = program[f].imports[n]
  OBVIOUS
<1>3. PICK g : g = Find[u.name]
  OBVIOUS
<1>4. /\ stack # <<>> /\ Top.phase = "take" /\ Go("imports", n + 1)
      /\ f \in File /\ n \in DOMAIN program[f].imports /\ u \in UsesOf(f)
      /\ g \in File /\ Met(u)
      /\ domain' = [domain EXCEPT ![f] = EnterBoth(domain[f], Taken(u, g), g)]
  BY <1>1, <1>2, <1>3, Serving
<1>5. /\ program \in [File -> Source] /\ n \in Nat \ {0} /\ program[f].parses
      /\ FrameExact(f, "take", n)
  <2>1. /\ program \in [File -> Source] /\ n \in Nat \ {0} /\ FrameAt(f, "take", n)
        /\ Len(stack) \in DOMAIN stack
    BY <1>1, <1>4, TopFacts
  <2>2. FrameExact(f, "take", n)
    BY <1>1, <1>4, <2>1 DEF Exact, Top
  <2> QED BY <2>1, <2>2 DEF FrameAt
<1>6. program' = program /\ mir' = mir /\ errors = {}
  BY Unreported DEF TakeSymbols
<1>7. Coded' = Coded
  BY <1>6 DEF Coded
<1>8. \A x : (\E d \in Taken(u, g) : d.sym = x) <=> x \in ProvidedSyms(u)
  BY <1>1, <1>3, <1>4, <1>5, <1>6, TakenIsProvided
<1>9. /\ \A h \in File : h # f => domain'[h] = domain[h]
      /\ \A x \in Sym : domain'[f].global[x] = IF x \in ProvidedSyms(u) THEN g ELSE domain[f].global[x]
  <2>1. domain \in [File -> Domain]
    BY DEF TypeOK
  <2> DEFINE new == EnterBoth(domain[f], Taken(u, g), g)
  <2>2. domain[f] \in Domain
    BY <1>4, <2>1
  <2>3. \A x \in Sym : new.global[x] = IF \E d \in Taken(u, g) : d.sym = x THEN g ELSE domain[f].global[x]
    BY <2>2, Entered
  <2>4. domain'[f] = new /\ \A h \in File : h # f => domain'[h] = domain[h]
    <3> HIDE DEF new
    <3>1. domain' = [domain EXCEPT ![f] = new]
      BY <1>4 DEF new
    <3> QED BY <1>4, <2>1, <3>1
  <2> HIDE DEF new
  <2> QED BY <1>8, <2>3, <2>4
<1>10. PICK k : k = n + 1
  OBVIOUS
<1>11. /\ DeclsDone(f, "imports", k) = {} /\ DeclsDone(f, "take", n) = {}
       /\ UsesDone(f, "imports", k) = UsesDone(f, "take", n) \cup {n}
       /\ \A i \in UsesDone(f, "take", n) : i < n
  <2>1. DeclsDone(f, "imports", k) = {} /\ DeclsDone(f, "take", n) = {}
    BY NothingDone
  <2>2. /\ UsesDone(f, "imports", k) = UsesDone(f, "take", n) \cup {n}
        /\ \A i \in UsesDone(f, "take", n) : i < n
    BY <1>4, <1>5, <1>10, UseDone
  <2> QED BY <2>1, <2>2
<1>12. ASSUME NEW x \in Sym
       PROVE  Expect(f, "imports", k, x) =
                IF x \in ProvidedSyms(u) THEN g ELSE Expect(f, "take", n, x)
  <2> DEFINE B == Bringing(f, "imports", k, x)
  <2>1. CASE x \in ProvidedSyms(u)
    <3>1. n \in Providers(f, x)
      BY <1>2, <1>4, <2>1 DEF Providers
    <3>2. n \in B /\ \A i \in B : i = n \/ i < n
      BY <1>11, <3>1 DEF Bringing
    <3>3. DOMAIN program[f].imports \subseteq Nat
      BY <1>4, <1>5, UseFacts
    <3>4. B \subseteq Nat
      BY <3>3 DEF Bringing, UsesDone
    <3> HIDE DEF B
    <3>5. \A i \in B : i <= n
      BY <1>5, <3>2, <3>4
    <3>6. \A i \in B : (\A j \in B : j <= i) => i = n
      BY <1>5, <3>2, <3>4, <3>5
    <3>7. Latest(B) = n
      BY <3>2, <3>5, <3>6 DEF Latest
    <3>8. Bringing(f, "imports", k, x) # {} /\ Latest(Bringing(f, "imports", k, x)) = n
      BY <3>2, <3>7 DEF B
    <3> QED BY <1>2, <1>3, <1>11, <2>1, <3>8 DEF Expect
  <2>2. CASE x \notin ProvidedSyms(u)
    <3>1. n \notin Providers(f, x)
      BY <1>2, <2>2 DEF Providers
    <3>2. B = Bringing(f, "take", n, x)
      BY <1>11, <3>1 DEF Bringing
    <3> QED BY <1>11, <2>2, <3>2 DEF Expect
  <2> QED BY <2>1, <2>2
<1>13. FrameExact(f, "imports", k)'
  <2>1. /\ UsesDone(f, "imports", k)' = UsesDone(f, "imports", k)
        /\ DeclsDone(f, "imports", k)' = {}
        /\ \A d : At(f, d)' = At(f, d)
        /\ \A x : Visible(f, x)' = Visible(f, x)
        /\ \A v : ProvidedSyms(v)' = ProvidedSyms(v)
    BY <1>6, <1>11, Frozen
  <2>2. \A x : Providers(f, x)' = Providers(f, x)
    BY <1>6, <2>1 DEF Providers
  <2>3. \A x : Bringing(f, "imports", k, x)' = Bringing(f, "imports", k, x)
    BY <2>1, <2>2 DEF Bringing
  <2>4. \A x : Expect(f, "imports", k, x)' = Expect(f, "imports", k, x)
    BY <1>6, <1>7, <1>11, <2>1, <2>3 DEF Expect
  <2>5. \A x \in Sym : domain'[f].global[x] = Expect(f, "imports", k, x)
    BY <1>5, <1>9, <1>12 DEF FrameExact
  <2> QED BY <2>1, <2>4, <2>5 DEF FrameExact
<1>14. "imports" \in Phases /\ k \in Nat \ {0} /\ Go("imports", k)
  BY <1>4, <1>5, <1>10 DEF Phases
<1>15. \A h \in File : h # f => domain'[h].global = domain[h].global
  BY <1>9
<1> QED BY <1>1, <1>4, <1>6, <1>13, <1>14, <1>15, ExactGo

LEMMA RegisterExact ==
  ASSUME TypeOK, WritesOwnTables, Books, Acyclic, Exact, Register, errors' = {}
  PROVE  Exact'
<1>1. PICK f, p, n : f = Top.file /\ p = Top.phase /\ n = Top.next
  OBVIOUS
<1>2. PICK d : d = At(f, <<p, n>>)
  OBVIOUS
<1>3. /\ stack # <<>> /\ p \in Scans /\ Go(p, n + 1)
      /\ f \in File /\ n \in DOMAIN program[f].decls[p]
      /\ d \in DeclsOf(f) /\ d \in Decl
      /\ domain[f].global[d.sym] = NoFile
      /\ domain' = [domain EXCEPT ![f] = EnterBoth(Own(domain[f], d), {d}, f)]
  BY <1>1, <1>2, Registering
<1>4. /\ program \in [File -> Source] /\ n \in Nat \ {0} /\ p \in Phases
      /\ FrameExact(f, p, n)
  <2>1. /\ program \in [File -> Source] /\ n \in Nat \ {0} /\ p \in Phases
        /\ Len(stack) \in DOMAIN stack
    BY <1>1, <1>3, TopFacts
  <2>2. FrameExact(f, p, n)
    BY <1>1, <1>3, <2>1 DEF Exact, Top
  <2> QED BY <2>1, <2>2
<1>5. program' = program /\ mir' = mir
  BY DEF Register
<1>6. Coded' = Coded
  BY <1>5 DEF Coded
<1>7. /\ \A h \in File : h # f => domain'[h] = domain[h]
      /\ \A x \in Sym : domain'[f].global[x] = IF x = d.sym THEN f ELSE domain[f].global[x]
  <2>1. domain \in [File -> Domain]
    BY DEF TypeOK
  <2> DEFINE own == Own(domain[f], d)
             new == EnterBoth(own, {d}, f)
  <2>2. domain[f] \in Domain
    BY <1>3, <2>1
  <2>3. own \in Domain /\ own.global = domain[f].global
    BY <1>3, <2>2, OwnType DEF Own, Domain
  <2>4. \A x \in Sym : new.global[x] = IF \E e \in {d} : e.sym = x THEN f ELSE own.global[x]
    <3> HIDE DEF own
    <3> QED BY <2>3, Entered
  <2>5. domain'[f] = new /\ \A h \in File : h # f => domain'[h] = domain[h]
    <3> HIDE DEF new
    <3>1. domain' = [domain EXCEPT ![f] = new]
      BY <1>3 DEF new
    <3> QED BY <1>3, <2>1, <3>1
  <2> HIDE DEF own, new
  <2> QED BY <2>3, <2>4, <2>5
<1>8. PICK k : k = n + 1
  OBVIOUS
<1>9. /\ UsesDone(f, p, k) = UsesDone(f, p, n) /\ UsesDone(f, p, n) = DOMAIN program[f].imports
      /\ DeclsDone(f, p, k) = DeclsDone(f, p, n) \cup {<<p, n>>}
  BY <1>3, <1>4, <1>8, AllDone, DeclDone
<1>10. d.sym \in Sym /\ Expect(f, p, n, d.sym) = NoFile
  BY <1>3, <1>4 DEF FrameExact, Decl
<1>11. d.sym \notin ImportedSyms(f)
  <2> SUFFICES ASSUME d.sym \in ImportedSyms(f) PROVE FALSE
    OBVIOUS
  <2>1. PICK u \in UsesOf(f) : d.sym \in ProvidedSyms(u)
    BY DEF ImportedSyms
  <2>2. PICK i \in DOMAIN program[f].imports : u = program[f].imports[i]
    BY <1>3, <1>4, UseFacts
  <2> DEFINE B == Bringing(f, p, n, d.sym)
  <2>3. i \in B
    BY <1>9, <2>1, <2>2 DEF Bringing, Providers
  <2>4. Latest(B) \in B
    <3>1. DOMAIN program[f].imports = 1 .. Len(program[f].imports) /\ Len(program[f].imports) \in Nat
      BY <1>3, <1>4, UseFacts
    <3>2. B \in SUBSET (1 .. Len(program[f].imports))
      BY <3>1 DEF Bringing, Providers
    <3> HIDE DEF B
    <3> QED BY <2>3, <3>1, <3>2, LatestFacts
  <2>5. f # NoFile
    BY <1>3, ImportAssumption
  <2>6. Find[program[f].imports[Latest(B)].name] # NoFile
    <3>1. d.sym \in ProvidedSyms(program[f].imports[Latest(B)])
      BY <2>4 DEF Bringing, Providers
    <3> HIDE DEF B
    <3> QED BY <3>1 DEF ProvidedSyms, Provides
  <2>7. B # {}
    BY <2>3
  <2> QED BY <1>10, <2>5, <2>6, <2>7 DEF Expect
<1>12. \A x \in Sym : Expect(f, p, k, x) = IF x = d.sym THEN f ELSE Expect(f, p, n, x)
  <2>1. \A x : Bringing(f, p, k, x) = Bringing(f, p, n, x)
    BY <1>9 DEF Bringing
  <2>2. \A x : (\E e \in DeclsDone(f, p, k) : At(f, e).sym = x)
                <=> x = d.sym \/ \E e \in DeclsDone(f, p, n) : At(f, e).sym = x
    BY <1>2, <1>9
  <2> QED BY <2>1, <2>2 DEF Expect
<1>13. FrameExact(f, p, k)'
  <2>1. /\ UsesDone(f, p, k)' = UsesDone(f, p, k)
        /\ DeclsDone(f, p, k)' = DeclsDone(f, p, k)
        /\ \A e : At(f, e)' = At(f, e)
        /\ \A x : Visible(f, x)' = Visible(f, x)
        /\ \A v : ProvidedSyms(v)' = ProvidedSyms(v)
        /\ ImportedSyms(f)' = ImportedSyms(f)
    BY <1>5, Frozen
  <2>2. \A x : Providers(f, x)' = Providers(f, x)
    BY <1>5, <2>1 DEF Providers
  <2>3. \A x : Bringing(f, p, k, x)' = Bringing(f, p, k, x)
    BY <2>1, <2>2 DEF Bringing
  <2>4. \A x : Expect(f, p, k, x)' = Expect(f, p, k, x)
    BY <1>5, <1>6, <2>1, <2>3 DEF Expect
  <2>5. \A x \in Sym : domain'[f].global[x] = Expect(f, p, k, x)
    BY <1>4, <1>7, <1>12 DEF FrameExact
  <2>6. \A e \in DeclsDone(f, p, k) : At(f, e).sym \notin ImportedSyms(f)
    BY <1>2, <1>4, <1>9, <1>11 DEF FrameExact
  <2> QED BY <2>1, <2>4, <2>5, <2>6 DEF FrameExact
<1>14. k \in Nat \ {0} /\ Go(p, k)
  BY <1>3, <1>4, <1>8
<1>15. \A h \in File : h # f => domain'[h].global = domain[h].global
  BY <1>7
<1> QED BY <1>1, <1>3, <1>4, <1>5, <1>13, <1>14, <1>15, ExactGo

LEMMA LeaveExact ==
  ASSUME TypeOK, CallersWait, Books, Acyclic, Exact, NEW f, NEW m, Leaves(f, m), Top.phase = "generate"
  PROVE  Exact'
<1>1. /\ Len(stack) \in Nat \ {0} /\ DOMAIN stack = 1 .. Len(stack)
      /\ DOMAIN stack' = 1 .. Len(stack) - 1
      /\ \A i \in 1 .. Len(stack) : stack[i] \in Frame
      /\ f = stack[Len(stack)].file
      /\ \A i \in 1 .. Len(stack) - 1 :
           /\ stack'[i].file = stack[i].file /\ stack'[i].next = stack[i].next
           /\ stack[i].phase = "imports"
           /\ i < Len(stack) - 1 => stack'[i].phase = "imports"
           /\ i = Len(stack) - 1 => stack'[i].phase = "take"
  BY LeftStack
<1>2. Coded' = Coded \cup {f}
  BY LeftBehind
<1>3. /\ program \in [File -> Source] /\ program' = program /\ domain' = domain /\ f \in File
  BY DEF TypeOK, Leaves
<1>4. /\ Len(stack) \in 1 .. Len(stack)
      /\ \A i \in 1 .. Len(stack) - 1 : i \in 1 .. Len(stack) /\ i # Len(stack)
      /\ \A i \in 1 .. Len(stack) : i = Len(stack) \/ i \in 1 .. Len(stack) - 1
      /\ \A i \in 1 .. Len(stack) - 1 : i = Len(stack) - 1 \/ i < Len(stack) - 1
  <2>1. PICK l \in Nat \ {0} : l = Len(stack)
    BY <1>1
  <2>2. /\ l \in 1 .. l
        /\ \A i \in 1 .. l - 1 : i \in 1 .. l /\ i # l
        /\ \A i \in 1 .. l : i = l \/ i \in 1 .. l - 1
        /\ \A i \in 1 .. l - 1 : i = l - 1 \/ i < l - 1
    OBVIOUS
  <2> QED BY <2>1, <2>2
<1>5. \A i \in 1 .. Len(stack) - 1 : stack[i].file # f
  BY <1>1, <1>4, Apart
<1>6. Active' = Active \ {f}
  <2>1. \A g : g \in Active' <=> \E i \in 1 .. Len(stack) - 1 : g = stack[i].file
    <3>1. PICK S : S = 1 .. Len(stack) - 1
      OBVIOUS
    <3>2. DOMAIN stack' = S /\ \A i \in S : stack'[i].file = stack[i].file
      BY <1>1, <3>1
    <3>3. \A g : g \in Active' <=> \E i \in S : g = stack[i].file
      BY <3>2 DEF Active
    <3> QED BY <3>1, <3>3
  <2>2. Active = {stack[i].file : i \in 1 .. Len(stack)}
    BY <1>1 DEF Active
  <2>3. \A g \in Active' : g \in Active /\ g # f
    BY <1>4, <1>5, <2>1, <2>2
  <2>4. \A g \in Active : g = f \/ g \in Active'
    BY <1>1, <1>4, <2>1, <2>2
  <2> QED BY <2>3, <2>4
<1>7. PICK n : n = Top.next
  OBVIOUS
<1>8. FrameExact(f, "generate", n)
  BY <1>1, <1>4, <1>7 DEF Exact, Top
<1>9. /\ \A x \in Sym : domain[f].global[x] = Visible(f, x)
      /\ DeclSyms(f) \cap ImportedSyms(f) = {}
  <2>1. \A x : Expect(f, "generate", n, x) = Visible(f, x)
    BY <1>3, ExpectFacts
  <2>2. DeclsDone(f, "generate", n) = Places(f)
    BY AllDone
  <2>3. \A e \in DeclsOf(f) : \E d \in Places(f) : e = At(f, d)
    BY <1>3, PlaceFacts
  <2> QED BY <1>8, <2>1, <2>2, <2>3 DEF FrameExact, DeclSyms
<1>10. ASSUME NEW i \in 1 .. Len(stack) - 1
       PROVE  FrameExact(stack[i].file, stack[i].phase, stack[i].next)'
  <2>1. PICK g, k, q : g = stack[i].file /\ k = stack[i].next /\ q = stack'[i].phase
    OBVIOUS
  <2>2. g \in File /\ FrameExact(g, "imports", k) /\ g # f /\ k \in Nat \ {0}
    <3>1. stack[i] \in Frame /\ stack[i].phase = "imports" /\ i \in DOMAIN stack
      BY <1>1, <1>4
    <3>2. FrameExact(stack[i].file, stack[i].phase, stack[i].next)
      BY <3>1 DEF Exact
    <3> QED BY <1>5, <2>1, <3>1, <3>2 DEF Frame
  <2>3. q \in {"imports", "take"}
    BY <1>1, <1>4, <2>1
  <2>4. /\ DeclsDone(g, "imports", k) = {} /\ DeclsDone(g, "take", k) = {}
        /\ UsesDone(g, "take", k) = UsesDone(g, "imports", k)
    <3>1. DeclsDone(g, "imports", k) = {} /\ DeclsDone(g, "take", k) = {}
      BY NothingDone
    <3>2. UsesDone(g, "take", k) = UsesDone(g, "imports", k)
      BY <1>3, <2>2, UseDone
    <3> QED BY <3>1, <3>2
  <2>5. FrameExact(g, q, k)
    BY <1>3, <2>2, <2>3, <2>4, ExpectFacts
  <2>6. FrameExact(g, q, k)'
    BY <1>2, <1>3, <2>2, <2>5, ExactStays
  <2>7. stack'[i].file = g /\ stack'[i].next = k /\ stack'[i].phase = q
    BY <1>1, <2>1
  <2> QED BY <2>6, <2>7
<1>11. /\ \A h \in Coded' \ Active' : \A x \in Sym : domain'[h].global[x] = Visible(h, x)'
       /\ \A h \in File \ (Coded' \cup Active') : \A x \in Sym : domain'[h].global[x] = NoFile
  <2>1. \A h, x : Visible(h, x)' = Visible(h, x)
    BY <1>3, Frozen
  <2> QED BY <1>2, <1>3, <1>6, <1>9, <2>1 DEF Exact
<1>12. \A h \in Coded' : DeclSyms(h)' \cap ImportedSyms(h)' = {}
  <2>1. \A h : DeclSyms(h)' = DeclSyms(h) /\ ImportedSyms(h)' = ImportedSyms(h)
    BY <1>3, Frozen
  <2> QED BY <1>2, <1>9, <2>1 DEF Exact
<1> QED BY <1>1, <1>10, <1>11, <1>12 DEF Exact

LEMMA ExactStep ==
  ASSUME TypeOK, CallersWait, NoReentry, WritesOwnTables, Accounted, GeneratesCleanly, Settled, [Next]_vars
  PROVE  Settled'
<1>1. program' = program
  BY DEF Next, Parse, BeginRun, FindModule, TakeSymbols, Register, EndScan, Analyse, Generate, vars
<1>2. Acyclic' = Acyclic
  BY <1>1, GraphFrozen
<1>3. SUFFICES ASSUME errors' = {}, Acyclic PROVE Exact'
  BY <1>2 DEF Settled
<1>4. errors = {} /\ Books /\ Exact
  BY <1>3, NoErrorForgotten DEF Accounted, Settled
<1>5. CASE Parse
  BY <1>3, <1>4, <1>5, ParseExact
<1>6. CASE BeginRun
  BY <1>3, <1>4, <1>6, BeginRunExact
<1>7. CASE FindModule
  BY <1>3, <1>4, <1>7, FindExact
<1>8. CASE TakeSymbols
  BY <1>3, <1>4, <1>8, TakeExact
<1>9. CASE Register
  BY <1>3, <1>4, <1>9, RegisterExact
<1>10. CASE EndScan
  BY <1>3, <1>4, <1>10, EndScanExact
<1>11. CASE Analyse
  BY <1>3, <1>4, <1>11, AnalyseExact
<1>12. CASE Generate
  <2>1. PICK f, m : f = Top.file /\ m = Top.name
    OBVIOUS
  <2>2. Leaves(f, m) /\ Top.phase = "generate"
    BY <1>4, <1>12, <2>1, Leaving
  <2> QED BY <1>3, <1>4, <2>2, LeaveExact
<1>13. CASE UNCHANGED vars
  <2>1. /\ program' = program /\ stack' = stack /\ mir' = mir /\ domain' = domain
    BY <1>13 DEF vars
  <2>2. Coded' = Coded /\ Active' = Active
    BY <2>1 DEF Coded, Active
  <2>3. \A i \in DOMAIN stack' : FrameExact(stack[i].file, stack[i].phase, stack[i].next)'
    <3> SUFFICES ASSUME NEW i \in DOMAIN stack PROVE FrameExact(stack[i].file, stack[i].phase, stack[i].next)'
      BY <2>1
    <3>1. PICK g, q, n : g = stack[i].file /\ q = stack[i].phase /\ n = stack[i].next
      OBVIOUS
    <3>2. g \in File
      <4>1. stack[i] \in Frame
        BY DEF TypeOK
      <4> QED BY <3>1, <4>1 DEF Frame
    <3>3. FrameExact(g, q, n)
      BY <1>4, <3>1 DEF Exact
    <3>4. FrameExact(g, q, n)'
      BY <2>1, <2>2, <3>2, <3>3, ExactStays
    <3> QED BY <2>1, <3>1, <3>4
  <2>4. /\ \A h, x : Visible(h, x)' = Visible(h, x)
        /\ \A h : DeclSyms(h)' = DeclSyms(h) /\ ImportedSyms(h)' = ImportedSyms(h)
    BY <2>1, Frozen
  <2> QED BY <1>4, <2>1, <2>2, <2>3, <2>4 DEF Exact
<1> QED BY <1>5, <1>6, <1>7, <1>8, <1>9, <1>10, <1>11, <1>12, <1>13 DEF Next

(* The tables of a compilation without errors and without import circles. *)
THEOREM TablesKept == Spec => []Settled
<1>1. Init => Settled
  BY ExactInit
<1>2. Init => GeneratesCleanly
  <2> SUFFICES ASSUME Init PROVE GeneratesCleanly
    OBVIOUS
  <2> QED BY DEF Init, GeneratesCleanly
<1>3. TypeOK /\ GeneratesCleanly /\ [Next]_vars => GeneratesCleanly'
  BY CleanStep
<1>4. /\ TypeOK /\ CallersWait /\ NoReentry /\ WritesOwnTables /\ Accounted /\ GeneratesCleanly
      /\ Settled /\ [Next]_vars
      => Settled'
  BY ExactStep
<1> QED BY <1>1, <1>2, <1>3, <1>4, ImportTypesCorrect, NoModuleInItself, TablesOfScannedFile,
           BooksKept, PTL DEF Spec

(* A table never holds a symbol its file cannot see, and where imports form no
   circle the table of a built file is exactly what its own declarations and
   its use statements say. *)
THEOREM TablesRight == Spec => []TablesAreVisible
<1>1. TypeOK /\ Accounted /\ Settled => TablesAreVisible
  <2> SUFFICES ASSUME TypeOK, Accounted, Settled, errors = {} PROVE TablesAreVisible
    BY DEF TablesAreVisible
  <2>1. \A f \in File : TableOk(f)
    BY DEF Accounted, Books
  <2>2. \A f \in File, x \in Sym : domain[f].global[x] # NoFile =>
          \/ domain[f].global[x] = f /\ x \in {d.sym : d \in DeclsOf(f)}
          \/ \E u \in UsesOf(f) : x \in ProvidedSyms(u) /\ Find[u.name] = domain[f].global[x]
    BY <2>1 DEF TableOk, Comes, DeclSyms
  <2>3. ASSUME Acyclic, NEW f \in Range(Built) \ Active
        PROVE  domain[f].global = [x \in Sym |-> Visible(f, x)]
    <3>1. f \in Coded \ Active /\ f \in File
      BY <2>3, CodedFacts
    <3>2. \A x \in Sym : domain[f].global[x] = Visible(f, x)
      BY <2>3, <3>1 DEF Settled, Exact
    <3>3. domain[f].global \in Table
      <4>1. domain[f] \in Domain
        BY <3>1 DEF TypeOK
      <4> QED BY <4>1 DEF Domain
    <3> QED BY <3>2, <3>3 DEF Table
  <2> QED BY <2>2, <2>3 DEF TablesAreVisible
<1> QED BY <1>1, ImportTypesCorrect, BooksKept, TablesKept, PTL

-----------------------------------------------------------------------------
(* No legal program is refused.                                            *)

(* The code there is before the compilation ends is that of modules. *)
Named ==
  stack # <<>> => \A f \in Coded : \E n \in Name : status[n] = "analysed" /\ Find[n] = f

LEMMA AnalysedStays ==
  ASSUME TypeOK, [Next]_vars
  PROVE  \A n \in Name : status[n] = "analysed" => status'[n] = "analysed"
<1>1. status \in [Name -> Statuses]
  BY DEF TypeOK
<1>2. status' = status \/ (\E m : status' = [status EXCEPT ![m] = "analysed"])
        \/ (\E m : Fresh(m) /\ status' = [status EXCEPT ![m] = "analysing"])
  <2>1. CASE FindModule
    BY <2>1 DEF FindModule, Mark
  <2>2. CASE Generate
    BY <2>2 DEF Generate
  <2> QED BY <2>1, <2>2 DEF Next, Parse, BeginRun, TakeSymbols, Register, EndScan, Analyse, vars, pkgVars
<1>3. ASSUME NEW m, status' = [status EXCEPT ![m] = "analysed"], NEW n \in Name, status[n] = "analysed"
      PROVE  status'[n] = "analysed"
  BY <1>1, <1>3
<1>4. ASSUME NEW m, Fresh(m), status' = [status EXCEPT ![m] = "analysing"], NEW n \in Name, status[n] = "analysed"
      PROVE  status'[n] = "analysed"
  <2>1. n # m
    BY <1>4 DEF Fresh
  <2> QED BY <1>1, <1>4, <2>1
<1> QED BY <1>2, <1>3, <1>4

LEMMA NamedStep ==
  ASSUME TypeOK, CallersWait, NoReentry, Accounted, GeneratesCleanly, Named, [Next]_vars
  PROVE  Named'
<1> SUFFICES ASSUME stack' # <<>>, NEW f \in Coded'
             PROVE  \E n \in Name : status'[n] = "analysed" /\ Find[n] = f
  BY DEF Named
<1>1. CASE ~Generate
  <2>1. mir' = mir /\ stack # <<>>
    BY <1>1, NoCodeStep DEF vars
  <2>2. f \in Coded
    BY <2>1 DEF Coded
  <2> QED BY <2>1, <2>2, AnalysedStays DEF Named
<1>2. CASE Generate
  <2>1. stack # <<>> /\ Books
    BY <1>2 DEF Generate, Running, GeneratesCleanly, Accounted
  <2>2. PICK g, m : g = Top.file /\ m = Top.name
    OBVIOUS
  <2>3. Leaves(g, m)
    BY <1>2, <2>1, <2>2, Leaving
  <2>4. f \in Coded \/ f = g
    BY <2>3, LeftBehind
  <2>5. Len(stack) > 1
    <3>1. /\ Len(stack) \in Nat \ {0} /\ DOMAIN stack' = 1 .. Len(stack) - 1
      BY <2>3, LeftStack
    <3>2. TypeOK'
      BY TypeStep
    <3>3. stack' \in Seq(Frame) /\ Len(stack') # 0
      BY <3>2 DEF TypeOK
    <3> QED BY <3>1, <3>3
  <2>6. status'[m] = "analysed" /\ m \in Name /\ Find[m] = g
    BY <2>3, <2>5, LeftBehind
  <2>7. f \in Coded => \E n \in Name : status'[n] = "analysed" /\ Find[n] = f
    BY <2>1, AnalysedStays DEF Named
  <2> QED BY <2>4, <2>6, <2>7
<1> QED BY <1>1, <1>2

(* In a legal program without circles a file that is built already and declares
   something is not compiled once more. *)
LEMMA NotAgain ==
  ASSUME TypeOK, CallersWait, NoReentry, Books, Named, Acyclic, Legal, stack # <<>>,
         NEW f, f = Top.file, f \in Coded
  PROVE  Bare(f)
<1>1. PICK m : f = Top.file /\ m = Top.name
  OBVIOUS
<1>2. /\ program \in [File -> Source] /\ StackOK
      /\ f \in File /\ Len(stack) \in Nat \ {0} /\ Len(stack) \in DOMAIN stack /\ f \in Reachable
  BY <1>1, TopFacts
<1>3. PICK n \in Name : status[n] = "analysed" /\ Find[n] = f
  BY <1>1 DEF Named
<1>4. n \in UsedNames
  BY <1>3 DEF Books, NameOk
<1>5. PICK v \in UNION {UsesOf(g) : g \in Reachable} : n = v.name
  BY <1>4 DEF UsedNames
<1>6. CASE Len(stack) > 1
  <2>1. m \in Name
    BY <1>1, <1>2, <1>6, TopFrame
  <2>2. Len(stack) - 1 \in DOMAIN stack /\ Len(stack) = (Len(stack) - 1) + 1
    BY <1>2, <1>6 DEF StackOK
  <2>3. Waits(Len(stack) - 1, Len(stack))
    BY <1>2, <2>2 DEF CallersWait, Nested
  <2>4. Find[m] = f
    BY <1>1, <2>3 DEF Waits, Top
  <2>5. status[m] = "analysing"
    BY <1>1, <1>2, <1>6 DEF NoReentry, Top
  <2>6. m \in UsedNames
    BY <2>1, <2>5 DEF Books, NameOk
  <2>7. PICK u \in UNION {UsesOf(g) : g \in Reachable} : m = u.name
    BY <2>6 DEF UsedNames
  <2>8. m # n
    BY <1>3, <2>5
  <2>9. ~Bare(f) => u.name = v.name
    <3>1. Unambiguous(f)
      BY <1>2 DEF Legal
    <3>2. Find[u.name] = f /\ Find[v.name] = f
      BY <1>3, <1>5, <2>4, <2>7
    <3> HIDE DEF Bare
    <3> QED BY <3>1, <3>2 DEF Unambiguous
  <2> QED BY <1>5, <2>7, <2>8, <2>9
<1>7. CASE Len(stack) = 1
  <2>1. f = Root
    BY <1>1, <1>7 DEF Books, Chain, Top
  <2>2. PICK g \in Reachable : v \in UsesOf(g)
    BY <1>5
  <2>3. g \in File /\ program[g].parses
    BY <1>2, <2>2, ReachableFacts DEF Legal, Closed
  <2>4. f \in Deps(g)
    <3>1. f # NoFile
      BY <1>2, ImportAssumption
    <3> QED BY <1>2, <1>3, <1>5, <2>2, <2>3, <3>1, DepsFacts
  <2>5. g = Root \/ g \in Order!Reach(Root)
    BY <2>2 DEF Reachable
  <2>6. Root \in Order!Reach(Root)
    <3>1. Root \in File
      BY ImportAssumption
    <3> QED BY <1>2, <2>1, <2>4, <2>5, <3>1, ReachFacts
  <2>7. Root \in Reachable
    BY DEF Reachable
  <2> QED BY <2>6, <2>7 DEF Acyclic
<1>8. Len(stack) > 1 \/ Len(stack) = 1
  <2>1. PICK l \in Nat \ {0} : l = Len(stack)
    BY <1>2
  <2>2. l > 1 \/ l = 1
    OBVIOUS
  <2> QED BY <2>1, <2>2
<1> QED BY <1>6, <1>7, <1>8

Compiles == Acyclic /\ Legal => errors = {}

LEMMA CompilesStep ==
  ASSUME TypeOK, CallersWait, NoReentry, WritesOwnTables, Accounted, GeneratesCleanly, Settled, Named,
         Compiles, [Next]_vars
  PROVE  Compiles'
<1>1. program' = program
  BY DEF Next, Parse, BeginRun, FindModule, TakeSymbols, Register, EndScan, Analyse, Generate, vars
<1>2. Acyclic' = Acyclic /\ Legal' = Legal
  BY <1>1, GraphFrozen
<1> SUFFICES ASSUME Acyclic, Legal PROVE errors' = {}
  BY <1>2 DEF Compiles
<1>3. errors = {} /\ Books /\ Exact
  BY DEF Accounted, Settled, Compiles
<1>4. \A what : ReportIf(what, FALSE) => errors' = {}
  BY <1>3 DEF ReportIf, Report
<1>5. PICK f, p, n : f = Top.file /\ p = Top.phase /\ n = Top.next
  OBVIOUS
<1>6. ASSUME stack # <<>>
      PROVE  /\ program \in [File -> Source] /\ f \in File /\ n \in Nat \ {0} /\ Src = program[f]
             /\ FrameAt(f, p, n) /\ FrameExact(f, p, n) /\ Closed(f) /\ Unambiguous(f)
  <2>1. /\ program \in [File -> Source] /\ f \in File /\ n \in Nat \ {0} /\ Src = program[f]
        /\ FrameAt(f, p, n) /\ f \in Reachable /\ Len(stack) \in DOMAIN stack
    BY <1>3, <1>5, <1>6, TopFacts
  <2>2. FrameExact(f, p, n)
    BY <1>3, <1>5, <2>1 DEF Exact, Top
  <2> QED BY <2>1, <2>2 DEF Legal
<1>7. CASE Parse
  <2>1. stack # <<>> /\ ReportIf("syntax", ~Src.parses)
    BY <1>7 DEF Parse, Running
  <2>2. Src.parses
    BY <1>6, <2>1 DEF Closed
  <2> QED BY <1>3, <2>1, <2>2 DEF ReportIf, Report
<1>8. CASE BeginRun
  BY <1>3, <1>8 DEF BeginRun
<1>9. CASE FindModule
  <2>1. stack # <<>> /\ p = "imports" /\ n <= Len(Items)
    BY <1>5, <1>9 DEF FindModule, Running
  <2>2. Items = program[f].imports /\ Items \in Seq(Use)
    BY <1>5, <1>6, <2>1, UseFacts DEF Items
  <2>3. n \in DOMAIN program[f].imports
    BY <1>6, <2>1, <2>2
  <2>4. PICK u : u = Items[n]
    OBVIOUS
  <2>5. u \in UsesOf(f)
    BY <1>6, <2>1, <2>2, <2>3, <2>4, UseFacts
  <2>6. Find[u.name] # NoFile
    BY <1>6, <2>1, <2>5 DEF Closed
  <2>7. ReportIf("no_file", Find[u.name] = NoFile)
    BY <1>5, <1>9, <2>4 DEF FindModule
  <2> QED BY <1>3, <2>6, <2>7 DEF ReportIf, Report
<1>10. CASE TakeSymbols
  <2>1. stack # <<>> /\ p = "take"
    BY <1>5, <1>10 DEF TakeSymbols, Running
  <2>2. PICK u : u = program[f].imports[n]
    OBVIOUS
  <2>3. PICK g : g = Find[u.name]
    OBVIOUS
  <2>4. n \in DOMAIN program[f].imports /\ Met(u) /\ program[f].parses
    BY <1>6, <2>1, <2>2 DEF FrameAt
  <2>5. u \in UsesOf(f)
    BY <1>6, <2>1, <2>2, <2>4, UseFacts
  <2>6. /\ domain[g].exists
        /\ \A x : (\E d \in Taken(u, g) : d.sym = x) <=> x \in ProvidedSyms(u)
    BY <1>3, <1>5, <2>1, <2>3, <2>4, <2>5, TakenIsProvided
  <2>7. Missing(u, g) = {}
    <3>1. u.syms \subseteq ProvidedSyms(u)
      BY <1>6, <2>1, <2>5 DEF Closed
    <3> QED BY <2>6, <3>1 DEF Missing
  <2>8. Src.imports[Top.next] = u
    BY <1>5, <1>6, <2>1, <2>2
  <2>9. ReportIf("no_symbol", Missing(u, g) # {})
    BY <1>10, <2>3, <2>6, <2>8 DEF TakeSymbols
  <2> QED BY <1>3, <2>7, <2>9 DEF ReportIf, Report
<1>11. CASE Register
  <2>1. stack # <<>> /\ p \in Scans /\ n <= Len(Items)
    BY <1>5, <1>11 DEF Register
  <2>2. Items = program[f].decls[p] /\ Items \in Seq(Decl)
    BY <1>5, <1>6, <2>1, PlaceFacts DEF Items, Scans
  <2>3. n \in DOMAIN program[f].decls[p]
    BY <1>6, <2>1, <2>2
  <2>4. PICK d : d = Items[n]
    OBVIOUS
  <2>5. /\ <<p, n>> \in Places(f) /\ At(f, <<p, n>>) = d /\ <<p, n>> \notin DeclsDone(f, p, n)
    BY <1>6, <2>1, <2>2, <2>3, <2>4, DeclDone
  <2>6. d \in DeclsOf(f) /\ d \in Decl /\ d.sym \in Sym /\ d.sym \in DeclSyms(f)
    BY <1>6, <2>1, <2>5, PlaceFacts DEF Decl, DeclSyms
  <2>7. ReportIf("clash", Clash(d))
    BY <1>5, <1>11, <2>4 DEF Register
  <2>8. thisFile = f
    BY <1>3, <1>5, <2>1 DEF WritesOwnTables, Scans
  <2>9. f \notin Coded
    <3>1. ~Bare(f)
      BY <2>6 DEF Bare
    <3> QED BY <1>3, <1>5, <2>1, <3>1, NotAgain
  <2>10. \A e \in DeclsDone(f, p, n) : At(f, e).sym # d.sym
    <3>1. ~DeclaresTwice(f)
      BY <1>6, <2>1 DEF Unambiguous
    <3>2. \A e \in DeclsDone(f, p, n) : e \in Places(f) /\ e # <<p, n>>
      BY <2>5 DEF DeclsDone
    <3> QED BY <1>6, <2>1, <2>5, <3>1, <3>2, PlaceFacts
  <2>11. Bringing(f, p, n, d.sym) = {}
    <3>1. d.sym \notin ImportedSyms(f)
      BY <1>6, <2>1, <2>6 DEF Unambiguous, DeclSyms
    <3>2. \A i \in DOMAIN program[f].imports : d.sym \notin ProvidedSyms(program[f].imports[i])
      BY <1>6, <2>1, <3>1, UseFacts DEF ImportedSyms
    <3> QED BY <3>2 DEF Bringing, Providers
  <2>12. Expect(f, p, n, d.sym) = NoFile
    BY <2>9, <2>10, <2>11 DEF Expect
  <2>13. domain[f].global[d.sym] = NoFile
    BY <1>6, <2>1, <2>6, <2>12 DEF FrameExact
  <2>14. ~Clash(d)
    BY <2>8, <2>13 DEF Clash
  <2> QED BY <1>3, <2>7, <2>14 DEF ReportIf, Report
<1>12. CASE EndScan
  BY <1>3, <1>12 DEF EndScan, Report
<1>13. CASE Analyse
  <2>1. /\ stack # <<>> /\ p = "sema"
        /\ ReportIf("undefined", \E x \in Src.needs : domain[f].global[x] = NoFile)
    BY <1>5, <1>13 DEF Analyse, Running
  <2>2. \A x \in program[f].needs : x \in Sym /\ Visible(f, x) # NoFile
    <3>1. program[f].needs \subseteq Sym
      BY <1>6, <2>1 DEF Source
    <3> QED BY <1>6, <2>1, <3>1 DEF Closed
  <2>3. \A x \in Sym : domain[f].global[x] = Visible(f, x)
    BY <1>6, <2>1, ExpectFacts DEF FrameExact
  <2>4. ~\E x \in Src.needs : domain[f].global[x] = NoFile
    BY <1>6, <2>1, <2>2, <2>3
  <2> QED BY <1>3, <2>1, <2>4 DEF ReportIf, Report
<1>14. CASE Generate
  BY <1>3, <1>14 DEF Generate
<1>15. CASE UNCHANGED vars
  BY <1>3, <1>15 DEF vars
<1> QED BY <1>7, <1>8, <1>9, <1>10, <1>11, <1>12, <1>13, <1>14, <1>15 DEF Next

(* What compiles is legal. *)
LEMMA CompiledLegal ==
  ASSUME TypeOK, CallersWait, NoReentry, Books, Exact, Compiled, NEW f \in Reachable
  PROVE  Closed(f) /\ Unambiguous(f)
<1>1. program \in [File -> Source] /\ errors = {} /\ DOMAIN stack = {}
  BY DEF TypeOK, Compiled, Finished
<1>2. Reachable \subseteq Coded
  BY AllBuilt
<1>3. CodedOk(f) /\ DeclSyms(f) \cap ImportedSyms(f) = {}
  BY <1>2 DEF Books, Exact
<1>4. ASSUME NEW g \in Reachable, NEW u \in UsesOf(g)
      PROVE  u.name \in Name /\ status[u.name] = "analysed"
  <2>1. g \in File /\ CodedOk(g)
    BY <1>2, CodedFacts DEF Books
  <2>2. u.name \in Name
    BY <1>1, <2>1, UseFacts
  <2>3. status[u.name] # "not_exist" /\ status[u.name] \in Statuses
    BY <2>1, <2>2 DEF CodedOk, Served, Met, TypeOK
  <2>4. status[u.name] # "analysing"
    BY <1>1, <2>2 DEF NoReentry
  <2> QED BY <2>2, <2>3, <2>4 DEF Statuses
<1>5. ASSUME ~Bare(f), NEW u \in UNION {UsesOf(g) : g \in Reachable},
             NEW v \in UNION {UsesOf(g) : g \in Reachable}, Find[u.name] = f, Find[v.name] = f
      PROVE  u.name = v.name
  <2>1. /\ u.name \in Name /\ status[u.name] = "analysed"
        /\ v.name \in Name /\ status[v.name] = "analysed"
    BY <1>4
  <2> QED BY <1>5, <2>1 DEF Books, OneName
<1>6. ~DeclaresTwice(f) /\ Closed(f)
  BY <1>3 DEF CodedOk
<1> QED BY <1>3, <1>5, <1>6 DEF Unambiguous, DeclSyms

(* Without import circles the compiler accepts exactly the programs in which
   everything that is named exists and nothing is named twice. *)
THEOREM LegalIsAccepted == Spec => []AcceptsAllLegal
<1>1. Init => Named /\ Compiles /\ GeneratesCleanly
  <2> SUFFICES ASSUME Init PROVE Named /\ Compiles /\ GeneratesCleanly
    OBVIOUS
  <2>1. Coded = {} /\ errors = {}
    BY DEF Init, Coded
  <2> QED BY <2>1 DEF Named, Compiles, GeneratesCleanly
<1>2. TypeOK /\ GeneratesCleanly /\ [Next]_vars => GeneratesCleanly'
  BY CleanStep
<1>3. TypeOK /\ CallersWait /\ NoReentry /\ Accounted /\ GeneratesCleanly /\ Named /\ [Next]_vars => Named'
  BY NamedStep
<1>4. /\ TypeOK /\ CallersWait /\ NoReentry /\ WritesOwnTables /\ Accounted /\ GeneratesCleanly /\ Settled
      /\ Named /\ Compiles /\ [Next]_vars
      => Compiles'
  BY CompilesStep
<1>5. TypeOK /\ CallersWait /\ NoReentry /\ Accounted /\ Settled /\ Compiles => AcceptsAllLegal
  <2> SUFFICES ASSUME TypeOK, CallersWait, NoReentry, Accounted, Settled, Compiles, Finished, Acyclic
               PROVE  errors = {} <=> \A f \in Reachable : Closed(f) /\ Unambiguous(f)
    BY DEF AcceptsAllLegal
  <2>1. Legal => errors = {}
    BY DEF Compiles
  <2>2. errors = {} => \A f \in Reachable : Closed(f) /\ Unambiguous(f)
    BY CompiledLegal DEF Accounted, Settled, Compiled
  <2> QED BY <2>1, <2>2 DEF Legal
<1> QED BY <1>1, <1>2, <1>3, <1>4, <1>5, ImportTypesCorrect, NoModuleInItself, TablesOfScannedFile,
           BooksKept, TablesKept, PTL DEF Spec
=============================================================================
