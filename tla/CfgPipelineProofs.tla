------------------------- MODULE CfgPipelineProofs -------------------------
(***************************************************************************)
(* Theorems about the back end for one function, for every function and    *)
(* unboundedly many labels.  What the generator hands over is what the     *)
(* passes need: its invariant (Mir2SirProofs), the labels being distinct   *)
(* and, in a function with a parameter, the alloca that begins the first   *)
(* block, imply the invariants of the passes (SimplifyCfgProofs) at the    *)
(* moment they begin.                                                      *)
(***************************************************************************)
EXTENDS CfgPipeline, Mir2SirProofs

P == INSTANCE SimplifyCfgProofs WITH Funcs <- {}

-----------------------------------------------------------------------------
(***************************************************************************)
(* The generator: labels stay distinct, and the first block keeps the      *)
(* instruction it begins with.                                             *)
(***************************************************************************)
Apart(o) == \A i, j \in DOMAIN o : o[i] = o[j] => i = j

\* f gives blocks to all labels, and the first block begins with an instruction.
Starts(f) ==
  /\ DOMAIN f = Labels
  /\ f[ALLOCA] \in Seq(Stmts) /\ f[ALLOCA] # << >> /\ f[ALLOCA][1].op = "inst"

LEMMA AppendApart ==
  ASSUME NEW o \in Seq(Labels), Apart(o), NEW l \in Labels, l \notin Range(o)
  PROVE  /\ Append(o, l) \in Seq(Labels) /\ Apart(Append(o, l))
         /\ Range(Append(o, l)) = Range(o) \cup {l}
<1> DEFINE p == Append(o, l)
<1>1. /\ p \in Seq(Labels) /\ Len(o) \in Nat /\ DOMAIN o = 1..Len(o)
      /\ DOMAIN p = 1..Len(o) + 1 /\ p[Len(o) + 1] = l
      /\ \A i \in 1..Len(o) : p[i] = o[i]
  OBVIOUS
<1> HIDE DEF p
<1>2. \A i \in DOMAIN p : i \in DOMAIN o \/ i = Len(o) + 1
  BY <1>1
<1>3. \A i \in DOMAIN o : i \in DOMAIN p /\ p[i] = o[i] /\ o[i] # l
  BY <1>1 DEF Range
<1>4. Len(o) + 1 \in DOMAIN p
  BY <1>1
<1>5. Apart(p)
  BY <1>1, <1>2, <1>3 DEF Apart
<1>6. Range(p) = Range(o) \cup {l}
  BY <1>1, <1>2, <1>3, <1>4 DEF Range
<1> QED
  BY <1>1, <1>5, <1>6 DEF p

LEMMA StartsAdd ==
  ASSUME NEW f, Starts(f), NEW b \in Labels, NEW s, b # ALLOCA \/ s \in Stmts
  PROVE  Starts(Add(f, b, s))
<1> DEFINE g == Add(f, b, s)
<1>1. DOMAIN g = Labels
  BY DEF Add, Starts
<1>2. CASE b # ALLOCA
  <2>1. g[ALLOCA] = f[ALLOCA] \/ ALLOCA \notin Labels
    BY <1>2 DEF Add, Starts
  <2>2. ALLOCA \in Labels => g[ALLOCA] = f[ALLOCA]
    BY <2>1
  <2> QED
    BY <1>1, <1>2, <2>2 DEF Starts, Add
<1>3. CASE b = ALLOCA /\ s \in Stmts
  <2>1. g[ALLOCA] = Append(f[ALLOCA], s)
    BY <1>3 DEF Add, Starts
  <2> DEFINE c == f[ALLOCA]
  <2>2. c \in Seq(Stmts) /\ c # << >> /\ c[1].op = "inst"
    BY DEF Starts
  <2> HIDE DEF c
  <2>3. Append(c, s) \in Seq(Stmts) /\ Append(c, s) # << >> /\ Append(c, s)[1] = c[1]
    BY <1>3, <2>2
  <2> QED
    BY <1>1, <2>1, <2>2, <2>3 DEF Starts, c
<1> QED
  BY <1>2, <1>3

LEMMA StartsPatch ==
  ASSUME NEW f, Starts(f), ALLOCA \in Labels, NEW places, NEW k, NEW l \in Labels
  PROVE  Starts(Patch(f, places, k, l))
<1> DEFINE c == f[ALLOCA]
           d == [i \in DOMAIN c |-> IF <<ALLOCA, i>> \in places THEN Redirect(c[i], k, l) ELSE c[i]]
<1>1. DOMAIN Patch(f, places, k, l) = Labels /\ Patch(f, places, k, l)[ALLOCA] = d
  BY DEF Patch, Redirect
<1>2. c \in Seq(Stmts) /\ c # << >> /\ c[1].op = "inst"
  BY DEF Starts
<1> HIDE DEF c
<1>3. Len(c) \in Nat /\ DOMAIN c = 1..Len(c) /\ 1 \in DOMAIN c /\ \A i \in DOMAIN c : c[i] \in Stmts
  BY <1>2
<1>4. \A i \in DOMAIN c : d[i] \in Stmts /\ d[i].op = c[i].op
  BY <1>3, PatchedStmt
<1>5. d \in Seq(Stmts) /\ DOMAIN d = DOMAIN c
  BY <1>3, <1>4
<1> HIDE DEF d
<1>6. d # << >> /\ d[1].op = "inst"
  BY <1>2, <1>3, <1>4, <1>5
<1> QED
  BY <1>1, <1>5, <1>6 DEF Starts

\* Where the visitors work: never in the first block.
LEMMA Elsewhere ==
  ASSUME Unbounded, GenInv, todo # << >>
  PROVE  /\ ALLOCA \in Labels /\ MOVEREG \in Labels /\ MOVEREG # ALLOCA
         /\ block \in Labels /\ block # ALLOCA
         /\ nextLabel \in Nat /\ nextLabel # ALLOCA /\ nextLabel + 1 # ALLOCA
         /\ \A b \in Nat : b \in Labels
<1>1. nextLabel \in Nat /\ ALLOCA < nextLabel
  BY Running DEF GenInv, Numbered
<1>2. block # ALLOCA /\ block \in Labels
  BY Running DEF Emitted
<1> QED
  BY <1>1, <1>2 DEF Unbounded, ALLOCA, MOVEREG

LEMMA StartsCase ==
  ASSUME Unbounded, GenInv, GenInv', Starts(stmts), VisitCase
  PROVE  Starts(stmts')
<1> DEFINE v == Head(todo)
<1>1. todo # << >> /\ v.do = "cases" /\ stmts' = AddCase(stmts, v.at, nextLabel)
  BY DEF VisitCase, Runs, AddCase
<1>2. stmts \in Contents /\ nextLabel \in Labels /\ ALLOCA \in Labels
  BY <1>1, Running, Elsewhere
<1>3. v.at \in Switches(todo)
  <2>1. 1 \in DOMAIN todo /\ todo[1] = v
    BY <1>1 DEF GenInv, Typed
  <2> QED
    BY <1>1, <2>1 DEF Switches
<1>4. v.at \in Places /\ v.at[2] \in DOMAIN stmts[v.at[1]] /\ stmts[v.at[1]][v.at[2]].op = "switch"
  BY <1>1, <1>3, Running DEF Emitted
<1> HIDE DEF v
<1>5. stmts' \in Contents /\ Alike(stmts, stmts')
  BY <1>1, <1>2, <1>4, CaseAdded
<1>6. stmts[ALLOCA] \in Seq(Stmts) /\ stmts[ALLOCA] # << >> /\ stmts[ALLOCA][1].op = "inst"
  BY DEF Starts
<1>7. 1 \in DOMAIN stmts[ALLOCA]
  BY <1>6
<1>8. stmts'[ALLOCA] \in Seq(Stmts) /\ 1 \in DOMAIN stmts'[ALLOCA] /\ stmts'[ALLOCA][1].op = "inst"
  BY <1>2, <1>5, <1>6, <1>7 DEF Alike, Contents
<1> QED
  BY <1>5, <1>8 DEF Starts, Contents

LEMMA StartsAgain ==
  ASSUME Unbounded, GenInv, Starts(stmts), LoopAgain
  PROVE  Starts(stmts')
<1> DEFINE v == Head(todo)
           fresh == IF RetNeedsBlock(block) THEN <<nextLabel>> ELSE << >>
           from == IF fresh = << >> THEN block ELSE nextLabel
           continue == nextLabel + Len(fresh)
           exit == continue + 1
           update == IF v.kind = "for" THEN <<Inst(<<"inst", v.node>>)>> ELSE << >>
           f == Add(stmts, from, Br(continue))
           g == [f EXCEPT ![continue] = @ \o update \o <<Br(v.entry)>>]
           h == Patch(Patch(g, Top(continues), 1, continue), {v.at}, 2, exit)
<1>1. todo # << >> /\ stmts' = Patch(h, Top(breaks), 1, exit)
  BY DEF LoopAgain, Runs
<1>2. /\ from \in Labels /\ from # ALLOCA /\ continue \in Labels /\ continue # ALLOCA
      /\ exit \in Labels /\ ALLOCA \in Labels
  <2>1. continue \in {nextLabel, nextLabel + 1}
    BY <1>1, Elsewhere
  <2> QED
    BY <1>1, <2>1, Elsewhere
<1>3. Starts(f)
  BY <1>2, StartsAdd
<1> HIDE DEF f
<1>4. Starts(g)
  BY <1>2, <1>3 DEF Starts
<1> HIDE DEF g
<1>5. Starts(Patch(g, Top(continues), 1, continue))
  BY <1>2, <1>4, StartsPatch
<1>6. Starts(h)
  BY <1>2, <1>5, StartsPatch
<1> HIDE DEF h
<1> QED
  BY <1>1, <1>2, <1>6, StartsPatch

LEMMA StartsLeave ==
  ASSUME Unbounded, GenInv, Starts(stmts), LeaveArm
  PROVE  Starts(stmts')
<1> DEFINE v == Head(todo)
           fresh == IF RetNeedsBlock(block) THEN <<nextLabel>> ELSE << >>
           from == IF fresh = << >> THEN block ELSE nextLabel
           false == nextLabel + Len(fresh)
           f == Add(stmts, from, Br(UNSET))
           g == IF v.last THEN Add(f, false, Br(v.end)) ELSE f
<1>1. todo # << >> /\ (stmts' = f \/ stmts' = Patch(g, v.cond, 2, false))
  BY DEF LeaveArm, Runs
<1>2. /\ from \in Labels /\ from # ALLOCA /\ false \in Labels /\ false # ALLOCA
      /\ ALLOCA \in Labels
  <2>1. false \in {nextLabel, nextLabel + 1}
    BY <1>1, Elsewhere
  <2> QED
    BY <1>1, <2>1, Elsewhere
<1>3. Starts(f)
  BY <1>2, StartsAdd
<1> HIDE DEF f
<1>4. Starts(g)
  BY <1>2, <1>3, StartsAdd
<1> HIDE DEF g
<1> QED
  BY <1>1, <1>2, <1>3, <1>4, StartsPatch

LEMMA Awake ==
  ASSUME Generate PROVE todo # << >>
BY DEF Generate, VisitExpr, VisitSimple, VisitIf, VisitMatch, VisitWhile, Runs,
       VisitLiteral, VisitSimpleExpr, VisitCallValue, VisitShortCircuit,
       ShortCircuitLeft, ShortCircuitRight, EndBlock, VisitCall, VisitDefine,
       StoreInitialValue, VisitReturn, VisitReturnValue, ReturnValue, VisitBreak,
       VisitContinue, VisitBranch, VisitArm, ArmCond, VisitElse, LeaveArm, EndBranch,
       VisitSwitch, SwitchOn, VisitCase, LeaveCase, VisitDefault, EndSwitch,
       VisitLoop, LoopCond, LoopAgain, Finish

\* A visitor adds to the first block nothing but the slot of a variable, and the
\* branch at the end.
LEMMA StartsStep ==
  ASSUME Unbounded, GenInv, GenInv', Starts(stmts), Generate
  PROVE  Starts(stmts')
<1>1. todo # << >>
  BY Awake
<1>2. /\ ALLOCA \in Labels /\ MOVEREG \in Labels /\ MOVEREG # ALLOCA
      /\ block \in Labels /\ block # ALLOCA
      /\ nextLabel \in Labels /\ nextLabel # ALLOCA
  BY <1>1, Elsewhere
<1>3. ASSUME UNCHANGED stmts PROVE Starts(stmts')
  BY <1>3
<1>4. ASSUME NEW s, stmts' = Add(stmts, block, s) PROVE Starts(stmts')
  BY <1>2, <1>4, StartsAdd
<1>5. CASE VisitExpr
  <2>1. CASE VisitCallValue
    <3> DEFINE f == Add(stmts, block, Inst(<<"inst", Here>>))
               g == Add(f, MOVEREG, Inst(Mem))
    <3>1. stmts' = Add(g, block, Inst(Mem))
      BY <2>1 DEF VisitCallValue
    <3>2. Starts(f)
      BY <1>2, StartsAdd
    <3> HIDE DEF f
    <3>3. Starts(g)
      BY <1>2, <3>2, StartsAdd
    <3> HIDE DEF g
    <3> QED
      BY <1>2, <3>1, <3>3, StartsAdd
  <2>2. CASE VisitShortCircuit
    BY <1>2, <2>2, StartsAdd DEF VisitShortCircuit
  <2>3. CASE ShortCircuitLeft
    <3> DEFINE f == Add(stmts, block, Inst(Mem))
    <3>1. PICK s : stmts' = Add(f, block, s)
      BY <2>3 DEF ShortCircuitLeft
    <3>2. Starts(f)
      BY <1>2, StartsAdd
    <3> HIDE DEF f
    <3> QED
      BY <1>2, <3>1, <3>2, StartsAdd
  <2>4. CASE ShortCircuitRight
    <3> DEFINE v == Head(todo)
               f == Add(stmts, block, Inst(Mem))
               g == Add(f, block, Br(nextLabel))
               h == Patch(g, {v.at}, v.arm, nextLabel)
    <3>1. stmts' = Add(h, nextLabel, Inst(Mem))
      BY <2>4 DEF ShortCircuitRight
    <3>2. Starts(f)
      BY <1>2, StartsAdd
    <3> HIDE DEF f
    <3>3. Starts(g)
      BY <1>2, <3>2, StartsAdd
    <3> HIDE DEF g
    <3>4. Starts(h)
      BY <1>2, <3>3, StartsPatch
    <3> HIDE DEF h
    <3> QED
      BY <1>2, <3>1, <3>4, StartsAdd
  <2> QED
    BY <1>3, <1>4, <1>5, <2>1, <2>2, <2>3, <2>4 DEF VisitExpr, VisitLiteral, VisitSimpleExpr
<1>6. CASE VisitSimple
  <2>1. CASE VisitDefine
    <3>1. Inst(Mem) \in Stmts
      BY DEF Inst, Mem, Stmts, Ops, Values
    <3> QED
      BY <1>2, <2>1, <3>1, StartsAdd DEF VisitDefine
  <2> QED
    BY <1>3, <1>4, <1>6, <2>1
       DEF VisitSimple, EndBlock, VisitCall, StoreInitialValue, VisitReturn,
           VisitReturnValue, ReturnValue, VisitBreak, VisitContinue
<1>7. CASE VisitIf
  <2>1. CASE EndBranch
    <3>1. Head(todo).end \in Labels /\ stmts' = Patch(stmts, Top(jumpOut), 1, Head(todo).end)
      <4>1. Head(todo) \in Visitors /\ Head(todo).do = "arms"
        BY <1>1, <2>1, Running DEF EndBranch, Runs, Runner
      <4> QED
        BY <2>1, <4>1 DEF EndBranch, Visitors
    <3> QED
      BY <1>2, <3>1, StartsPatch
  <2> QED
    BY <1>3, <1>4, <1>7, <2>1, StartsLeave DEF VisitIf, VisitBranch, VisitArm, ArmCond, VisitElse
<1>8. CASE VisitMatch
  <2>1. CASE VisitDefault
    <3> DEFINE v == Head(todo)
               f == Patch(stmts, {v.at}, 1, nextLabel)
    <3>1. stmts' = f \/ stmts' = Patch(f, v.exits, 1, nextLabel)
      BY <2>1 DEF VisitDefault
    <3>2. Starts(f)
      BY <1>2, StartsPatch
    <3> HIDE DEF f
    <3> QED
      BY <1>2, <3>1, <3>2, StartsPatch
  <2>2. CASE EndSwitch
    BY <1>2, <2>2, StartsPatch DEF EndSwitch
  <2> QED
    BY <1>3, <1>4, <1>8, <2>1, <2>2, StartsCase DEF VisitMatch, VisitSwitch, SwitchOn, LeaveCase
<1>9. CASE VisitWhile
  BY <1>4, <1>9, StartsAgain DEF VisitWhile, VisitLoop, LoopCond
<1>10. CASE Finish
  <2>1. Br(MOVEREG) \in Stmts
    BY <1>2 DEF Br, Mem, Stmts, Ops, Values
  <2>2. Starts(Add(stmts, ALLOCA, Br(MOVEREG)))
    BY <1>2, <2>1, StartsAdd
  <2> QED
    BY <1>2, <1>10, <2>2, StartsAdd DEF Finish
<1> QED
  BY <1>5, <1>6, <1>7, <1>8, <1>9, <1>10 DEF Generate

\* The blocks that a visitor adds get labels no block has.
LEMMA ApartStep ==
  ASSUME Unbounded, GenInv, Apart(order), Generate
  PROVE  Apart(order')
<1>1. ASSUME UNCHANGED order PROVE Apart(order')
  BY <1>1
<1>2. ASSUME todo # << >>
      PROVE  /\ order \in Seq(Labels) /\ nextLabel \in Nat
             /\ \A l \in Range(order) : l < nextLabel
             /\ \A l \in Range(order) : l # nextLabel
             /\ \A b \in Nat : b \in Labels
  <2>1. \A l \in Range(order) : l < nextLabel
    BY DEF GenInv, Numbered, Live
  <2> QED
    BY <1>2, <2>1, Running DEF Unbounded, Live
<1>3. ASSUME todo # << >>, order' = Append(order, nextLabel) PROVE Apart(order')
  BY <1>2, <1>3, AppendApart
<1>4. ASSUME todo # << >>, NEW fresh, fresh \in {<< >>, <<nextLabel>>}
      PROVE  LET n == nextLabel + Len(fresh) IN
             /\ order \o fresh \in Seq(Labels) /\ Apart(order \o fresh) /\ n \in Nat
             /\ \A l \in Range(order \o fresh) : l < n
  <2>1. CASE fresh = << >>
    <3>1. order \o << >> = order /\ nextLabel + Len(<< >>) = nextLabel
      BY <1>2, <1>4
    <3> QED
      BY <1>2, <1>4, <2>1, <3>1
  <2>2. CASE fresh = <<nextLabel>>
    <3>1. order \o fresh = Append(order, nextLabel) /\ Len(fresh) = 1
      BY <1>2, <1>4, <2>2
    <3>2. /\ Append(order, nextLabel) \in Seq(Labels) /\ Apart(Append(order, nextLabel))
          /\ Range(Append(order, nextLabel)) = Range(order) \cup {nextLabel}
      BY <1>2, <1>4, AppendApart
    <3>3. \A l \in Range(order) \cup {nextLabel} : l < nextLabel + 1
      <4> SUFFICES ASSUME NEW l \in Range(order) \cup {nextLabel} PROVE l < nextLabel + 1
        OBVIOUS
      <4>1. l \in Nat /\ (l < nextLabel \/ l = nextLabel)
        BY <1>2, <1>4, Running DEF Unbounded, Live
      <4> QED
        BY <1>2, <1>4, <4>1
    <3> QED
      BY <1>2, <1>4, <3>1, <3>2, <3>3
  <2> QED
    BY <1>4, <2>1, <2>2
<1>5. ASSUME NEW o \in Seq(Labels), Apart(o), NEW n \in Nat, \A l \in Range(o) : l < n
      PROVE  /\ o \o <<n>> = Append(o, n) /\ Append(o, n) \in Seq(Labels) /\ Apart(Append(o, n))
             /\ \A l \in Range(Append(o, n)) : l < n + 1
  <2>1. n \in Labels /\ n \notin Range(o)
    BY <1>5 DEF Unbounded
  <2>2. /\ Append(o, n) \in Seq(Labels) /\ Apart(Append(o, n))
        /\ Range(Append(o, n)) = Range(o) \cup {n}
    BY <1>5, <2>1, AppendApart
  <2>3. \A l \in Range(o) \cup {n} : l < n + 1
    <3> SUFFICES ASSUME NEW l \in Range(o) \cup {n} PROVE l < n + 1
      OBVIOUS
    <3>1. l \in Nat /\ (l < n \/ l = n)
      BY <1>5 DEF Range, Unbounded
    <3> QED
      BY <3>1
  <2>4. o \o <<n>> = Append(o, n)
    OBVIOUS
  <2> QED
    BY <2>2, <2>3, <2>4
<1>6. CASE VisitExpr
  BY <1>1, <1>3, <1>6
     DEF VisitExpr, VisitLiteral, VisitSimpleExpr, VisitCallValue, VisitShortCircuit,
         ShortCircuitLeft, ShortCircuitRight, NewBlock, Runs
<1>7. CASE VisitSimple
  BY <1>1, <1>3, <1>7
     DEF VisitSimple, EndBlock, VisitCall, VisitDefine, StoreInitialValue, VisitReturn,
         VisitReturnValue, ReturnValue, VisitBreak, VisitContinue, NewBlock, Runs
<1>8. CASE VisitIf
  <2>1. CASE EndBranch
    <3>1. todo # << >> /\ Head(todo) \in Visitors /\ Head(todo).do = "arms"
          /\ order' = Append(order, Head(todo).end)
      BY <2>1, Running DEF EndBranch, Runs, Runner
    <3>2. Head(todo).end \in Labels
      BY <3>1 DEF Visitors
    <3>3. Head(todo).end \in Ends(todo)
      <4>1. todo \in Seq(Visitors)
        BY DEF GenInv, Typed
      <4>2. 1 \in DOMAIN todo /\ todo[1] = Head(todo)
        BY <3>1, <4>1
      <4> QED
        BY <3>1, <4>2 DEF Ends
    <3>4. Head(todo).end \notin Range(order)
      BY <3>3 DEF GenInv, Numbered, Live
    <3> QED
      BY <1>2, <3>1, <3>2, <3>4, AppendApart
  <2>2. CASE LeaveArm
    <3> DEFINE fresh == IF RetNeedsBlock(block) THEN <<nextLabel>> ELSE << >>
               o == order \o fresh
               n == nextLabel + Len(fresh)
    <3>1. todo # << >> /\ fresh \in {<< >>, <<nextLabel>>}
      BY <2>2 DEF LeaveArm, Runs
    <3>2. order' = o \/ order' = o \o <<n>>
      BY <2>2, <1>2, <3>1 DEF LeaveArm
    <3>3. o \in Seq(Labels) /\ Apart(o) /\ n \in Nat /\ \A l \in Range(o) : l < n
      BY <1>4, <3>1
    <3> HIDE DEF o, n, fresh
    <3> QED
      BY <1>5, <3>2, <3>3
  <2> QED
    BY <1>1, <1>3, <1>8, <2>1, <2>2
       DEF VisitIf, VisitBranch, VisitArm, ArmCond, VisitElse, NewBlock, Runs
<1>9. CASE VisitMatch
  BY <1>1, <1>3, <1>9
     DEF VisitMatch, VisitSwitch, SwitchOn, VisitCase, LeaveCase, VisitDefault, EndSwitch,
         NewBlock, Runs
<1>10. CASE VisitWhile
  <2>1. CASE LoopAgain
    <3> DEFINE fresh == IF RetNeedsBlock(block) THEN <<nextLabel>> ELSE << >>
               o == order \o fresh
               n == nextLabel + Len(fresh)
    <3>1. todo # << >> /\ fresh \in {<< >>, <<nextLabel>>}
      BY <2>1 DEF LoopAgain, Runs
    <3>2. order' = o \o <<n, n + 1>>
      BY <2>1, <1>2, <3>1 DEF LoopAgain
    <3>3. o \in Seq(Labels) /\ Apart(o) /\ n \in Nat /\ \A l \in Range(o) : l < n
      BY <1>4, <3>1
    <3> HIDE DEF o, n, fresh
    <3>4. order' = Append(Append(o, n), n + 1)
      <4>1. n \in Labels /\ n + 1 \in Labels
        BY <3>3 DEF Unbounded
      <4> QED
        BY <3>2, <3>3, <4>1
    <3> DEFINE p == Append(o, n)
    <3>5. p \in Seq(Labels) /\ Apart(p) /\ \A l \in Range(p) : l < n + 1
      BY <1>5, <3>3
    <3> HIDE DEF p
    <3>6. n + 1 \in Nat
      BY <3>3
    <3>7. Apart(Append(p, n + 1))
      BY <1>5, <3>5, <3>6
    <3> QED
      BY <3>4, <3>7 DEF p
  <2> QED
    BY <1>1, <1>3, <1>10, <2>1 DEF VisitWhile, VisitLoop, LoopCond, NewBlock, Runs
<1>11. CASE Finish
  BY <1>1, <1>11 DEF Finish
<1> QED
  BY <1>6, <1>7, <1>8, <1>9, <1>10, <1>11 DEF Generate

-----------------------------------------------------------------------------
(***************************************************************************)
(* The passes of this module are those the proofs of SimplifyCfgProofs     *)
(* are about.                                                              *)
(***************************************************************************)
LEMMA SameFold == S!ReplaceConstBr => P!ReplaceConstBr
BY DEF S!ReplaceConstBr, P!ReplaceConstBr, S!Folded, P!Folded, S!Live, P!Live, S!Lit, P!Lit,
       S!Br, P!Br, S!Mem, P!Mem, S!Range, P!Range

LEMMA SameFlow == S!ControlFlow = P!ControlFlow
BY DEF S!ControlFlow, P!ControlFlow, S!Live, P!Live, S!BlockEdges, P!BlockEdges,
       S!StmtEdges, P!StmtEdges, S!Range, P!Range

LEMMA SameCycle == S!HasEmptyCycle = P!HasEmptyCycle
BY DEF S!HasEmptyCycle, P!HasEmptyCycle, S!OnlyJumps, P!OnlyJumps, S!Live, P!Live,
       S!Range, P!Range

LEMMA SameStart == S!StartRewriting => P!StartRewriting
BY SameFlow, SameCycle DEF S!StartRewriting, P!StartRewriting

LEMMA SameVisit ==
  /\ S!This = P!This /\ S!Freed = P!Freed
  /\ S!Iterated <=> P!Iterated
  /\ \A p : S!Visiting(p) <=> P!Visiting(p)
  /\ S!Keep <=> P!Keep
  /\ S!Drop <=> P!Drop
  /\ S!Rewind <=> P!Rewind
BY DEF S!This, P!This, S!Freed, P!Freed, S!Visiting, P!Visiting, S!Keep, P!Keep, S!Drop, P!Drop,
       S!Iterated, P!Iterated, S!Rewind, P!Rewind, S!Range, P!Range

LEMMA SameEdges ==
  \A b : /\ S!Preds(cfg, b) = P!Preds(cfg, b) /\ S!Succs(cfg, b) = P!Succs(cfg, b)
         /\ S!PredBlocks(b) = P!PredBlocks(b) /\ S!SuccBlocks(b) = P!SuccBlocks(b)
         /\ S!Succ(b) = P!Succ(b)
BY DEF S!Preds, P!Preds, S!Succs, P!Succs, S!PredBlocks, P!PredBlocks,
       S!SuccBlocks, P!SuccBlocks, S!Succ, P!Succ

LEMMA SameNoPred == S!RemoveNoPred => P!RemoveNoPred
<1>1. S!Useless(S!This) <=> P!Useless(P!This)
  BY SameVisit, SameEdges DEF S!Useless, P!Useless
<1> QED
  BY <1>1, SameVisit DEF S!RemoveNoPred, P!RemoveNoPred

LEMMA SameMergeBr == S!MergeBr => P!MergeBr
<1>1. \A b : /\ S!Forwards(b) <=> P!Forwards(b)
             /\ S!Adjustable(b) <=> P!Adjustable(b)
             /\ S!Lock(b) = P!Lock(b)
  BY SameEdges DEF S!Forwards, P!Forwards, S!Adjustable, P!Adjustable, S!Back, P!Back,
                   S!HasOne, P!HasOne, S!Lock, P!Lock, S!LockedBy, P!LockedBy
<1>2. \A b : S!Adjusted(b) = P!Adjusted(b)
  BY SameEdges DEF S!Adjusted, P!Adjusted, S!Retarget, P!Retarget
<1> QED
  BY <1>1, <1>2, SameVisit, SameEdges DEF S!MergeBr, P!MergeBr

LEMMA SameMergePred == S!MergePred => P!MergePred
<1>1. \A b : S!Follows(b) <=> P!Follows(b)
  BY SameEdges DEF S!Follows, P!Follows, S!HasOne, P!HasOne
<1>2. \A p, b : S!Joined(p, b) = P!Joined(p, b)
  BY DEF S!Joined, P!Joined
<1> QED
  BY <1>1, <1>2, SameVisit, SameEdges DEF S!MergePred, P!MergePred

LEMMA SameAgain == S!Again => P!Again
<1>1. (S!ControlFlow = P!ControlFlow)'
  BY SameFlow, PTL
<1> QED
  BY <1>1, SameVisit DEF S!Again, P!Again, S!Rewritings, P!Rewritings

LEMMA SameAdvance == S!Advance => P!Advance
BY SameFlow, SameVisit
   DEF S!Advance, P!Advance, S!Rewritings, P!Rewritings, S!NextPass, P!NextPass,
       S!ProgressAfter, P!ProgressAfter

LEMMA SamePasses == S!Simplify => P!Next
BY SameFold, SameStart, SameNoPred, SameMergeBr, SameMergePred, SameAgain, SameAdvance
   DEF S!Simplify, P!Simplify, P!Next, S!Begin, P!Begin, S!BeginBootstrap, P!BeginBootstrap

LEMMA SameProperties ==
  /\ P!NeverPanics => S!NeverPanics
  /\ P!MergeBrReadsLive => S!MergeBrReadsLive
  /\ P!MergePredWritesLive => S!MergePredWritesLive
  /\ P!BranchesLeadUnlessEmptyCycle => S!BranchesLeadUnlessEmptyCycle
<1>1. P!NeverPanics => S!NeverPanics
  BY DEF P!NeverPanics, S!NeverPanics
<1>2. \A b : /\ S!Forwards(b) <=> P!Forwards(b)
             /\ S!Follows(b) <=> P!Follows(b)
             /\ S!LockedBy(b) = P!LockedBy(b)
  BY SameEdges DEF S!Forwards, P!Forwards, S!Follows, P!Follows, S!HasOne, P!HasOne,
                   S!LockedBy, P!LockedBy
<1>3. P!MergeBrReadsLive => S!MergeBrReadsLive
  BY <1>2, SameVisit DEF P!MergeBrReadsLive, S!MergeBrReadsLive
<1>4. P!MergePredWritesLive => S!MergePredWritesLive
  BY <1>2, SameVisit, SameEdges DEF P!MergePredWritesLive, S!MergePredWritesLive
<1>5. P!BranchesLeadUnlessEmptyCycle => S!BranchesLeadUnlessEmptyCycle
  BY DEF P!BranchesLeadUnlessEmptyCycle, S!BranchesLeadUnlessEmptyCycle, P!BranchesLead,
         S!BranchesLead, P!Rewritings, S!Rewritings, P!AtRest, S!AtRest, P!Live, S!Live,
         P!Range, S!Range, P!TargetsLive, S!TargetsLive
<1> QED
  BY <1>1, <1>3, <1>4, <1>5

-----------------------------------------------------------------------------
(***************************************************************************)
(* What the generator hands over to the passes.                            *)
(***************************************************************************)
\* What SimplifyCfgProofs assumes holds here.
LEMMA Assumed == P!LabelsAssumption /\ P!FuncsAssumption /\ P!FuncsWellFormed
BY LabelsAssumption DEF P!LabelsAssumption, P!FuncsAssumption, P!FuncsWellFormed

LEMMA SameFunc ==
  /\ P!Live = Live /\ P!Entry = Entry /\ P!Stmts = Stmts
  /\ P!FuncTypeOK <=> FuncTypeOK
  /\ P!LabelsDistinct <=> Apart(order)
  /\ P!ControlFlow = ControlFlow
  /\ \A b : P!BlockEdges(b) = BlockEdges(b)
  /\ \A b : P!Preds(ControlFlow, b) = Preds(ControlFlow, b)
<1>1. P!Stmts = Stmts
  BY DEF P!Stmts, Stmts, P!Ops, Ops, P!Values, Values
<1>2. P!Live = Live /\ P!Entry = Entry
  BY DEF P!Live, Live, P!Entry, Entry, P!Range, Range
<1>3. \A b : P!BlockEdges(b) = BlockEdges(b)
  BY DEF P!BlockEdges, BlockEdges, P!StmtEdges, StmtEdges
<1>4. P!ControlFlow = ControlFlow
  BY <1>2, <1>3 DEF P!ControlFlow, ControlFlow
<1>5. \A b : P!Preds(ControlFlow, b) = Preds(ControlFlow, b)
  BY DEF P!Preds, Preds
<1>6. P!FuncTypeOK <=> FuncTypeOK
  BY <1>1 DEF P!FuncTypeOK, FuncTypeOK
<1>7. P!LabelsDistinct <=> Apart(order)
  BY DEF P!LabelsDistinct, Apart
<1> QED
  BY <1>1, <1>2, <1>3, <1>4, <1>5, <1>6, <1>7

\* While the generator runs; once the passes run.
Generating ==
  /\ S!Idle /\ GenInv /\ Apart(order)
  /\ Params > 0 => Starts(stmts)

Simplifying ==
  /\ todo = << >>
  /\ P!TypeOK /\ P!LockInv /\ P!ShapeInv /\ P!LeadInv /\ P!NeverPanics
  /\ Params > 0 => P!EntryInv

PipeInv == Generating \/ Simplifying

LEMMA HandOver ==
  ASSUME Unbounded, Generating, todo = << >>
  PROVE  Simplifying
<1>1. /\ pass = "idle" /\ cfg = {} /\ idx = 1 /\ kept = << >> /\ locked = {}
      /\ deleted = FALSE /\ progress = FALSE /\ emptyCycle = FALSE /\ bootstrap = FALSE
  BY DEF Generating, S!Idle
<1>2. /\ FuncTypeOK /\ order \in Seq(Labels) /\ order # << >> /\ stmts \in [Labels -> Seq(Stmts)]
      /\ ALLOCA \in Live /\ ALLOCA \in Labels /\ Entry = ALLOCA /\ Live \subseteq Labels
  BY DEF Generating, GenInv, Typed, FuncTypeOK, Live, Range, Entry
<1>3. /\ \A b \in Live : Terminated(b) /\ TargetsLive(b)
      /\ Preds(ControlFlow, Entry) = {}
  BY WellFormed DEF Generating, FinishedWellFormed, Generated
<1>4. P!TypeOK
  <2>1. idx \in 1..Len(order) + 1 /\ kept \in Seq(Labels)
    BY <1>1, <1>2
  <2> QED
    BY <1>1, <1>2, <2>1, SameFunc DEF P!TypeOK, P!Passes
<1>5. P!Freed = {} /\ P!Alive = Live
  BY <1>1, SameFunc DEF P!Freed, P!Alive
<1>6. P!LockInv
  <2>1. DOMAIN kept = {}
    BY <1>1
  <2>2. P!KeptInOrder
    BY <2>1 DEF P!KeptInOrder, P!Range
  <2> QED
    BY <1>1, <2>2, SameFunc
       DEF P!LockInv, P!MergeBrLocked, P!MergePredLocked, Generating
<1>7. P!BranchesLast
  <2> SUFFICES ASSUME NEW b \in Live, NEW i \in DOMAIN stmts[b], stmts[b][i].to # << >>
               PROVE  i = Len(stmts[b])
    BY SameFunc DEF P!BranchesLast, P!EndsOnly
  <2>1. stmts[b][i] \in Stmts
    BY <1>2
  <2>2. stmts[b][i].op \in Terminators
    BY <2>1 DEF Stmts, Ops, Terminators
  <2> QED
    BY <1>3, <2>2 DEF Terminated, TerminatorsLast
<1>8. P!LeadsToAlive
  BY <1>3, <1>5 DEF P!LeadsToAlive, P!Leads, TargetsLive, P!Range, Range
<1>9. P!ShapeInv /\ P!LeadInv
  BY <1>1, <1>5, <1>7, <1>8
     DEF P!ShapeInv, P!LeadInv, P!BranchesAdjustable, P!NotBegun, P!DeletedRight, P!Rewritings
<1>10. P!NeverPanics
  BY <1>1 DEF P!NeverPanics
<1>11. ASSUME Params > 0 PROVE P!EntryInv
  <2>1. \A b \in Live : ~P!Leads(stmts[b], Entry)
    <3> SUFFICES ASSUME NEW b \in Live, P!Leads(stmts[b], Entry) PROVE FALSE
      OBVIOUS
    <3>1. PICK e \in BlockEdges(b) : e.from = b /\ e.to = Entry
      BY <1>2, <1>4, SameFunc, Assumed, P!EdgesAre
    <3>2. e \in ControlFlow
      BY <1>2, <3>1 DEF ControlFlow
    <3> QED
      BY <1>3, <3>1, <3>2 DEF Preds
  <2>2. stmts[Entry] # << >> /\ stmts[Entry][1].op = "inst"
    BY <1>2, <1>11 DEF Generating, Starts
  <2> QED
    BY <1>1, <1>2, <1>5, <2>1, <2>2, SameFunc DEF P!EntryInv, P!Rewritings
<1> QED
  BY <1>4, <1>6, <1>9, <1>10, <1>11 DEF Simplifying

LEMMA PipeInit ==
  ASSUME Unbounded, Init
  PROVE  PipeInv
<1>1. GenInv
  BY InitInv DEF Init
<1>2. Apart(order)
  <2>1. order = <<0, 1, 2>>
    BY DEF Init, GenInit, ALLOCA, MOVEREG, ENTRY
  <2> QED
    BY <2>1 DEF Apart
<1>3. ASSUME Params > 0 PROVE Starts(stmts)
  <2>1. Params \in Nat /\ Inst(Mem) \in Stmts /\ ALLOCA \in Labels
    BY GenAssumption DEF Inst, Mem, Stmts, Ops, Values, Unbounded, ALLOCA
  <2> DEFINE slots == [p \in 1..Params |-> Inst(Mem)]
  <2>2. DOMAIN stmts = Labels /\ stmts[ALLOCA] = slots
    BY <2>1 DEF Init, GenInit
  <2>3. slots \in Seq(Stmts) /\ 1 \in DOMAIN slots /\ slots[1] = Inst(Mem)
    BY <1>3, <2>1
  <2>4. slots # << >>
    BY <2>3
  <2> HIDE DEF slots
  <2> QED
    BY <2>2, <2>3, <2>4 DEF Starts, Inst
<1> QED
  BY <1>1, <1>2, <1>3 DEF PipeInv, Generating, Init

LEMMA PassesInv ==
  ASSUME Simplifying, [P!Next]_(P!vars), UNCHANGED todo
  PROVE  Simplifying'
<1>2. P!TypeOK /\ P!LockInv /\ P!ShapeInv /\ P!LeadInv /\ P!NeverPanics
  BY DEF Simplifying
<1>3. P!TypeOK'
  BY <1>2, Assumed, P!TypeStep
<1>4. P!LockInv'
  BY <1>2, Assumed, P!LockStep
<1>5. P!ShapeInv' /\ P!LeadInv'
  BY <1>2, Assumed, P!LeadStep
<1>6. P!NeverPanics'
  BY <1>2, Assumed, P!PanicStep
<1>7. Params > 0 => P!EntryInv'
  BY <1>2, Assumed, P!EntryStep DEF Simplifying
<1>8. todo' = << >>
  BY DEF Simplifying
<1> QED
  BY <1>3, <1>4, <1>5, <1>6, <1>7, <1>8 DEF Simplifying

LEMMA PassesStep ==
  ASSUME Simplifying, S!Simplify, UNCHANGED todo
  PROVE  Simplifying'
BY SamePasses, PassesInv

LEMMA PipeStep ==
  ASSUME Unbounded, PipeInv, [Next]_pipeVars
  PROVE  PipeInv'
<1>1. CASE GenerateFunc
  <2>1. todo # << >>
    BY <1>1, Awake DEF GenerateFunc
  <2>2. Generating
    BY <2>1 DEF PipeInv, Simplifying
  <2>3. GenInv'
    BY <1>1, <2>2, GenStep DEF GenerateFunc, GenNext, Generating
  <2>4. Apart(order)'
    BY <1>1, <2>2, ApartStep DEF GenerateFunc, Generating, Apart
  <2>5. Params > 0 => Starts(stmts)'
    BY <1>1, <2>2, <2>3, StartsStep DEF GenerateFunc, Generating, Starts
  <2>6. S!Idle'
    BY <1>1, <2>2 DEF GenerateFunc, Generating, passVars, S!Idle
  <2> QED
    BY <2>3, <2>4, <2>5, <2>6 DEF PipeInv, Generating
<1>2. CASE RunPasses
  <2>1. Simplifying
    BY <1>2, HandOver DEF RunPasses, Generated, PipeInv
  <2> QED
    BY <1>2, <2>1, PassesStep DEF RunPasses, PipeInv
<1>3. CASE UNCHANGED pipeVars
  <2>1. UNCHANGED genVars /\ UNCHANGED passVars
    BY <1>3 DEF pipeVars
  <2>2. CASE Generating
    <3>1. GenInv'
      BY <2>1, <2>2, GenStep DEF Generating
    <3> QED
      BY <2>1, <2>2, <3>1
         DEF PipeInv, Generating, genVars, passVars, Apart, Starts, S!Idle
  <2>3. CASE Simplifying
    <3>1. [P!Next]_(P!vars) /\ todo' = todo
      BY <2>1 DEF P!vars, genVars, passVars
    <3> QED
      BY <2>3, <3>1, PassesInv DEF PipeInv
  <2> QED
    BY <2>2, <2>3 DEF PipeInv
<1> QED
  BY <1>1, <1>2, <1>3 DEF Next, Stop

LEMMA PipeAlways ==
  ASSUME Unbounded
  PROVE  Spec => []PipeInv
<1>1. Init => PipeInv
  BY PipeInit
<1>2. PipeInv /\ [Next]_pipeVars => PipeInv'
  BY PipeStep
<1> QED
  BY <1>1, <1>2, PTL DEF Spec

-----------------------------------------------------------------------------
\* The entry of a compiled function stays an entry: in a function with a parameter
\* no pass makes a block to which branches lead the function's first, although
\* they remove the blocks in front of it when those only jump.
THEOREM EntryStaysEntry ==
  ASSUME Labels = Nat, Params > 0
  PROVE  Spec => []EntryHasNoPreds
<1>1. PipeInv => EntryHasNoPreds
  <2> SUFFICES ASSUME PipeInv PROVE S!EntryHasNoPreds
    BY DEF EntryHasNoPreds
  <2>1. CASE Generating
    BY <2>1 DEF Generating, S!Idle, S!EntryHasNoPreds
  <2>2. CASE Simplifying
    <3>1. P!EntryHasNoPreds
      BY <2>2, Assumed, P!EntryEnd DEF Simplifying
    <3> QED
      BY <3>1, SameFlow
         DEF S!EntryHasNoPreds, P!EntryHasNoPreds, S!Preds, P!Preds, S!Entry, P!Entry
  <2> QED
    BY <2>1, <2>2 DEF PipeInv
<1>2. Spec => []PipeInv
  BY PipeAlways DEF Unbounded
<1> QED
  BY <1>1, <1>2, PTL

\* Whatever function the generator makes, of any size and nesting: adjust_label
\* follows only pointers to blocks that are there and never gives up on the last
\* statement of a predecessor, no block is merged into one that is gone, and no
\* branch is left to a block that is gone unless the source has a loop that does
\* nothing.  Nothing is assumed of the function: what SimplifyCfg assumes of Funcs
\* is what Mir2Sir makes.
THEOREM PassesSafe ==
  ASSUME Labels = Nat
  PROVE  Spec => [](/\ S!NeverPanics
                    /\ S!MergeBrReadsLive
                    /\ S!MergePredWritesLive
                    /\ S!BranchesLeadUnlessEmptyCycle)
<1>1. PipeInv => /\ S!NeverPanics /\ S!MergeBrReadsLive /\ S!MergePredWritesLive
                 /\ S!BranchesLeadUnlessEmptyCycle
  <2>1. ASSUME Generating PROVE pass = "idle"
    BY <2>1 DEF Generating, S!Idle
  <2>2. CASE Generating
    BY <2>1, <2>2
       DEF S!NeverPanics, S!MergeBrReadsLive, S!MergePredWritesLive, S!Visiting,
           S!BranchesLeadUnlessEmptyCycle, S!BranchesLead, S!Rewritings
  <2>3. CASE Simplifying
    <3>1. P!TypeOK /\ P!LockInv /\ P!LeadInv /\ P!NeverPanics
      BY <2>3 DEF Simplifying
    <3>2. P!MergeBrReadsLive
      BY <3>1, Assumed, P!BrReadsLive
    <3>3. P!MergePredWritesLive
      BY <3>1, Assumed, P!PredWritesLive
    <3>4. P!BranchesLeadUnlessEmptyCycle
      BY <3>1, Assumed, P!RestLeads
    <3> QED
      BY <3>1, <3>2, <3>3, <3>4, SameProperties
  <2> QED
    BY <2>2, <2>3 DEF PipeInv
<1>2. Spec => []PipeInv
  BY PipeAlways DEF Unbounded
<1> QED
  BY <1>1, <1>2, PTL
=============================================================================
