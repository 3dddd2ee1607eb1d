------------------------- MODULE SimplifyCfgProofs -------------------------
(***************************************************************************)
(* Proofs about SimplifyCfg, for functions of any size and the passes of   *)
(* both compilers.                                                         *)
(*                                                                         *)
(* The graph cfg is not updated while an iteration frees blocks, so what   *)
(* keeps the pointers in it from being followed to a freed block is only   *)
(* the set of locked labels.  LockInv says what that set holds: for each   *)
(* block the running iteration has freed, the blocks cfg still relates to  *)
(* it.  ShapeInv and LeadInv say what of cfg is still true of the          *)
(* statements, and that they lead to blocks that have not been freed.      *)
(***************************************************************************)
EXTENDS SimplifyCfg, TLAPS, SequenceTheorems

-----------------------------------------------------------------------------
(***************************************************************************)
(* Lemmas about statements and edges.                                      *)
(***************************************************************************)
\* What replace_const_br makes of a statement is a statement.
LEMMA FoldedType ==
  ASSUME NEW s \in Stmts PROVE Folded(s) \in Stmts
<1>1. CASE s.op = "br_cond" /\ s.val \in {Lit(0), Lit(1)}
  <2>1. s.to \in Seq(Labels) /\ Len(s.to) = 2
    BY <1>1 DEF Stmts
  <2>2. s.to[1] \in Labels /\ s.to[2] \in Labels
    BY <2>1
  <2>3. \A l \in Labels : Br(l) \in Stmts
    BY DEF Br, Stmts, Ops, Values, Mem
  <2>4. Lit(0) # Lit(1)
    BY DEF Lit
  <2> QED
    BY <1>1, <2>2, <2>3, <2>4 DEF Folded
<1>2. CASE ~(s.op = "br_cond" /\ s.val \in {Lit(0), Lit(1)})
  BY <1>2 DEF Folded
<1> QED
  BY <1>1, <1>2

\* The edges of a function run between its blocks.
LEMMA ControlFlowType ==
  FuncTypeOK =>
    ControlFlow \subseteq [from: Labels, at: Nat, arm: Nat, to: Labels]
<1> SUFFICES ASSUME FuncTypeOK, NEW e \in ControlFlow
             PROVE  e \in [from: Labels, at: Nat, arm: Nat, to: Labels]
  OBVIOUS
<1>1. Live \subseteq Labels
  BY DEF FuncTypeOK, Live, Range
<1>2. PICK b \in Live : e \in BlockEdges(b)
  BY DEF ControlFlow
<1>3. PICK i \in DOMAIN stmts[b] : e \in StmtEdges(b, i)
  BY <1>2 DEF BlockEdges
<1>4. stmts[b] \in Seq(Stmts)
  BY <1>1 DEF FuncTypeOK
<1>5. i \in Nat /\ stmts[b][i] \in Stmts
  BY <1>3, <1>4
<1>6. stmts[b][i].to \in Seq(Labels)
  BY <1>5 DEF Stmts
<1>7. PICK k \in DOMAIN stmts[b][i].to :
        e = [from |-> b, at |-> i, arm |-> k, to |-> stmts[b][i].to[k]]
  BY <1>3 DEF StmtEdges
<1>8. k \in Nat /\ stmts[b][i].to[k] \in Labels
  BY <1>6, <1>7
<1> QED
  BY <1>1, <1>5, <1>7, <1>8

\* A block that forwards has a successor.
LEMMA SuccType ==
  ASSUME NEW b, HasOne(Succs(cfg, b)),
         cfg \subseteq [from: Labels, at: Nat, arm: Nat, to: Labels]
  PROVE  Succ(b) \in Labels
BY DEF HasOne, Succs, Succ

\* The same for the graph an iteration leaves behind.
LEMMA ControlFlowTypeNext ==
  (FuncTypeOK =>
    ControlFlow \subseteq [from: Labels, at: Nat, arm: Nat, to: Labels])'
BY ControlFlowType, PTL

\* Redirecting a branch changes neither its kind nor the number of its targets.
LEMMA RetargetType ==
  ASSUME NEW b, Succ(b) \in Labels, NEW s \in Stmts
  PROVE  Retarget(s, b) \in Stmts
<1> DEFINE to == [k \in DOMAIN s.to |-> IF s.to[k] = b THEN Succ(b) ELSE s.to[k]]
<1>1. s.to \in Seq(Labels) /\ Len(s.to) \in Nat /\ DOMAIN s.to = 1..Len(s.to)
  BY DEF Stmts
<1>2. to \in Seq(Labels) /\ Len(to) = Len(s.to)
  BY <1>1
<1>3. s.to = <<>> => to = <<>>
  BY <1>2
<1> QED
  BY <1>2, <1>3 DEF Retarget, Stmts

\* Freeing a block.
LEMMA FreeType ==
  ASSUME NEW f \in [Labels -> Seq(Stmts)], NEW b \in Labels
  PROVE  [f EXCEPT ![b] = <<>>] \in [Labels -> Seq(Stmts)]
OBVIOUS

\* Two statement lists joined.
LEMMA JoinedType ==
  ASSUME NEW p, NEW b, stmts[p] \in Seq(Stmts), stmts[b] \in Seq(Stmts)
  PROVE  Joined(p, b) \in Seq(Stmts)
<1>1. Len(stmts[p]) \in Nat
  OBVIOUS
<1>2. SubSeq(stmts[p], 1, Len(stmts[p]) - 1) \in Seq(Stmts)
  BY <1>1
<1> QED
  BY <1>2 DEF Joined

LEMMA TypeInit ==
  ASSUME Init PROVE TypeOK
<1>1. FuncTypeOK
  BY FuncsAssumption DEF Init, FuncTypeOK
<1>2. idx \in 1..Len(order) + 1
  BY <1>1 DEF Init, Idle, FuncTypeOK
<1>3. pass \in Passes
  BY DEF Init, Idle, Passes
<1>4. cfg \subseteq [from: Labels, at: Nat, arm: Nat, to: Labels]
  BY DEF Init, Idle
<1>5. kept \in Seq(Labels) /\ locked \subseteq Labels
  BY DEF Init, Idle
<1>6. deleted \in BOOLEAN /\ progress \in BOOLEAN /\ bootstrap \in BOOLEAN
  BY DEF Init, Idle
<1> QED
  BY <1>1, <1>2, <1>3, <1>4, <1>5, <1>6 DEF TypeOK

LEMMA TypeStep ==
  ASSUME TypeOK, [Next]_vars PROVE TypeOK'
<1> USE DEF TypeOK, FuncTypeOK
<1>1. CASE ReplaceConstBr
  <2> DEFINE F(b) == [i \in DOMAIN stmts[b] |-> Folded(stmts[b][i])]
  <2>1. \A b \in Labels : F(b) \in Seq(Stmts)
    <3> SUFFICES ASSUME NEW b \in Labels PROVE F(b) \in Seq(Stmts)
      OBVIOUS
    <3>1. stmts[b] \in Seq(Stmts)
      OBVIOUS
    <3>2. \A i \in DOMAIN stmts[b] : Folded(stmts[b][i]) \in Stmts
      BY <3>1, FoldedType
    <3>3. DOMAIN stmts[b] = 1..Len(stmts[b]) /\ Len(stmts[b]) \in Nat
      BY <3>1
    <3> HIDE DEF TypeOK, FuncTypeOK
    <3> QED
      BY <3>2, <3>3, IsASeq
  <2>2. stmts' = [b \in Labels |-> IF b \in Live THEN F(b) ELSE stmts[b]]
    BY <1>1 DEF ReplaceConstBr
  <2>3. stmts' \in [Labels -> Seq(Stmts)]
    BY <2>1, <2>2
  <2> QED
    BY <1>1, <2>3 DEF ReplaceConstBr, Passes
<1>2. CASE Begin
  BY <1>2, ControlFlowType DEF Begin, StartRewriting, Passes, Rewritings
<1>3. CASE BeginBootstrap
  BY <1>3, ControlFlowType DEF BeginBootstrap, StartRewriting, Passes, Rewritings
<1>4. ASSUME Keep, idx \in DOMAIN order PROVE TypeOK'
  <2>1. This \in Labels
    BY <1>4 DEF This
  <2> QED
    BY <1>4, <2>1 DEF Keep
<1>5. ASSUME Drop, idx \in DOMAIN order,
             stmts' \in [Labels -> Seq(Stmts)], locked' \subseteq Labels,
             pass' = pass
      PROVE  TypeOK'
  <2>1. idx' \in 1..Len(order') + 1
    BY <1>5 DEF Drop
  <2>2. FuncTypeOK'
    BY <1>5 DEF Drop
  <2>3. /\ pass' \in Passes
        /\ kept' \in Seq(Labels)
        /\ deleted' \in BOOLEAN /\ progress' \in BOOLEAN /\ bootstrap' \in BOOLEAN
    BY <1>5 DEF Drop
  <2>4. cfg' = cfg
    BY <1>5 DEF Drop
  <2> QED
    BY <1>5, <2>1, <2>2, <2>3, <2>4
<1>6. CASE RemoveNoPred
  <2>1. CASE Useless(This)
    <3>1. stmts' \in [Labels -> Seq(Stmts)]
      <4>1. This \in Labels
        BY <1>6 DEF RemoveNoPred, Visiting, This
      <4>2. stmts' = [stmts EXCEPT ![This] = <<>>]
        BY <1>6, <2>1 DEF RemoveNoPred
      <4> QED
        BY <4>1, <4>2, FreeType
    <3> QED
      BY <1>5, <1>6, <2>1, <3>1 DEF RemoveNoPred, Visiting, Drop
  <2>2. CASE ~Useless(This)
    BY <1>4, <1>6, <2>2 DEF RemoveNoPred, Visiting
  <2> QED
    BY <2>1, <2>2
<1>7. CASE MergeBr
  <2>1. CASE ~(Forwards(This) /\ This \notin locked)
    BY <1>4, <1>7, <2>1 DEF MergeBr, Visiting
  <2>2. CASE /\ Forwards(This) /\ This \notin locked
             /\ ~(bootstrap \/ \A p \in PredBlocks(This) : Adjustable(p))
    BY <1>7, <2>2 DEF MergeBr, Passes, Ends
  <2>3. CASE /\ Forwards(This) /\ This \notin locked
             /\ bootstrap \/ \A p \in PredBlocks(This) : Adjustable(p)
    <3>1. Succ(This) \in Labels
      BY <2>3, SuccType DEF Forwards
    <3>2. LockedBy(This) \subseteq Labels
      BY <3>1 DEF LockedBy, PredBlocks, Preds
    <3>3. \A s \in Stmts : Retarget(s, This) \in Stmts
      BY <3>1, RetargetType
    <3>4. Adjusted(This) \in [Labels -> Seq(Stmts)]
      <4> SUFFICES ASSUME NEW p \in PredBlocks(This), p \in Labels
                   PROVE  [stmts[p] EXCEPT ![Len(stmts[p])] = Retarget(@, This)]
                            \in Seq(Stmts)
        BY DEF Adjusted
      <4>1. stmts[p] \in Seq(Stmts) /\ Len(stmts[p]) \in Nat
        OBVIOUS
      <4>2. CASE Len(stmts[p]) = 0
        <5>1. DOMAIN stmts[p] = {} /\ Len(stmts[p]) \notin DOMAIN stmts[p]
          BY <4>1, <4>2
        <5>2. [stmts[p] EXCEPT ![Len(stmts[p])] = Retarget(@, This)] = stmts[p]
          BY <4>1, <5>1
        <5> QED
          BY <4>1, <5>2
      <4>3. CASE Len(stmts[p]) # 0
        <5>1. Len(stmts[p]) \in 1..Len(stmts[p])
          BY <4>1, <4>3
        <5>2. Retarget(stmts[p][Len(stmts[p])], This) \in Stmts
          BY <3>3, <4>1, <5>1
        <5> QED
          BY <4>1, <5>1, <5>2, ExceptSeq
      <4> QED
        BY <4>2, <4>3
    <3>5. stmts' \in [Labels -> Seq(Stmts)]
      <4>1. This \in Labels
        BY <1>7 DEF MergeBr, Visiting, This
      <4>2. stmts' = [Adjusted(This) EXCEPT ![This] = <<>>]
        BY <1>7, <2>3 DEF MergeBr
      <4> QED
        BY <3>4, <4>1, <4>2, FreeType
    <3> QED
      BY <1>5, <1>7, <2>3, <3>2, <3>5 DEF MergeBr, Visiting, Drop, Lock
  <2> QED
    BY <2>1, <2>2, <2>3
<1>8. CASE MergePred
  <2> DEFINE p == CHOOSE q \in PredBlocks(This) : TRUE
  <2>1. CASE ~Follows(This)
    BY <1>4, <1>8, <2>1 DEF MergePred, Visiting
  <2>2. CASE Follows(This) /\ p = This /\ Len(stmts[This]) > 1
    BY <1>8, <2>2 DEF MergePred, Passes, Ends
  <2>3. CASE Follows(This) /\ ~(p = This /\ Len(stmts[This]) > 1)
    <3>1. This \in Labels /\ idx \in DOMAIN order
      BY <1>8 DEF MergePred, Visiting, This
    <3>2. p \in Labels
      BY <2>3 DEF Follows, HasOne, PredBlocks, Preds
    <3>3. Joined(p, This) \in Seq(Stmts)
      <4>1. stmts[p] \in Seq(Stmts) /\ stmts[This] \in Seq(Stmts)
        BY <3>1, <3>2
      <4> QED
        BY <4>1, JoinedType
    <3>4. SuccBlocks(This) \subseteq Labels
      BY DEF SuccBlocks, Succs
    <3>5. /\ Drop
          /\ stmts' = [stmts EXCEPT ![p] = Joined(p, This), ![This] = <<>>]
          /\ \E read \in SUBSET (SuccBlocks(This) \cap Freed) :
               locked' = locked \cup (SuccBlocks(This) \ Freed) \cup read
      BY <1>8, <2>3 DEF MergePred
    <3>6. locked' \subseteq Labels
      BY <3>4, <3>5
    <3>7. stmts' \in [Labels -> Seq(Stmts)]
      <4>1. [stmts EXCEPT ![p] = Joined(p, This)] \in [Labels -> Seq(Stmts)]
        BY <3>3
      <4> QED
        BY <3>1, <3>5, <4>1, FreeType
    <3>8. pass' = pass
      BY <3>5 DEF Drop
    <3> QED
      BY <1>5, <3>1, <3>5, <3>6, <3>7, <3>8
  <2> QED
    BY <2>1, <2>2, <2>3
<1>9. CASE Again
  <2>1. FuncTypeOK'
    BY <1>9 DEF Again
  <2>2. cfg' \subseteq [from: Labels, at: Nat, arm: Nat, to: Labels]
    BY <1>9, <2>1, ControlFlowTypeNext DEF Again
  <2>3. idx' \in 1..Len(order') + 1
    BY <1>9 DEF Again, Rewind
  <2>4. /\ pass' \in Passes
        /\ kept' \in Seq(Labels)
        /\ locked' \subseteq Labels
        /\ deleted' \in BOOLEAN /\ progress' \in BOOLEAN /\ bootstrap' \in BOOLEAN
    <3>1. pass' = pass /\ kept' = <<>> /\ locked' = {}
      BY <1>9 DEF Again, Rewind
    <3>2. deleted' = FALSE /\ progress' = TRUE
      BY <1>9 DEF Again
    <3>3. pass' \in Passes
      BY <3>1
    <3>4. kept' \in Seq(Labels)
      BY <3>1
    <3>5. locked' \subseteq Labels
      BY <3>1
    <3>6. deleted' \in BOOLEAN /\ progress' \in BOOLEAN /\ bootstrap' \in BOOLEAN
      BY <1>9, <3>2 DEF Again
    <3> QED
      BY <3>3, <3>4, <3>5, <3>6
  <2> QED
    BY <2>1, <2>2, <2>3, <2>4
<1>10. CASE Advance
  <2>1. cfg' \subseteq [from: Labels, at: Nat, arm: Nat, to: Labels]
    BY <1>10, ControlFlowType DEF Advance
  <2>2. pass' \in Passes
    BY <1>10 DEF Advance, NextPass, Passes, Rewritings, Ends
  <2>3. progress' \in BOOLEAN
    BY <1>10 DEF Advance, ProgressAfter
  <2>4. 1 \in 1..Len(order) + 1
    OBVIOUS
  <2> QED
    BY <1>10, <2>1, <2>2, <2>3, <2>4 DEF Advance, Rewind
<1>11. CASE UNCHANGED vars
  BY <1>11 DEF vars
<1> QED
  BY <1>1, <1>2, <1>6, <1>7, <1>8, <1>9, <1>10, <1>11, <1>3
     DEF Next, Simplify, Terminating

-----------------------------------------------------------------------------
(***************************************************************************)
(* Types.                                                                  *)
(***************************************************************************)
\* Every variable of the passes keeps its type, from Init through any sequence
\* of rewritings: labels patched by adjust_label and statements moved by
\* do_merge_if_pred_has_only_one_succ stay labels and statements.
THEOREM TypeCorrect == Spec => []TypeOK
BY TypeInit, TypeStep, PTL DEF Spec

-----------------------------------------------------------------------------
(***************************************************************************)
(* Locks.                                                                  *)
(***************************************************************************)
\* The block visited is none of the blocks before it.
LEMMA NotVisitedBefore ==
  ASSUME TypeOK, LabelsDistinct, idx \in DOMAIN order
  PROVE  \A i \in 1..idx - 1 : order[i] # order[idx]
<1> SUFFICES ASSUME NEW i \in 1..idx - 1, order[i] = order[idx] PROVE FALSE
  OBVIOUS
<1>1. idx \in 1..Len(order) /\ DOMAIN order = 1..Len(order) /\ Len(order) \in Nat
  BY DEF TypeOK, FuncTypeOK
<1>2. i \in DOMAIN order /\ i # idx
  BY <1>1
<1> QED
  BY <1>2 DEF LabelsDistinct

\* Visiting a block: it is not among the blocks already visited, and it is
\* freed by the step or else kept.
LEMMA KeepFreesNothing ==
  ASSUME TypeOK, LabelsDistinct, KeptInOrder, idx \in DOMAIN order, Keep
  PROVE  Freed' = Freed /\ KeptInOrder'
<1> USE DEF TypeOK, FuncTypeOK
<1>1. idx \in 1..Len(order) /\ DOMAIN order = 1..Len(order) /\ Len(order) \in Nat
  OBVIOUS
<1>2. /\ kept' = Append(kept, order[idx]) /\ idx' = idx + 1 /\ order' = order
      /\ kept \in Seq(Labels)
  BY DEF Keep, This
<1>3. DOMAIN kept = 1..Len(kept) /\ DOMAIN kept' = 1..Len(kept) + 1 /\ Len(kept) \in Nat
  BY <1>2
<1>4. /\ Len(kept) + 1 \in DOMAIN kept'
       /\ \A k \in DOMAIN kept' : k \in 1..Len(kept) \/ k = Len(kept) + 1
  <2> HIDE DEF TypeOK, FuncTypeOK
  <2> QED
    BY <1>3
<1>5. \A i \in 1..Len(kept) : kept'[i] = kept[i]
  BY <1>2
<1>6. kept'[Len(kept) + 1] = order[idx]
  BY <1>2
<1>7. Range(kept') = Range(kept) \cup {order[idx]}
  <2>1. Range(kept') \subseteq Range(kept) \cup {order[idx]}
    <3>1. SUFFICES ASSUME NEW i \in DOMAIN kept'
                   PROVE  kept'[i] \in Range(kept) \cup {order[idx]}
      BY DEF Range
    <3>2. CASE i \in 1..Len(kept)
      BY <1>3, <1>5, <3>2 DEF Range
    <3>3. CASE i = Len(kept) + 1
      BY <1>6, <3>3
    <3> QED
      BY <1>3, <3>2, <3>3
  <2>2. Range(kept) \subseteq Range(kept')
    BY <1>3, <1>5 DEF Range
  <2>3. order[idx] \in Range(kept')
    BY <1>4, <1>6 DEF Range
  <2> QED
    BY <2>1, <2>2, <2>3
<1>8. 1..idx' - 1 = (1..idx - 1) \cup {idx}
  BY <1>1, <1>2
<1>9. \A i \in 1..idx - 1 : order[i] # order[idx]
  BY NotVisitedBefore
<1>10. \A i \in 1..Len(kept) : kept[i] # order[idx]
  BY <1>3, <1>9 DEF KeptInOrder, Range
<1>11. Freed' = Freed
  BY <1>2, <1>7, <1>8, <1>9 DEF Freed
<1>12. Range(kept') \subseteq {order'[i] : i \in 1..idx' - 1}
  BY <1>2, <1>7, <1>8 DEF KeptInOrder
<1>13. ASSUME NEW i \in DOMAIN kept', NEW j \in DOMAIN kept', kept'[i] = kept'[j]
       PROVE  i = j
  <2>1. CASE i \in 1..Len(kept) /\ j \in 1..Len(kept)
    BY <1>3, <1>5, <1>13, <2>1 DEF KeptInOrder
  <2>2. CASE i = Len(kept) + 1 /\ j \in 1..Len(kept)
    BY <1>5, <1>6, <1>10, <1>13, <2>2
  <2>3. CASE i \in 1..Len(kept) /\ j = Len(kept) + 1
    BY <1>5, <1>6, <1>10, <1>13, <2>3
  <2>4. CASE i = Len(kept) + 1 /\ j = Len(kept) + 1
    BY <2>4
  <2> QED
    BY <2>1, <2>2, <2>3, <2>4, <1>4
<1> QED
  BY <1>11, <1>12, <1>13 DEF KeptInOrder

LEMMA DropFreesThis ==
  ASSUME TypeOK, LabelsDistinct, KeptInOrder, idx \in DOMAIN order, Drop
  PROVE  Freed' = Freed \cup {This} /\ KeptInOrder' /\ This \notin Freed
<1> USE DEF TypeOK, FuncTypeOK
<1>1. idx \in 1..Len(order) /\ DOMAIN order = 1..Len(order) /\ Len(order) \in Nat
  OBVIOUS
<1>2. kept' = kept /\ idx' = idx + 1 /\ order' = order
  BY DEF Drop
<1>3. 1..idx' - 1 = (1..idx - 1) \cup {idx}
  BY <1>1, <1>2
<1>4. \A i \in 1..idx - 1 : order[i] # order[idx]
  BY NotVisitedBefore
<1>5. order[idx] \notin Range(kept)
  BY <1>4 DEF KeptInOrder
<1>6. Freed' = Freed \cup {This} /\ This \notin Freed
  BY <1>2, <1>3, <1>4, <1>5 DEF Freed, This
<1>7. KeptInOrder'
  BY <1>2, <1>3 DEF KeptInOrder
<1> QED
  BY <1>6, <1>7

\* At the beginning of an iteration nothing has been freed.
LEMMA RewindFreesNothing ==
  ASSUME Rewind
  PROVE  Freed' = {} /\ KeptInOrder'
<1>1. kept' = <<>> /\ idx' = 1
  BY DEF Rewind
<1>2. 1..idx' - 1 = {}
  BY <1>1
<1>3. Range(kept') = {} /\ DOMAIN kept' = {}
  BY <1>1 DEF Range
<1> QED
  BY <1>2, <1>3 DEF Freed, KeptInOrder

LEMMA LockInit ==
  ASSUME Init PROVE LockInv
<1>1. LabelsDistinct
  BY FuncsAssumption DEF Init, LabelsDistinct
<1>2. pass = "idle" /\ kept = <<>>
  BY DEF Init, Idle
<1>3. DOMAIN kept = {}
  BY <1>2
<1>4. KeptInOrder
  BY <1>3 DEF KeptInOrder, Range
<1> QED
  BY <1>1, <1>2, <1>4 DEF LockInv, MergeBrLocked, MergePredLocked

LEMMA LockStep ==
  ASSUME TypeOK, LockInv, [Next]_vars PROVE LockInv'
<1>1. LabelsDistinct /\ KeptInOrder /\ MergeBrLocked /\ MergePredLocked
  BY DEF LockInv
<1>2. ASSUME order' = order, kept' = kept, idx' = idx,
             pass' \notin {"merge_br", "merge_pred"}
      PROVE  LockInv'
  BY <1>1, <1>2
     DEF LockInv, LabelsDistinct, KeptInOrder, MergeBrLocked, MergePredLocked
<1>3. ASSUME Keep, idx \in DOMAIN order
      PROVE  LockInv'
  <2>1. Freed' = Freed /\ KeptInOrder'
    BY <1>1, <1>3, KeepFreesNothing
  <2>2. order' = order /\ cfg' = cfg /\ locked' = locked /\ pass' = pass
    BY <1>3 DEF Keep
  <2>3. MergeBrLocked' /\ MergePredLocked'
    BY <1>1, <2>1, <2>2
       DEF MergeBrLocked, MergePredLocked, LockedBy, Succ, Succs, PredBlocks,
           Preds, SuccBlocks
  <2> QED
    BY <1>1, <2>1, <2>2, <2>3 DEF LockInv, LabelsDistinct
<1>4. ASSUME Rewind, order' = order \/ order' = kept
      PROVE  LockInv'
  <2>1. Freed' = {} /\ KeptInOrder'
    BY <1>4, RewindFreesNothing
  <2>2. LabelsDistinct'
    BY <1>1, <1>4 DEF LabelsDistinct, KeptInOrder
  <2> QED
    BY <2>1, <2>2 DEF LockInv, MergeBrLocked, MergePredLocked
<1>5. CASE ReplaceConstBr
  BY <1>2, <1>5 DEF ReplaceConstBr
<1>6. CASE Begin
  BY <1>2, <1>6 DEF Begin, StartRewriting
<1>7. CASE BeginBootstrap
  BY <1>2, <1>7 DEF BeginBootstrap, StartRewriting
<1>8. CASE RemoveNoPred
  <2>1. CASE Useless(This)
    <3>1. Drop /\ idx \in DOMAIN order /\ pass = "no_pred"
      BY <1>8, <2>1 DEF RemoveNoPred, Visiting
    <3>2. order' = order /\ pass' = pass
      BY <3>1 DEF Drop
    <3>3. KeptInOrder'
      BY <1>1, <3>1, DropFreesThis
    <3> QED
      BY <1>1, <3>1, <3>2, <3>3
         DEF LockInv, LabelsDistinct, MergeBrLocked, MergePredLocked
  <2>2. CASE ~Useless(This)
    BY <1>3, <1>8, <2>2 DEF RemoveNoPred, Visiting
  <2> QED
    BY <2>1, <2>2
<1>9. CASE MergeBr
  <2>1. idx \in DOMAIN order /\ pass = "merge_br"
    BY <1>9 DEF MergeBr, Visiting
  <2>2. CASE ~(Forwards(This) /\ This \notin locked)
    BY <1>3, <1>9, <2>1, <2>2 DEF MergeBr
  <2>3. CASE pass' = "panic" /\ UNCHANGED <<order, kept, idx>>
    BY <1>2, <2>3
  <2>4. CASE /\ Forwards(This) /\ Drop
             /\ locked' = Lock(This)
    <3>1. /\ Freed' = Freed \cup {This}
          /\ KeptInOrder'
      BY <1>1, <2>1, <2>4, DropFreesThis
    <3>2. order' = order /\ cfg' = cfg /\ pass' = pass
      BY <2>4 DEF Drop
    <3>3. \A f : /\ HasOne(Succs(cfg, f))' <=> HasOne(Succs(cfg, f))
                 /\ LockedBy(f)' = LockedBy(f)
      BY <3>2 DEF HasOne, Succs, LockedBy, Succ, PredBlocks, Preds
    <3>4. HasOne(Succs(cfg, This))
      BY <2>4 DEF Forwards
    <3>5. \A f \in Freed \cup {This} :
            HasOne(Succs(cfg, f)) /\ LockedBy(f) \subseteq locked'
      BY <1>1, <2>1, <2>4, <3>4 DEF MergeBrLocked, Lock
    <3>6. MergeBrLocked'
      BY <3>1, <3>3, <3>5 DEF MergeBrLocked
    <3> QED
      BY <1>1, <2>1, <3>1, <3>2, <3>6 DEF LockInv, LabelsDistinct, MergePredLocked
  <2> QED
    BY <1>9, <2>2, <2>3, <2>4 DEF MergeBr
<1>10. CASE MergePred
  <2>1. idx \in DOMAIN order /\ pass = "merge_pred"
    BY <1>10 DEF MergePred, Visiting
  <2>2. CASE ~Follows(This)
    BY <1>3, <1>10, <2>1, <2>2 DEF MergePred
  <2>3. CASE pass' = "copying" /\ UNCHANGED <<order, kept, idx>>
    BY <1>2, <2>3
  <2>4. CASE /\ Drop
             /\ \E read \in SUBSET (SuccBlocks(This) \cap Freed) :
                  locked' = locked \cup (SuccBlocks(This) \ Freed) \cup read
    <3>1. Freed' = Freed \cup {This} /\ KeptInOrder'
      BY <1>1, <2>1, <2>4, DropFreesThis
    <3>2. order' = order /\ cfg' = cfg /\ pass' = pass
      BY <2>4 DEF Drop
    <3>3. \A f : SuccBlocks(f)' = SuccBlocks(f)
      BY <3>2 DEF SuccBlocks, Succs
    <3>4. locked \cup (SuccBlocks(This) \ Freed) \subseteq locked'
      BY <2>4
    <3>5. \A f \in Freed \cup {This} :
            SuccBlocks(f) \ (Freed \cup {This}) \subseteq locked'
      BY <1>1, <2>1, <3>4 DEF MergePredLocked
    <3>6. MergePredLocked'
      BY <3>1, <3>3, <3>5 DEF MergePredLocked
    <3> QED
      BY <1>1, <2>1, <3>1, <3>2, <3>6 DEF LockInv, LabelsDistinct, MergeBrLocked
  <2> QED
    BY <1>10, <2>2, <2>3, <2>4 DEF MergePred
<1>11. CASE Again
  BY <1>4, <1>11 DEF Again
<1>12. CASE Advance
  BY <1>4, <1>12 DEF Advance
<1>13. CASE UNCHANGED vars
  <2>1. /\ order' = order /\ kept' = kept /\ idx' = idx
        /\ pass' = pass /\ cfg' = cfg /\ locked' = locked
    BY <1>13 DEF vars
  <2>2. Freed' = Freed /\ LabelsDistinct' /\ KeptInOrder'
    BY <1>1, <2>1 DEF Freed, LabelsDistinct, KeptInOrder
  <2>3. MergeBrLocked' /\ MergePredLocked'
    BY <1>1, <2>1, <2>2
       DEF MergeBrLocked, MergePredLocked, LockedBy, Succ, Succs, PredBlocks,
           Preds, SuccBlocks
  <2> QED
    BY <2>2, <2>3 DEF LockInv
<1> QED
  BY <1>5, <1>6, <1>8, <1>9, <1>10, <1>11, <1>12, <1>13, <1>7
     DEF Next, Simplify, Terminating

\* The locks are what the invariant says after every step of every rewriting.
THEOREM LocksCorrect == Spec => []LockInv
BY LockInit, LockStep, TypeCorrect, PTL DEF Spec

LEMMA BrReadsLive ==
  ASSUME TypeOK, LockInv PROVE MergeBrReadsLive
<1> SUFFICES ASSUME LockInv, Visiting("merge_br"), Forwards(This),
                    This \notin locked,
                    NEW f \in LockedBy(This), f \in Freed
             PROVE  FALSE
  BY DEF MergeBrReadsLive
<1>1. HasOne(Succs(cfg, f)) /\ LockedBy(f) \subseteq locked
  BY DEF LockInv, MergeBrLocked, Visiting
<1>2. CASE f = Succ(This)
  <2>1. PICK e \in cfg : e.from = This /\ e.to = f
    BY <1>2 DEF Forwards, HasOne, Succs, Succ
  <2>2. This \in LockedBy(f)
    BY <2>1 DEF LockedBy, PredBlocks, Preds
  <2> QED
    BY <1>1, <2>2
<1>3. CASE f \in PredBlocks(This)
  <2>1. PICK e \in cfg : e.from = f /\ e.to = This
    BY <1>3 DEF PredBlocks, Preds
  <2>2. Succ(f) = This
    BY <1>1, <2>1 DEF HasOne, Succs, Succ
  <2> QED
    BY <1>1, <2>2 DEF LockedBy
<1> QED
  BY <1>2, <1>3 DEF LockedBy

\* No pointer that adjust_label follows, to the successor of the block it is
\* about to remove or to any of its predecessors, leads to a block freed in the
\* same iteration: the locking its comment argues for on one example is enough
\* for every control flow graph.
THEOREM MergeBrSafe == Spec => []MergeBrReadsLive
BY BrReadsLive, TypeCorrect, LocksCorrect, PTL

LEMMA PredWritesLive ==
  ASSUME TypeOK, LockInv PROVE MergePredWritesLive
<1> SUFFICES ASSUME TypeOK, LockInv, Visiting("merge_pred"), Follows(This),
                    NEW f \in PredBlocks(This), f \in Freed
             PROVE  FALSE
  BY DEF MergePredWritesLive
<1>1. SuccBlocks(f) \ Freed \subseteq locked
  BY DEF LockInv, MergePredLocked, Visiting
<1>2. This \in SuccBlocks(f)
  BY DEF PredBlocks, Preds, SuccBlocks, Succs
<1>3. This \notin Freed
  BY NotVisitedBefore DEF Visiting, LockInv, Freed, This
<1>4. This \notin locked
  BY DEF Follows
<1> QED
  BY <1>1, <1>2, <1>3, <1>4

\* The block do_merge_if_pred_has_only_one_succ appends to has not been freed,
\* so no statement is moved into freed memory.  The successors it reads the
\* labels of may have been.
THEOREM MergePredSafe == Spec => []MergePredWritesLive
BY PredWritesLive, TypeCorrect, LocksCorrect, PTL

-----------------------------------------------------------------------------
(***************************************************************************)
(* Branches.  The statements of a block, what a branch of it may lead to,  *)
(* and what the rewritings do to them.                                     *)
(***************************************************************************)
\* Blocks branch at their end only.
EndsOnly(c) == \A i \in DOMAIN c : c[i].to # <<>> => i = Len(c)
Leads(c, t) == \E i \in DOMAIN c : t \in Range(c[i].to)

\* The last statement leads to s where it led to b.
Redirected(to, b, s) == [k \in DOMAIN to |-> IF to[k] = b THEN s ELSE to[k]]
Aim(stmt, b, s) == [stmt EXCEPT !.to = Redirected(stmt.to, b, s)]
Redirect(c, b, s) == [c EXCEPT ![Len(c)] = Aim(c[Len(c)], b, s)]

\* The last statement of c makes way for d.
Join(c, d) == SubSeq(c, 1, Len(c) - 1) \o d

LEMMA ContentType ==
  ASSUME NEW c \in Seq(Stmts)
  PROVE  /\ Len(c) \in Nat /\ DOMAIN c = 1..Len(c)
         /\ \A i \in DOMAIN c : c[i] \in Stmts /\ c[i].to \in Seq(Labels)
BY DEF Stmts

LEMMA RedirectedIs ==
  ASSUME NEW to \in Seq(Labels), NEW b \in Labels, NEW s \in Labels
  PROVE  /\ Redirected(to, b, s) \in Seq(Labels)
         /\ Len(Redirected(to, b, s)) = Len(to)
         /\ Redirected(to, b, s) # <<>> => to # <<>>
         /\ \A t \in Range(Redirected(to, b, s)) : t = s \/ (t # b /\ t \in Range(to))
         /\ Len(to) = 1 => Redirected(to, b, s)[1] = IF to[1] = b THEN s ELSE to[1]
<1>1. Redirected(to, b, s) \in Seq(Labels) /\ Len(Redirected(to, b, s)) = Len(to)
      /\ DOMAIN to = 1..Len(to) /\ Len(to) \in Nat /\ DOMAIN Redirected(to, b, s) = DOMAIN to
  BY DEF Redirected
<1>2. \A t \in Range(Redirected(to, b, s)) : t = s \/ (t # b /\ t \in Range(to))
  BY <1>1 DEF Redirected, Range
<1>3. Redirected(to, b, s) # <<>> => to # <<>>
  BY <1>1
<1>4. Len(to) = 1 => Redirected(to, b, s)[1] = IF to[1] = b THEN s ELSE to[1]
  BY <1>1 DEF Redirected
<1> QED
  BY <1>1, <1>2, <1>3, <1>4

LEMMA RedirectIs ==
  ASSUME NEW c \in Seq(Stmts), NEW b \in Labels, NEW s \in Labels
  PROVE  /\ Len(Redirect(c, b, s)) = Len(c) /\ DOMAIN Redirect(c, b, s) = DOMAIN c
         /\ \A i \in DOMAIN c : /\ Redirect(c, b, s)[i].op = c[i].op
                                /\ i # Len(c) => Redirect(c, b, s)[i] = c[i]
         /\ c # <<>> => Redirect(c, b, s)[Len(c)].to = Redirected(c[Len(c)].to, b, s)
<1>1. /\ Len(c) \in Nat /\ DOMAIN c = 1..Len(c)
      /\ \A i \in DOMAIN c : c[i] \in Stmts
  BY ContentType
<1>2. CASE c = <<>>
  <2>1. DOMAIN c = {} /\ Len(c) \notin DOMAIN c
    BY <1>1, <1>2
  <2>2. Redirect(c, b, s) = c
    BY <2>1 DEF Redirect
  <2> QED
    BY <1>2, <2>1, <2>2
<1>3. CASE c # <<>>
  <2>1. Len(c) \in DOMAIN c
    BY <1>1, <1>3
  <2> DEFINE r == Aim(c[Len(c)], b, s)
  <2>2. c[Len(c)] \in Stmts
    BY <1>1, <2>1
  <2>3. r.op = c[Len(c)].op /\ r.to = Redirected(c[Len(c)].to, b, s)
    BY <2>2 DEF Stmts, Aim
  <2>4. Redirect(c, b, s) = [c EXCEPT ![Len(c)] = r]
    BY DEF Redirect
  <2> HIDE DEF r
  <2>5. /\ DOMAIN Redirect(c, b, s) = DOMAIN c
        /\ Len(Redirect(c, b, s)) = Len(c)
        /\ Redirect(c, b, s)[Len(c)] = r
        /\ \A i \in DOMAIN c : i # Len(c) => Redirect(c, b, s)[i] = c[i]
    BY <1>1, <2>1, <2>4
  <2> QED
    BY <1>3, <2>1, <2>3, <2>5
<1> QED
  BY <1>2, <1>3

\* Redirecting a branch: it still comes last, and leads nowhere new but to s.
LEMMA RedirectLeads ==
  ASSUME NEW c \in Seq(Stmts), NEW b \in Labels, NEW s \in Labels, EndsOnly(c)
  PROVE  /\ EndsOnly(Redirect(c, b, s))
         /\ \A t \in Labels : Leads(Redirect(c, b, s), t) => t = s \/ (t # b /\ Leads(c, t))
<1> DEFINE r == Redirect(c, b, s)
<1>1. /\ Len(c) \in Nat /\ DOMAIN c = 1..Len(c)
      /\ \A i \in DOMAIN c : c[i].to \in Seq(Labels)
  BY ContentType
<1>2. /\ Len(r) = Len(c) /\ DOMAIN r = DOMAIN c
      /\ \A i \in DOMAIN c : i # Len(c) => r[i] = c[i]
      /\ c # <<>> => r[Len(c)].to = Redirected(c[Len(c)].to, b, s)
  BY RedirectIs
<1> HIDE DEF r
<1>3. EndsOnly(r)
  BY <1>2 DEF EndsOnly
<1>4. ASSUME NEW t \in Labels, Leads(r, t) PROVE t = s \/ (t # b /\ Leads(c, t))
  <2>1. PICK i \in DOMAIN c : t \in Range(r[i].to)
    BY <1>2, <1>4 DEF Leads
  <2>2. CASE i = Len(c)
    <3>1. c # <<>> /\ r[i].to = Redirected(c[i].to, b, s) /\ c[i].to \in Seq(Labels)
      BY <1>1, <1>2, <2>1, <2>2
    <3>2. t = s \/ (t # b /\ t \in Range(c[i].to))
      BY <2>1, <3>1, RedirectedIs
    <3> QED
      BY <3>2 DEF Leads
  <2>3. CASE i # Len(c)
    <3>1. r[i] = c[i] /\ c[i].to = <<>>
      BY <1>2, <2>3 DEF EndsOnly
    <3>2. Range(r[i].to) = {}
      BY <3>1 DEF Range
    <3> QED
      BY <2>1, <3>2
  <2> QED
    BY <2>2, <2>3
<1> QED
  BY <1>3, <1>4 DEF r

LEMMA JoinIs ==
  ASSUME NEW c \in Seq(Stmts), NEW d \in Seq(Stmts), c # <<>>
  PROVE  /\ Join(c, d) \in Seq(Stmts) /\ Len(Join(c, d)) = Len(c) - 1 + Len(d)
         /\ \A i \in 1..Len(c) - 1 : Join(c, d)[i] = c[i]
         /\ \A i \in 1..Len(d) : Join(c, d)[Len(c) - 1 + i] = d[i]
<1>1. PICK m \in Nat : Len(c) = m + 1
  <2>1. Len(c) - 1 \in Nat /\ Len(c) = (Len(c) - 1) + 1
    OBVIOUS
  <2> QED
    BY <2>1
<1>2. m = Len(c) - 1
  BY <1>1
<1> DEFINE front == SubSeq(c, 1, m)
<1>3. front \in Seq(Stmts) /\ Len(front) = m
  BY <1>1
<1>4. \A i \in 1..m : front[i] = c[i]
  BY <1>1
<1>5. Join(c, d) = front \o d
  BY <1>2 DEF Join
<1>6. PICK n \in Nat : n = Len(d)
  OBVIOUS
<1> HIDE DEF front
<1>7. /\ front \o d \in Seq(Stmts) /\ Len(front \o d) = m + n
      /\ \A i \in 1..m : (front \o d)[i] = front[i]
      /\ \A i \in 1..n : (front \o d)[m + i] = d[i]
  <2>1. /\ front \o d \in Seq(Stmts) /\ Len(front \o d) = Len(front) + Len(d)
        /\ \A i \in 1..Len(front) + Len(d) :
             (front \o d)[i] = IF i <= Len(front) THEN front[i] ELSE d[i - Len(front)]
    BY <1>3, ConcatProperties
  <2>2. \A i \in 1..m : (front \o d)[i] = front[i]
    BY <1>3, <1>6, <2>1
  <2>3. \A i \in 1..n : m + i \in 1..m + n /\ ~(m + i <= m) /\ (m + i) - m = i
    OBVIOUS
  <2>4. \A i \in 1..n : (front \o d)[m + i] = d[i]
    BY <1>3, <1>6, <2>1, <2>3
  <2> QED
    BY <1>3, <1>6, <2>1, <2>2, <2>4
<1> QED
  BY <1>2, <1>4, <1>5, <1>6, <1>7

\* Moving the statements of a block behind those of another: where they lead.
LEMMA JoinLeads ==
  ASSUME NEW c \in Seq(Stmts), NEW d \in Seq(Stmts), c # <<>>, EndsOnly(c), EndsOnly(d)
  PROVE  /\ EndsOnly(Join(c, d))
         /\ \A t \in Labels : Leads(Join(c, d), t) => Leads(d, t)
<1> DEFINE j == Join(c, d)
<1>1. PICK m \in Nat : m = Len(c) - 1
  OBVIOUS
<1>2. PICK n \in Nat : n = Len(d)
  OBVIOUS
<1>3. /\ j \in Seq(Stmts) /\ Len(j) = m + n
      /\ \A i \in 1..m : j[i] = c[i]
      /\ \A i \in 1..n : j[m + i] = d[i]
  BY <1>1, <1>2, JoinIs
<1> HIDE DEF j
<1>4. \A i \in 1..m : j[i].to = <<>>
  <2> SUFFICES ASSUME NEW i \in 1..m PROVE j[i].to = <<>>
    OBVIOUS
  <2>1. i \in DOMAIN c /\ i # Len(c)
    BY <1>1
  <2> QED
    BY <1>3, <2>1 DEF EndsOnly
<1>5. DOMAIN j = 1..(m + n) /\ DOMAIN d = 1..n
  BY <1>2, <1>3
<1>6. \A i \in DOMAIN j : i \in 1..m \/ \E k \in 1..n : i = m + k
  <2> SUFFICES ASSUME NEW i \in 1..(m + n), i \notin 1..m PROVE \E k \in 1..n : i = m + k
    BY <1>5
  <2>1. i - m \in 1..n /\ i = m + (i - m)
    OBVIOUS
  <2> QED
    BY <2>1
<1>7. EndsOnly(j)
  <2> SUFFICES ASSUME NEW i \in DOMAIN j, j[i].to # <<>> PROVE i = Len(j)
    BY DEF EndsOnly
  <2>1. PICK k \in 1..n : i = m + k
    BY <1>4, <1>6
  <2>2. k = n
    BY <1>2, <1>3, <1>5, <2>1 DEF EndsOnly
  <2> QED
    BY <1>3, <2>1, <2>2
<1>8. ASSUME NEW t \in Labels, Leads(j, t) PROVE Leads(d, t)
  <2>1. PICK i \in DOMAIN j : t \in Range(j[i].to)
    BY <1>8 DEF Leads
  <2>2. j[i].to # <<>>
    BY <2>1 DEF Range
  <2>3. PICK k \in 1..n : i = m + k
    BY <1>4, <1>6, <2>2
  <2> QED
    BY <1>3, <1>5, <2>1, <2>3 DEF Leads
<1> QED
  BY <1>7, <1>8 DEF j

(***************************************************************************)
(* The blocks and the graph.                                               *)
(***************************************************************************)
Alive == Live \ Freed

\* No block branches but at its end.
BranchesLast == \A b \in Live : EndsOnly(stmts[b])

\* Every predecessor adjust_label can reach ends with a branch; so does every
\* block whose successors have not been moved into it.
BranchesAdjustable ==
  /\ pass = "merge_br" => \A e \in cfg : e.from \in Freed \/ Adjustable(e.from)
  /\ pass = "merge_pred" =>
       \A e \in cfg : e.from \in Freed \/ e.to \in Freed \/ Adjustable(e.from)

\* Nothing has happened before the first rewriting; deleted says whether the
\* running iteration has freed a block.
NotBegun == pass \in {"idle", "folded"} => locked = {} /\ ~deleted /\ ~emptyCycle
DeletedRight == IF deleted THEN idx > 1 ELSE Freed = {}

ShapeInv == BranchesLast /\ BranchesAdjustable /\ NotBegun /\ DeletedRight

\* The blocks that have not been freed lead to one another only.
LeadsToAlive == \A b \in Alive : \A t \in Labels : Leads(stmts[b], t) => t \in Alive

\* The graph is about the blocks of the function.  It is right about every
\* block none of whose successors has been freed, and about every block that is
\* not locked it knows all predecessors.
CfgOfBlocks == \A e \in cfg : e.from \in Live /\ e.to \in Live
CfgRight == \A b \in Alive : SuccBlocks(b) \cap Freed = {} => BlockEdges(b) = Succs(cfg, b)
PredsKnown ==
  \A b \in Alive : \A t \in Labels : Leads(stmts[b], t) => t \in locked \/ b \in PredBlocks(t)
NoPredFreed == pass = "no_pred" => locked = {} /\ \A f \in Freed : Preds(cfg, f) = {}

\* The blocks do not come to form a cycle that does nothing.
LeadInv ==
  \/ emptyCycle
  \/ /\ LeadsToAlive
     /\ pass \in Rewritings =>
          CfgOfBlocks /\ CfgRight /\ PredsKnown /\ NoPredFreed /\ ~HasEmptyCycle

LEMMA BlockType ==
  ASSUME TypeOK
  PROVE  /\ Live \subseteq Labels /\ Alive \subseteq Live
         /\ \A b \in Labels : stmts[b] \in Seq(Stmts)
BY DEF TypeOK, FuncTypeOK, Live, Range, Alive

\* The block visited has not been freed.
LEMMA VisitedAlive ==
  ASSUME TypeOK, LockInv, idx \in DOMAIN order
  PROVE  This \in Alive
BY NotVisitedBefore DEF LockInv, Alive, Freed, This, Live, Range

\* The edges that leave a block, and where it leads.
LEMMA EdgesAre ==
  ASSUME TypeOK, NEW b \in Labels
  PROVE  /\ \A e \in BlockEdges(b) : e.from = b /\ e.to \in Labels /\ Leads(stmts[b], e.to)
         /\ \A t : Leads(stmts[b], t) => \E e \in BlockEdges(b) : e.from = b /\ e.to = t
<1>1. /\ \A i \in DOMAIN stmts[b] : stmts[b][i].to \in Seq(Labels)
  BY BlockType, ContentType
<1>2. ASSUME NEW e \in BlockEdges(b) PROVE e.from = b /\ e.to \in Labels /\ Leads(stmts[b], e.to)
  <2>1. PICK i \in DOMAIN stmts[b] : e \in StmtEdges(b, i)
    BY DEF BlockEdges
  <2>2. PICK k \in DOMAIN stmts[b][i].to :
          e = [from |-> b, at |-> i, arm |-> k, to |-> stmts[b][i].to[k]]
    BY <2>1 DEF StmtEdges
  <2>3. stmts[b][i].to[k] \in Labels /\ stmts[b][i].to[k] \in Range(stmts[b][i].to)
    BY <1>1, <2>2 DEF Range
  <2>4. e.from = b /\ e.to = stmts[b][i].to[k]
    BY <2>2
  <2> QED
    BY <2>3, <2>4 DEF Leads
<1>3. ASSUME NEW t, Leads(stmts[b], t) PROVE \E e \in BlockEdges(b) : e.from = b /\ e.to = t
  <2>1. PICK i \in DOMAIN stmts[b] : t \in Range(stmts[b][i].to)
    BY <1>3 DEF Leads
  <2>2. PICK k \in DOMAIN stmts[b][i].to : t = stmts[b][i].to[k]
    BY <2>1 DEF Range
  <2> DEFINE e == [from |-> b, at |-> i, arm |-> k, to |-> stmts[b][i].to[k]]
  <2>3. e \in StmtEdges(b, i) /\ e.from = b /\ e.to = t
    BY <2>2 DEF StmtEdges
  <2> QED
    BY <2>3 DEF BlockEdges
<1> QED
  BY <1>2, <1>3

\* control_flow_analysis, run when nothing has been freed.
LEMMA NewCfg ==
  ASSUME TypeOK, Freed = {}, cfg = ControlFlow, LeadsToAlive
  PROVE  CfgOfBlocks /\ CfgRight /\ PredsKnown
<1>1. Live \subseteq Labels /\ Alive = Live
  BY BlockType DEF Alive
<1>2. \A e \in cfg : e.to \in Live /\ \E b \in Live : e \in BlockEdges(b)
  BY DEF ControlFlow
<1>3. \A b \in Live : \A e \in BlockEdges(b) : e.from = b /\ e.to \in Live
  BY <1>1, EdgesAre DEF LeadsToAlive
<1>4. CfgOfBlocks
  BY <1>2, <1>3 DEF CfgOfBlocks
<1>5. \A b \in Live : BlockEdges(b) \subseteq cfg
  BY <1>3 DEF ControlFlow
<1>6. CfgRight
  BY <1>1, <1>2, <1>3, <1>5 DEF CfgRight, Succs
<1>7. ASSUME NEW b \in Alive, NEW t \in Labels, Leads(stmts[b], t) PROVE b \in PredBlocks(t)
  <2>1. PICK e \in BlockEdges(b) : e.from = b /\ e.to = t
    BY <1>1, <1>7, EdgesAre
  <2> QED
    BY <1>1, <1>5, <2>1 DEF PredBlocks, Preds
<1> QED
  BY <1>4, <1>6, <1>7 DEF PredsKnown

\* Every block it gives a successor ends with a branch.
LEMMA NewCfgAdjustable ==
  ASSUME TypeOK, BranchesLast, cfg = ControlFlow
  PROVE  BranchesAdjustable
<1> SUFFICES ASSUME NEW e \in cfg PROVE Adjustable(e.from)
  BY DEF BranchesAdjustable
<1>1. PICK b \in Live : e \in BlockEdges(b)
  BY DEF ControlFlow
<1>2. b \in Labels /\ stmts[b] \in Seq(Stmts) /\ EndsOnly(stmts[b])
  BY BlockType DEF BranchesLast
<1>3. e.from = b /\ Leads(stmts[b], e.to)
  BY <1>1, <1>2, EdgesAre
<1>4. PICK i \in DOMAIN stmts[b] : stmts[b][i].to # <<>>
  BY <1>3 DEF Leads, Range
<1>5. i = Len(stmts[b])
  BY <1>2, <1>4 DEF EndsOnly
<1>6. Len(stmts[b]) > 0 /\ stmts[b][i] \in Stmts
  BY <1>2, <1>4
<1>7. stmts[b][i].op \in {"br", "br_cond", "switch"}
  BY <1>4, <1>6 DEF Stmts, Ops
<1> QED
  BY <1>3, <1>5, <1>6, <1>7 DEF Adjustable, Back

LEMMA NewCfgNext ==
  /\ (TypeOK /\ Freed = {} /\ cfg = ControlFlow /\ LeadsToAlive
       => CfgOfBlocks /\ CfgRight /\ PredsKnown)'
  /\ (TypeOK /\ BranchesLast /\ cfg = ControlFlow => BranchesAdjustable)'
<1>1. TypeOK /\ Freed = {} /\ cfg = ControlFlow /\ LeadsToAlive
       => CfgOfBlocks /\ CfgRight /\ PredsKnown
  BY NewCfg
<1>2. TypeOK /\ BranchesLast /\ cfg = ControlFlow => BranchesAdjustable
  BY NewCfgAdjustable
<1> QED
  BY <1>1, <1>2, PTL

(***************************************************************************)
(* The steps that leave the statements alone.                              *)
(***************************************************************************)
\* What is said of the statements, and of the graph, does not change with the rest.
LEMMA SameStmts ==
  ASSUME order' = order, stmts' = stmts
  PROVE  /\ Live' = Live /\ BranchesLast' = BranchesLast /\ HasEmptyCycle' = HasEmptyCycle
         /\ \A b : BlockEdges(b)' = BlockEdges(b) /\ Adjustable(b)' = Adjustable(b)
BY DEF Live, Range, BranchesLast, HasEmptyCycle, OnlyJumps, BlockEdges, StmtEdges,
       Adjustable, Back

LEMMA SameCfg ==
  ASSUME cfg' = cfg
  PROVE  \A b : /\ SuccBlocks(b)' = SuccBlocks(b) /\ PredBlocks(b)' = PredBlocks(b)
                /\ Succs(cfg, b)' = Succs(cfg, b) /\ Preds(cfg, b)' = Preds(cfg, b)
BY DEF SuccBlocks, PredBlocks, Succs, Preds

LEMMA SameLead ==
  ASSUME order' = order, stmts' = stmts, cfg' = cfg, locked' = locked, Freed' = Freed
  PROVE  /\ LeadsToAlive' = LeadsToAlive /\ CfgOfBlocks' = CfgOfBlocks /\ CfgRight' = CfgRight
         /\ PredsKnown' = PredsKnown /\ Alive' = Alive
         /\ pass' = pass => NoPredFreed' = NoPredFreed
<1>1. Live' = Live /\ Alive' = Alive
  BY SameStmts DEF Alive
<1>2. LeadsToAlive' = LeadsToAlive
  BY <1>1 DEF LeadsToAlive
<1>3. CfgOfBlocks' = CfgOfBlocks
  BY <1>1 DEF CfgOfBlocks
<1>4. CfgRight' = CfgRight
  BY <1>1, SameStmts, SameCfg DEF CfgRight
<1>5. PredsKnown' = PredsKnown
  BY <1>1, SameCfg DEF PredsKnown
<1>6. pass' = pass => NoPredFreed' = NoPredFreed
  BY SameCfg DEF NoPredFreed
<1> QED
  BY <1>1, <1>2, <1>3, <1>4, <1>5, <1>6

LEMMA KeepLead ==
  ASSUME TypeOK, LockInv, ShapeInv, idx \in DOMAIN order, pass \in Rewritings, Keep
  PROVE  ShapeInv' /\ (LeadInv => LeadInv')
<1>1. Freed' = Freed
  BY KeepFreesNothing DEF LockInv
<1>2. /\ order' = order /\ stmts' = stmts /\ pass' = pass /\ cfg' = cfg /\ locked' = locked
      /\ deleted' = deleted /\ emptyCycle' = emptyCycle /\ idx' = idx + 1
  BY DEF Keep
<1>3. LeadInv => LeadInv'
  BY <1>1, <1>2, SameLead, SameStmts DEF LeadInv
<1>4. idx \in Nat /\ idx >= 1
  BY DEF TypeOK, FuncTypeOK
<1>5. ShapeInv'
  BY <1>1, <1>2, <1>4, SameStmts
     DEF ShapeInv, BranchesAdjustable, NotBegun, DeletedRight, Rewritings
<1> QED
  BY <1>3, <1>5

\* A step that only ends the passes.
LEMMA StopLead ==
  ASSUME ShapeInv, pass' \in Ends, UNCHANGED <<order, stmts, cfg, idx, kept, locked, deleted,
                                               progress, emptyCycle, bootstrap>>
  PROVE  ShapeInv' /\ (LeadInv => LeadInv')
<1>1. Freed' = Freed
  BY DEF Freed
<1>2. pass' \notin Rewritings /\ pass' \notin {"merge_br", "merge_pred", "idle", "folded"}
  BY DEF Ends, Rewritings
<1>3. LeadInv => LeadInv'
  BY <1>1, <1>2, SameLead DEF LeadInv
<1>4. ShapeInv'
  BY <1>1, <1>2, SameStmts DEF ShapeInv, BranchesAdjustable, NotBegun, DeletedRight
<1> QED
  BY <1>3, <1>4

LEMMA StutterLead ==
  ASSUME ShapeInv, UNCHANGED vars
  PROVE  ShapeInv' /\ (LeadInv => LeadInv')
<1>1. Freed' = Freed
  BY DEF Freed, vars
<1>2. LeadInv => LeadInv'
  BY <1>1, SameLead, SameStmts DEF LeadInv, vars
<1>3. ShapeInv'
  BY <1>1, SameStmts DEF ShapeInv, BranchesAdjustable, NotBegun, DeletedRight, vars
<1> QED
  BY <1>2, <1>3

(***************************************************************************)
(* The steps that build the graph.                                         *)
(***************************************************************************)
LEMMA BuildLead ==
  ASSUME TypeOK', ShapeInv, order' = order, stmts' = stmts, Freed = {}, Freed' = {},
         locked' = {}, ~deleted', cfg' = ControlFlow, pass' \in Rewritings \cup {"done"}
  PROVE  /\ ShapeInv'
         /\ LeadsToAlive /\ ~HasEmptyCycle => LeadInv'
<1>1. ControlFlow' = ControlFlow
  BY DEF ControlFlow, BlockEdges, StmtEdges, Live
<1>2. BranchesLast' /\ BranchesAdjustable'
  BY <1>1, SameStmts, NewCfgNext DEF ShapeInv
<1>3. ShapeInv'
  BY <1>2 DEF ShapeInv, NotBegun, DeletedRight, Rewritings
<1>4. LeadsToAlive' = LeadsToAlive
  BY SameStmts DEF LeadsToAlive, Alive
<1>5. ASSUME LeadsToAlive, ~HasEmptyCycle PROVE LeadInv'
  <2>1. CfgOfBlocks' /\ CfgRight' /\ PredsKnown'
    BY <1>1, <1>4, <1>5, NewCfgNext
  <2>2. NoPredFreed'
    BY DEF NoPredFreed
  <2> QED
    BY <1>4, <1>5, <2>1, <2>2, SameStmts DEF LeadInv
<1> QED
  BY <1>3, <1>5

LEMMA BeginLead ==
  ASSUME TypeOK', ShapeInv, StartRewriting, pass \in {"idle", "folded"}
  PROVE  ShapeInv' /\ (LeadInv => LeadInv')
<1>1. /\ locked = {} /\ ~deleted /\ Freed = {}
  BY DEF ShapeInv, NotBegun, DeletedRight
<1>2. /\ pass' = "no_pred" /\ cfg' = ControlFlow /\ emptyCycle' = HasEmptyCycle
      /\ order' = order /\ stmts' = stmts /\ locked' = {} /\ ~deleted' /\ Freed' = {}
  BY <1>1 DEF StartRewriting, Freed
<1>3. pass' \in Rewritings \cup {"done"}
  BY <1>2 DEF Rewritings
<1>4. ShapeInv'
  BY <1>1, <1>2, <1>3, BuildLead
<1>5. ASSUME LeadInv PROVE LeadInv'
  <2>1. CASE HasEmptyCycle
    BY <1>2, <2>1 DEF LeadInv
  <2>2. CASE ~HasEmptyCycle
    <3>1. LeadsToAlive
      BY <1>5 DEF LeadInv, ShapeInv, NotBegun
    <3> QED
      BY <1>1, <1>2, <1>3, <2>2, <3>1, BuildLead
  <2> QED
    BY <2>1, <2>2
<1> QED
  BY <1>4, <1>5

\* At the end of an iteration the blocks that have not been freed are those kept.
LEMMA KeptAlive ==
  ASSUME TypeOK, LockInv, idx > Len(order)
  PROVE  Alive = Range(kept)
<1>1. idx \in Nat /\ idx - 1 = Len(order) /\ DOMAIN order = 1..Len(order)
  BY DEF TypeOK, FuncTypeOK
<1>2. Live = {order[i] : i \in 1..idx - 1}
  BY <1>1 DEF Live, Range
<1>3. Range(kept) \subseteq {order[i] : i \in 1..idx - 1}
  BY DEF LockInv, KeptInOrder
<1> QED
  BY <1>2, <1>3 DEF Alive, Freed

LEMMA AgainLead ==
  ASSUME TypeOK, TypeOK', LockInv, ShapeInv, Again
  PROVE  ShapeInv' /\ (LeadInv => LeadInv')
<1>1. idx > Len(order)
  <2>1. idx \in Nat /\ Len(order) \in Nat /\ idx > 1
    BY DEF TypeOK, FuncTypeOK, Again, ShapeInv, DeletedRight
  <2> QED
    BY <2>1 DEF Again, Iterated
<1>2. /\ order' = kept /\ stmts' = stmts /\ pass' = pass /\ emptyCycle' = emptyCycle
      /\ cfg' = ControlFlow' /\ ~deleted' /\ locked' = {} /\ pass \in Rewritings
  BY DEF Again, Rewind
<1>3. Freed' = {}
  BY RewindFreesNothing DEF Again
<1>4. Live' = Alive /\ Alive' = Alive /\ Alive \subseteq Live
  BY <1>1, <1>2, <1>3, KeptAlive DEF Live, Alive
<1>5. BranchesLast'
  BY <1>2, <1>4 DEF BranchesLast, ShapeInv
<1>6. ShapeInv'
  BY <1>2, <1>3, <1>5, NewCfgNext DEF ShapeInv, NotBegun, DeletedRight, Rewritings
<1>7. ASSUME ~emptyCycle, LeadInv PROVE LeadInv'
  <2>1. LeadsToAlive'
    BY <1>2, <1>4, <1>7 DEF LeadInv, LeadsToAlive
  <2>2. CfgOfBlocks' /\ CfgRight' /\ PredsKnown'
    BY <1>2, <1>3, <2>1, NewCfgNext
  <2>3. NoPredFreed'
    BY <1>2, <1>3 DEF NoPredFreed
  <2>4. ~HasEmptyCycle'
    BY <1>2, <1>4, <1>7 DEF LeadInv, HasEmptyCycle, OnlyJumps
  <2> QED
    BY <2>1, <2>2, <2>3, <2>4 DEF LeadInv
<1> QED
  BY <1>2, <1>6, <1>7 DEF LeadInv

LEMMA AdvanceLead ==
  ASSUME TypeOK, TypeOK', LockInv, ShapeInv, Advance
  PROVE  ShapeInv' /\ (LeadInv => LeadInv')
<1>1. /\ order' = order /\ stmts' = stmts /\ emptyCycle' = emptyCycle
      /\ cfg' = ControlFlow /\ ~deleted /\ ~deleted' /\ locked' = {} /\ pass \in Rewritings
  BY DEF Advance, Rewind
<1>2. Freed = {} /\ Freed' = {}
  BY <1>1, RewindFreesNothing DEF Advance, ShapeInv, DeletedRight
<1>3. pass' \in Rewritings \cup {"done"}
  BY <1>1 DEF Advance, NextPass, Rewritings
<1>4. ShapeInv'
  BY <1>1, <1>2, <1>3, BuildLead
<1>5. ASSUME ~emptyCycle, LeadInv PROVE LeadInv'
  <2>1. LeadsToAlive /\ ~HasEmptyCycle
    BY <1>1, <1>5 DEF LeadInv
  <2> QED
    BY <1>1, <1>2, <1>3, <2>1, BuildLead
<1> QED
  BY <1>1, <1>4, <1>5 DEF LeadInv

(***************************************************************************)
(* replace_const_br and the removal of blocks.                             *)
(***************************************************************************)
LEMMA FoldedIs ==
  ASSUME NEW c \in Seq(Stmts), EndsOnly(c),
         NEW d, d = [i \in DOMAIN c |-> Folded(c[i])]
  PROVE  EndsOnly(d) /\ \A t : Leads(d, t) => Leads(c, t)
<1>1. /\ Len(c) \in Nat /\ DOMAIN c = 1..Len(c)
      /\ \A i \in DOMAIN c : c[i] \in Stmts
  BY ContentType
<1>2. DOMAIN d = DOMAIN c /\ Len(d) = Len(c) /\ \A i \in DOMAIN c : d[i] = Folded(c[i])
  BY <1>1
<1>3. ASSUME NEW s \in Stmts
      PROVE  /\ Folded(s).to # <<>> => s.to # <<>>
             /\ Range(Folded(s).to) \subseteq Range(s.to)
  <2>1. CASE s.op = "br_cond"
    <3>1. s.to \in Seq(Labels) /\ Len(s.to) = 2
      BY <2>1 DEF Stmts
    <3>2. s.to # <<>> /\ s.to[1] \in Range(s.to) /\ s.to[2] \in Range(s.to)
      BY <3>1 DEF Range
    <3>3. \A l : Br(l).to = <<l>> /\ Range(Br(l).to) = {l}
      BY DEF Br, Range
    <3>4. Folded(s) = Br(s.to[2]) \/ Folded(s) = Br(s.to[1]) \/ Folded(s) = s
      BY DEF Folded
    <3>5. CASE Folded(s) = Br(s.to[2])
      <4>1. Range(Folded(s).to) = {s.to[2]}
        BY <3>3, <3>5
      <4> QED
        BY <3>2, <4>1
    <3>6. CASE Folded(s) = Br(s.to[1])
      <4>1. Range(Folded(s).to) = {s.to[1]}
        BY <3>3, <3>6
      <4> QED
        BY <3>2, <4>1
    <3>7. CASE Folded(s) = s
      BY <3>2, <3>7
    <3> QED
      BY <3>4, <3>5, <3>6, <3>7
  <2>2. CASE s.op # "br_cond"
    BY <2>2 DEF Folded
  <2> QED
    BY <2>1, <2>2
<1>4. EndsOnly(d)
  BY <1>1, <1>2, <1>3 DEF EndsOnly
<1>5. \A t : Leads(d, t) => Leads(c, t)
  BY <1>1, <1>2, <1>3 DEF Leads
<1> QED
  BY <1>4, <1>5

LEMMA FoldLead ==
  ASSUME TypeOK, ShapeInv, ReplaceConstBr
  PROVE  ShapeInv' /\ (LeadInv => LeadInv')
<1>1. /\ order' = order /\ locked' = locked /\ deleted' = deleted /\ emptyCycle' = emptyCycle
      /\ idx' = idx /\ kept' = kept /\ pass = "idle" /\ pass' = "folded"
      /\ stmts' = [b \in Labels |-> IF b \in Live
                     THEN [i \in DOMAIN stmts[b] |-> Folded(stmts[b][i])] ELSE stmts[b]]
  BY DEF ReplaceConstBr
<1>2. Freed' = Freed /\ Live' = Live /\ Alive' = Alive
  BY <1>1 DEF Freed, Live, Alive
<1>3. \A b \in Live : /\ stmts[b] \in Seq(Stmts) /\ EndsOnly(stmts[b])
                      /\ stmts'[b] = [i \in DOMAIN stmts[b] |-> Folded(stmts[b][i])]
  BY <1>1, BlockType DEF ShapeInv, BranchesLast
<1>4. \A b \in Live : EndsOnly(stmts'[b]) /\ \A t : Leads(stmts'[b], t) => Leads(stmts[b], t)
  BY <1>3, FoldedIs
<1>5. ShapeInv'
  BY <1>1, <1>2, <1>4 DEF ShapeInv, BranchesLast, BranchesAdjustable, NotBegun, DeletedRight
<1>6. LeadsToAlive => LeadsToAlive'
  BY <1>2, <1>4 DEF LeadsToAlive, Alive
<1> QED
  BY <1>1, <1>5, <1>6 DEF LeadInv, Rewritings

\* What every step that frees the visited block has in common.
LEMMA DropIs ==
  ASSUME TypeOK, LockInv, idx \in DOMAIN order, Drop
  PROVE  /\ Freed' = Freed \cup {This} /\ Live' = Live /\ Alive' = Alive \ {This}
         /\ order' = order /\ cfg' = cfg /\ pass' = pass /\ emptyCycle' = emptyCycle
         /\ DeletedRight'
<1>1. Freed' = Freed \cup {This}
  BY DropFreesThis DEF LockInv
<1>2. order' = order /\ cfg' = cfg /\ pass' = pass /\ emptyCycle' = emptyCycle
      /\ deleted' = TRUE /\ idx' = idx + 1
  BY DEF Drop
<1>3. idx \in Nat /\ idx >= 1
  BY DEF TypeOK, FuncTypeOK
<1> QED
  BY <1>1, <1>2, <1>3 DEF Live, Alive, DeletedRight

LEMMA EmptyIs ==
  EndsOnly(<<>>) /\ Len(<<>>) = 0 /\ \A t : ~Leads(<<>>, t)
BY DEF EndsOnly, Leads

LEMMA NoPredLead ==
  ASSUME TypeOK, LockInv, ShapeInv, RemoveNoPred
  PROVE  ShapeInv' /\ (LeadInv => LeadInv')
<1>1. idx \in DOMAIN order /\ pass = "no_pred" /\ pass \in Rewritings
  BY DEF RemoveNoPred, Visiting, Rewritings
<1>2. CASE ~Useless(This)
  BY <1>1, <1>2, KeepLead DEF RemoveNoPred
<1>3. CASE Useless(This)
  <2> DEFINE b == This
  <2>1. Drop /\ stmts' = [stmts EXCEPT ![b] = <<>>] /\ locked' = locked
    BY <1>3 DEF RemoveNoPred
  <2>2. Preds(cfg, b) = {}
    BY <1>3 DEF Useless
  <2>3. b \in Alive /\ b \in Live /\ b \in Labels
    BY <1>1, VisitedAlive, BlockType
  <2>4. /\ Freed' = Freed \cup {b} /\ Live' = Live /\ Alive' = Alive \ {b}
        /\ order' = order /\ cfg' = cfg /\ pass' = pass /\ emptyCycle' = emptyCycle
        /\ DeletedRight'
    BY <1>1, <2>1, DropIs
  <2> HIDE DEF b
  <2>5. /\ stmts'[b] = <<>> /\ \A c \in Live \ {b} : stmts'[c] = stmts[c]
    BY <2>1, <2>3, BlockType DEF TypeOK, FuncTypeOK
  <2>6. ShapeInv'
    BY <1>1, <2>4, <2>5, EmptyIs DEF ShapeInv, BranchesLast, BranchesAdjustable, NotBegun
  <2>7. ASSUME ~emptyCycle, LeadInv PROVE LeadInv'
    <3>1. LeadsToAlive /\ CfgOfBlocks /\ CfgRight /\ PredsKnown /\ NoPredFreed /\ ~HasEmptyCycle
      BY <1>1, <2>7 DEF LeadInv
    <3>2. \A c \in Alive \ {b} : stmts'[c] = stmts[c] /\ BlockEdges(c)' = BlockEdges(c)
      BY <2>5 DEF Alive, BlockEdges, StmtEdges
    <3>3. LeadsToAlive'
      <4> SUFFICES ASSUME NEW c \in Alive \ {b}, NEW t \in Labels, Leads(stmts[c], t)
                   PROVE  t \in Alive \ {b}
        BY <2>4, <3>2 DEF LeadsToAlive
      <4>1. t \in Alive
        BY <3>1 DEF LeadsToAlive
      <4>2. c \in PredBlocks(t)
        BY <1>1, <3>1 DEF PredsKnown, NoPredFreed
      <4> QED
        BY <2>2, <4>1, <4>2 DEF PredBlocks
    <3>4. CfgOfBlocks'
      BY <2>4, <3>1 DEF CfgOfBlocks
    <3>5. CfgRight'
      BY <2>4, <3>1, <3>2, SameCfg DEF CfgRight
    <3>6. PredsKnown'
      BY <2>1, <2>4, <3>1, <3>2, SameCfg DEF PredsKnown
    <3>7. NoPredFreed'
      BY <1>1, <2>1, <2>2, <2>4, <3>1, SameCfg DEF NoPredFreed
    <3>8. ~HasEmptyCycle'
      <4> SUFFICES ASSUME NEW cycle \in (SUBSET Live) \ {{}},
                          \A c \in cycle : /\ Len(stmts'[c]) = 1 /\ Len(stmts'[c][1].to) = 1
                                           /\ stmts'[c][1].to[1] \in cycle
                   PROVE  FALSE
        BY <2>4 DEF HasEmptyCycle, OnlyJumps
      <4>1. b \notin cycle
        BY <2>5, EmptyIs
      <4>2. \A c \in cycle : stmts'[c] = stmts[c]
        BY <2>5, <4>1
      <4> QED
        BY <3>1, <4>2 DEF HasEmptyCycle, OnlyJumps
    <3> QED
      BY <3>3, <3>4, <3>5, <3>6, <3>7, <3>8 DEF LeadInv
  <2> QED
    BY <2>4, <2>6, <2>7 DEF LeadInv
<1> QED
  BY <1>2, <1>3

(***************************************************************************)
(* do_merge_block_with_no_cond_br.                                         *)
(***************************************************************************)
\* A block with one statement and one way out only jumps.
LEMMA OneEdge ==
  ASSUME TypeOK, NEW b \in Labels, NEW e, BlockEdges(b) = {e},
         NEW i \in DOMAIN stmts[b], stmts[b][i].to # <<>>
  PROVE  Len(stmts[b][i].to) = 1 /\ stmts[b][i].to[1] = e.to
<1> DEFINE to == stmts[b][i].to
<1>1. to \in Seq(Labels) /\ Len(to) \in Nat /\ DOMAIN to = 1..Len(to)
  BY BlockType, ContentType
<1> DEFINE edge(k) == [from |-> b, at |-> i, arm |-> k, to |-> to[k]]
<1>2. \A k \in DOMAIN to : edge(k) \in BlockEdges(b)
  BY DEF BlockEdges, StmtEdges
<1>3. \A k \in DOMAIN to : edge(k) = e
  BY <1>2
<1>4. \A k \in DOMAIN to : edge(k).arm = k /\ edge(k).to = to[k]
  OBVIOUS
<1>5. \A k \in DOMAIN to : e.arm = k /\ e.to = to[k]
  BY <1>3, <1>4
<1> HIDE DEF to
<1>6. Len(to) # 0
  BY <1>1 DEF to
<1>7. 1 \in DOMAIN to
  BY <1>1, <1>6
<1>8. 2 \notin DOMAIN to
  BY <1>5, <1>7
<1>9. Len(to) = 1
  BY <1>1, <1>6, <1>8
<1> QED
  BY <1>5, <1>7, <1>9 DEF to

LEMMA JumpsTo ==
  ASSUME TypeOK, NEW b \in Labels, NEW e, BlockEdges(b) = {e}, Len(stmts[b]) = 1
  PROVE  OnlyJumps(b) /\ stmts[b][1].to[1] = e.to
<1>1. PICK i \in DOMAIN stmts[b] : e \in StmtEdges(b, i)
  BY DEF BlockEdges
<1>2. stmts[b][i].to # <<>>
  BY <1>1 DEF StmtEdges
<1>3. i = 1
  BY BlockType, ContentType
<1> QED
  BY <1>1, <1>2, <1>3, OneEdge DEF OnlyJumps

\* adjust_label redirects the last statement of each predecessor.
LEMMA AdjustedIs ==
  ASSUME TypeOK, NEW b \in Labels, Succ(b) \in Labels,
         stmts' = [Adjusted(b) EXCEPT ![b] = <<>>]
  PROVE  /\ stmts'[b] = <<>>
         /\ \A c \in Labels \ {b} :
              stmts'[c] = IF c \in PredBlocks(b) THEN Redirect(stmts[c], b, Succ(b)) ELSE stmts[c]
<1>1. DOMAIN Adjusted(b) = Labels
  BY DEF Adjusted
<1>2. stmts'[b] = <<>> /\ \A c \in Labels \ {b} : stmts'[c] = Adjusted(b)[c]
  BY <1>1
<1>3. ASSUME NEW c \in Labels, c \in PredBlocks(b)
      PROVE  Adjusted(b)[c] = Redirect(stmts[c], b, Succ(b))
  <2>1. Adjusted(b)[c] = [stmts[c] EXCEPT ![Len(stmts[c])] = Retarget(stmts[c][Len(stmts[c])], b)]
    BY <1>3 DEF Adjusted
  <2>2. Retarget(stmts[c][Len(stmts[c])], b) = Aim(stmts[c][Len(stmts[c])], b, Succ(b))
    BY DEF Retarget, Aim, Redirected
  <2> QED
    BY <2>1, <2>2 DEF Redirect
<1>4. \A c \in Labels : c \notin PredBlocks(b) => Adjusted(b)[c] = stmts[c]
  BY DEF Adjusted
<1> QED
  BY <1>2, <1>3, <1>4

\* What is known of the block when it is merged into its successor.
LEMMA ForwardsIs ==
  ASSUME TypeOK, LockInv, Visiting("merge_br"), Forwards(This), This \notin locked
  PROVE  /\ Succ(This) \in Labels /\ SuccBlocks(This) = {Succ(This)}
         /\ Succ(This) \notin Freed /\ PredBlocks(This) \cap Freed = {}
         /\ \E e : Succs(cfg, This) = {e} /\ e \in cfg /\ e.to = Succ(This)
<1>1. Succ(This) \in Labels
  BY SuccType DEF Forwards, TypeOK
<1>2. PICK e \in cfg : Succs(cfg, This) = {e} /\ e.from = This
  BY DEF Forwards, HasOne, Succs
<1>3. Succ(This) = e.to
  <2>1. \A x \in cfg : x.from = This => x = e
    BY <1>2 DEF Succs
  <2> QED
    BY <1>2, <2>1 DEF Succ
<1>4. SuccBlocks(This) = {Succ(This)}
  BY <1>2, <1>3 DEF SuccBlocks
<1>5. LockedBy(This) \cap Freed = {}
  BY BrReadsLive DEF MergeBrReadsLive
<1> QED
  BY <1>1, <1>2, <1>3, <1>4, <1>5 DEF LockedBy

LEMMA MergeBrShape ==
  ASSUME TypeOK, LockInv, ShapeInv, MergeBr, Drop, Forwards(This), This \notin locked,
         locked' = Lock(This), stmts' = [Adjusted(This) EXCEPT ![This] = <<>>]
  PROVE  ShapeInv'
<1> DEFINE b == This
           s == Succ(b)
<1>1. idx \in DOMAIN order /\ pass = "merge_br" /\ Visiting("merge_br")
  BY DEF MergeBr, Visiting
<1>2. b \in Live /\ b \in Labels
  BY <1>1, VisitedAlive, BlockType
<1>3. s \in Labels
  BY <1>1, ForwardsIs
<1>4. /\ Freed' = Freed \cup {b} /\ Live' = Live
      /\ cfg' = cfg /\ pass' = pass /\ DeletedRight'
  BY <1>1, DropIs
<1>5. /\ stmts'[b] = <<>>
      /\ \A c \in Labels \ {b} :
           stmts'[c] = IF c \in PredBlocks(b) THEN Redirect(stmts[c], b, s) ELSE stmts[c]
  BY <1>2, <1>3, AdjustedIs
<1> HIDE DEF b, s
<1>6. BranchesLast'
  <2> SUFFICES ASSUME NEW c \in Live PROVE EndsOnly(stmts'[c])
    BY <1>4 DEF BranchesLast
  <2>1. c \in Labels /\ stmts[c] \in Seq(Stmts) /\ EndsOnly(stmts[c])
    BY BlockType DEF ShapeInv, BranchesLast
  <2>2. EndsOnly(Redirect(stmts[c], b, s))
    BY <1>2, <1>3, <2>1, RedirectLeads
  <2>3. stmts'[c] \in {<<>>, stmts[c], Redirect(stmts[c], b, s)}
    BY <1>5, <2>1
  <2> QED
    BY <2>1, <2>2, <2>3, EmptyIs
<1>7. BranchesAdjustable'
  <2> SUFFICES ASSUME NEW e \in cfg, e.from \notin Freed, e.from # b PROVE Adjustable(e.from)'
    BY <1>4 DEF BranchesAdjustable
  <2> DEFINE c == e.from
  <2>1. Adjustable(c) /\ c \in Labels
    BY <1>1 DEF ShapeInv, BranchesAdjustable, TypeOK
  <2> HIDE DEF c
  <2>2. stmts[c] \in Seq(Stmts)
    BY <2>1, BlockType
  <2>3. Len(stmts[c]) \in DOMAIN stmts[c] /\ Len(stmts[c]) > 0
    BY <2>1, <2>2 DEF Adjustable
  <2>4. /\ Len(Redirect(stmts[c], b, s)) = Len(stmts[c])
        /\ Redirect(stmts[c], b, s)[Len(stmts[c])].op = stmts[c][Len(stmts[c])].op
    BY <1>2, <1>3, <2>2, <2>3, RedirectIs
  <2>5. stmts'[c] = stmts[c] \/ stmts'[c] = Redirect(stmts[c], b, s)
    BY <1>5, <2>1 DEF c
  <2>6. Len(stmts'[c]) = Len(stmts[c]) /\ stmts'[c][Len(stmts'[c])].op = stmts[c][Len(stmts[c])].op
    BY <2>4, <2>5
  <2>7. c' = c
    BY DEF c
  <2> QED
    BY <2>1, <2>3, <2>6 DEF Adjustable, Back, c
<1> QED
  BY <1>1, <1>4, <1>6, <1>7 DEF ShapeInv, NotBegun

\* Where the predecessors led to the block they lead to its successor, which is
\* not the block itself: it would be a cycle that does nothing.
LEMMA MergeBrLead ==
  ASSUME TypeOK, LockInv, ShapeInv, MergeBr, Drop, Forwards(This), This \notin locked,
         locked' = Lock(This), stmts' = [Adjusted(This) EXCEPT ![This] = <<>>],
         ~emptyCycle, LeadInv
  PROVE  LeadInv'
<1> DEFINE b == This
           s == Succ(b)
<1>1. idx \in DOMAIN order /\ pass = "merge_br" /\ Visiting("merge_br") /\ pass \in Rewritings
  BY DEF MergeBr, Visiting, Rewritings
<1>2. b \in Live /\ b \in Labels /\ b \in Alive
  BY <1>1, VisitedAlive, BlockType
<1>3. s \in Labels /\ SuccBlocks(b) = {s} /\ s \notin Freed
      /\ \E e : Succs(cfg, b) = {e} /\ e \in cfg /\ e.to = s
  BY <1>1, ForwardsIs
<1>4. /\ Freed' = Freed \cup {b} /\ Live' = Live /\ Alive' = Alive \ {b}
      /\ cfg' = cfg /\ pass' = pass /\ emptyCycle' = emptyCycle
  BY <1>1, DropIs
<1>5. /\ stmts'[b] = <<>>
      /\ \A c \in Labels \ {b} :
           stmts'[c] = IF c \in PredBlocks(b) THEN Redirect(stmts[c], b, s) ELSE stmts[c]
  BY <1>2, <1>3, AdjustedIs
<1>6. LeadsToAlive /\ CfgOfBlocks /\ CfgRight /\ PredsKnown /\ ~HasEmptyCycle
  BY <1>1 DEF LeadInv
<1>7. s \in locked' /\ locked \subseteq locked' /\ b \notin locked /\ Len(stmts[b]) = 1
  BY DEF Lock, LockedBy, Forwards
<1> HIDE DEF b, s
<1>8. OnlyJumps(b) /\ stmts[b][1].to[1] = s
  <2>1. PICK e : Succs(cfg, b) = {e} /\ e.to = s
    BY <1>3
  <2>2. BlockEdges(b) = {e}
    BY <1>2, <1>3, <1>6, <2>1 DEF CfgRight
  <2> QED
    BY <1>2, <1>7, <2>1, <2>2, JumpsTo
<1>9. s # b
  <2> SUFFICES ASSUME s = b PROVE FALSE
    OBVIOUS
  <2>1. {b} \in (SUBSET Live) \ {{}} /\ \A c \in {b} : OnlyJumps(c) /\ stmts[c][1].to[1] \in {b}
    BY <1>2, <1>8
  <2> QED
    BY <1>6, <2>1 DEF HasEmptyCycle
<1>10. s \in Alive'
  BY <1>3, <1>4, <1>6, <1>9 DEF CfgOfBlocks, Alive
<1>11. Alive \subseteq Labels
  BY BlockType
<1>12. \A c \in Alive \ {b} : \A t \in Labels :
         Leads(stmts'[c], t) => t = s \/ (t # b /\ Leads(stmts[c], t))
  <2> SUFFICES ASSUME NEW c \in Alive \ {b}, NEW t \in Labels, Leads(stmts'[c], t)
               PROVE  t = s \/ (t # b /\ Leads(stmts[c], t))
    OBVIOUS
  <2>1. c \in Labels /\ stmts[c] \in Seq(Stmts) /\ EndsOnly(stmts[c])
    BY <1>11, BlockType DEF ShapeInv, BranchesLast
  <2>2. CASE c \in PredBlocks(b)
    BY <1>2, <1>3, <1>5, <2>1, <2>2, RedirectLeads
  <2>3. CASE c \notin PredBlocks(b)
    <3>1. stmts'[c] = stmts[c]
      BY <1>5, <2>1, <2>3
    <3>2. ~Leads(stmts[c], b)
      BY <1>2, <1>6, <1>7, <2>3 DEF PredsKnown
    <3> QED
      BY <3>1, <3>2
  <2> QED
    BY <2>2, <2>3
<1>13. LeadsToAlive'
  <2> SUFFICES ASSUME NEW c \in Alive \ {b}, NEW t \in Labels, Leads(stmts'[c], t)
               PROVE  t \in Alive'
    BY <1>4 DEF LeadsToAlive
  <2>1. t = s \/ (t # b /\ Leads(stmts[c], t))
    BY <1>12
  <2> QED
    BY <1>4, <1>6, <1>10, <2>1 DEF LeadsToAlive
<1>14. CfgOfBlocks'
  BY <1>4, <1>6 DEF CfgOfBlocks
<1>15. CfgRight'
  <2> SUFFICES ASSUME NEW c \in Alive \ {b}, SuccBlocks(c) \cap (Freed \cup {b}) = {}
               PROVE  BlockEdges(c)' = Succs(cfg, c)
    BY <1>4, SameCfg DEF CfgRight
  <2>1. c \notin PredBlocks(b)
    BY DEF PredBlocks, Preds, SuccBlocks, Succs
  <2>2. stmts'[c] = stmts[c]
    BY <1>5, <1>11, <2>1
  <2>3. BlockEdges(c)' = BlockEdges(c)
    BY <2>2 DEF BlockEdges, StmtEdges
  <2> QED
    BY <1>6, <2>3 DEF CfgRight
<1>16. PredsKnown'
  <2> SUFFICES ASSUME NEW c \in Alive \ {b}, NEW t \in Labels, Leads(stmts'[c], t)
               PROVE  t \in locked' \/ c \in PredBlocks(t)
    BY <1>4, SameCfg DEF PredsKnown
  <2>1. t = s \/ Leads(stmts[c], t)
    BY <1>12
  <2> QED
    BY <1>6, <1>7, <2>1 DEF PredsKnown
<1>17. NoPredFreed'
  BY <1>1, <1>4 DEF NoPredFreed
<1>18. ~HasEmptyCycle'
  <2> SUFFICES ASSUME NEW cycle \in (SUBSET Live) \ {{}},
                      \A c \in cycle : /\ Len(stmts'[c]) = 1 /\ Len(stmts'[c][1].to) = 1
                                       /\ stmts'[c][1].to[1] \in cycle
               PROVE  FALSE
    BY <1>4 DEF HasEmptyCycle, OnlyJumps
  <2>1. b \notin cycle /\ cycle \subseteq Labels
    BY <1>5, EmptyIs, BlockType
  <2>2. \A c \in cycle : OnlyJumps(c) /\ stmts'[c][1].to[1] = IF stmts[c][1].to[1] = b THEN s
                                                            ELSE stmts[c][1].to[1]
    <3> SUFFICES ASSUME NEW c \in cycle
                 PROVE  OnlyJumps(c) /\ stmts'[c][1].to[1] = IF stmts[c][1].to[1] = b THEN s
                                                             ELSE stmts[c][1].to[1]
      OBVIOUS
    <3>1. c \in Labels /\ c # b /\ c \in Live
      BY <2>1
    <3>2. CASE c \in PredBlocks(b)
      <4>1. stmts[c] \in Seq(Stmts) /\ stmts'[c] = Redirect(stmts[c], b, s)
        BY <1>5, <3>1, <3>2, BlockType
      <4>2. Len(stmts[c]) = 1 /\ 1 \in DOMAIN stmts[c] /\ stmts[c] # <<>>
        BY <1>2, <1>3, <4>1, RedirectIs
      <4>3. stmts'[c][1].to = Redirected(stmts[c][1].to, b, s) /\ stmts[c][1].to \in Seq(Labels)
        BY <1>2, <1>3, <4>1, <4>2, RedirectIs, ContentType
      <4>4. PICK to \in Seq(Labels) : to = stmts[c][1].to
        BY <4>3
      <4>5. PICK new \in Seq(Labels) : new = Redirected(to, b, s)
        BY <1>2, <1>3, RedirectedIs
      <4>6. /\ Len(new) = Len(to)
            /\ Len(to) = 1 => new[1] = IF to[1] = b THEN s ELSE to[1]
        BY <1>2, <1>3, <4>5, RedirectedIs
      <4>7. stmts'[c][1].to = new
        BY <4>3, <4>4, <4>5
      <4> QED
        BY <4>2, <4>4, <4>6, <4>7 DEF OnlyJumps
    <3>3. CASE c \notin PredBlocks(b)
      <4>1. stmts'[c] = stmts[c] /\ OnlyJumps(c)
        BY <1>5, <3>1, <3>3 DEF OnlyJumps
      <4>2. stmts[c][1].to[1] # b
        BY <2>1, <4>1
      <4> QED
        BY <4>1, <4>2
    <3> QED
      BY <3>2, <3>3
  <2>3. CASE \E c \in cycle : stmts[c][1].to[1] = b
    <3>1. s \in cycle
      BY <2>2, <2>3
    <3>2. cycle \cup {b} \in (SUBSET Live) \ {{}}
      BY <1>2
    <3>3. \A c \in cycle \cup {b} : OnlyJumps(c) /\ stmts[c][1].to[1] \in cycle \cup {b}
      BY <1>8, <2>2, <3>1
    <3> QED
      BY <1>6, <3>2, <3>3 DEF HasEmptyCycle
  <2>4. CASE \A c \in cycle : stmts[c][1].to[1] # b
    <3>1. \A c \in cycle : OnlyJumps(c) /\ stmts[c][1].to[1] \in cycle
      BY <2>2, <2>4
    <3> QED
      BY <1>6, <3>1 DEF HasEmptyCycle
  <2> QED
    BY <2>3, <2>4
<1> QED
  BY <1>13, <1>14, <1>15, <1>16, <1>17, <1>18 DEF LeadInv

(***************************************************************************)
(* do_merge_if_pred_has_only_one_succ.                                     *)
(***************************************************************************)
\* What is known of a block and its predecessor when one goes into the other.
LEMMA FollowsIs ==
  ASSUME TypeOK, LockInv, Visiting("merge_pred"), Follows(This)
  PROVE  \E p \in Labels :
           /\ p = CHOOSE q \in PredBlocks(This) : TRUE
           /\ PredBlocks(This) = {p} /\ p \notin Freed
           /\ \E e \in cfg : Succs(cfg, p) = {e} /\ e.from = p /\ e.to = This
           /\ SuccBlocks(p) = {This}
<1>1. PICK e \in cfg : Preds(cfg, This) = {e} /\ e.to = This
  BY DEF Follows, HasOne, Preds
<1>2. PredBlocks(This) = {e.from}
  BY <1>1 DEF PredBlocks
<1>3. PICK p : p = e.from
  OBVIOUS
<1>4. p = CHOOSE q \in PredBlocks(This) : TRUE
  BY <1>2, <1>3
<1>5. p \in Labels
  BY <1>1, <1>3 DEF TypeOK
<1>6. p \notin Freed
  BY <1>2, <1>3, PredWritesLive DEF MergePredWritesLive
<1>7. HasOne(Succs(cfg, p)) /\ e \in Succs(cfg, p)
  BY <1>1, <1>2, <1>3 DEF Follows, Succs
<1>8. Succs(cfg, p) = {e}
  BY <1>7 DEF HasOne
<1>9. SuccBlocks(p) = {This}
  BY <1>1, <1>8 DEF SuccBlocks
<1> QED
  BY <1>1, <1>2, <1>3, <1>4, <1>5, <1>6, <1>8, <1>9

\* It frees the block and leaves its statements behind those of p, if p is
\* another block.
Moved(p, b) ==
  /\ stmts' = [stmts EXCEPT ![p] = Joined(p, b), ![b] = <<>>]
  /\ \E read \in SUBSET (SuccBlocks(b) \cap Freed) :
       locked' = locked \cup (SuccBlocks(b) \ Freed) \cup read

LEMMA MovedIs ==
  ASSUME TypeOK, NEW p \in Labels, NEW b \in Labels, Moved(p, b)
  PROVE  /\ stmts'[b] = <<>>
         /\ p # b => stmts'[p] = Join(stmts[p], stmts[b])
         /\ \A c \in Labels \ {p, b} : stmts'[c] = stmts[c]
         /\ locked \cup (SuccBlocks(b) \ Freed) \subseteq locked'
<1>1. DOMAIN stmts = Labels
  BY DEF TypeOK, FuncTypeOK
<1>2. locked \cup (SuccBlocks(b) \ Freed) \subseteq locked'
  BY DEF Moved
<1> QED
  BY <1>1, <1>2 DEF Moved, Joined, Join

LEMMA MergePredLead ==
  ASSUME TypeOK, LockInv, ShapeInv, Visiting("merge_pred"), Drop, Follows(This),
         NEW p \in Labels, p = CHOOSE q \in PredBlocks(This) : TRUE, Moved(p, This)
  PROVE  ShapeInv' /\ (LeadInv /\ ~emptyCycle => LeadInv')
<1> DEFINE b == This
<1>1. idx \in DOMAIN order /\ pass = "merge_pred" /\ pass \in Rewritings
  BY DEF Visiting, Rewritings
<1>2. b \in Live /\ b \in Labels /\ b \in Alive
  BY <1>1, VisitedAlive, BlockType
<1>3. /\ PredBlocks(b) = {p} /\ p \notin Freed /\ SuccBlocks(p) = {b}
      /\ \E e \in cfg : Succs(cfg, p) = {e} /\ e.from = p /\ e.to = b
  BY FollowsIs
<1>4. /\ Freed' = Freed \cup {b} /\ Live' = Live /\ Alive' = Alive \ {b}
      /\ cfg' = cfg /\ pass' = pass /\ emptyCycle' = emptyCycle /\ DeletedRight'
  BY <1>1, DropIs
<1>5. /\ stmts'[b] = <<>>
      /\ p # b => stmts'[p] = Join(stmts[p], stmts[b])
      /\ \A c \in Labels \ {p, b} : stmts'[c] = stmts[c]
      /\ locked \cup (SuccBlocks(b) \ Freed) \subseteq locked'
  BY <1>2, MovedIs
<1>6. b \notin locked
  BY DEF Follows
<1> HIDE DEF b
<1>7. Live \subseteq Labels /\ \A c \in Live : stmts[c] \in Seq(Stmts) /\ EndsOnly(stmts[c])
  BY BlockType DEF ShapeInv, BranchesLast
<1>8. ASSUME NEW c \in Live PROVE EndsOnly(stmts'[c])
  <2>1. CASE c = b
    BY <1>5, <2>1, EmptyIs
  <2>2. CASE c = p /\ p # b
    <3>1. CASE stmts[p] = <<>>
      <4>1. Join(stmts[p], stmts[b]) = stmts[b]
        BY <1>2, <1>7, <3>1 DEF Join
      <4> QED
        BY <1>2, <1>5, <1>7, <2>2, <4>1
    <3>2. CASE stmts[p] # <<>>
      BY <1>2, <1>5, <1>7, <2>2, <3>2, JoinLeads
    <3> QED
      BY <3>1, <3>2
  <2>3. CASE c \notin {p, b}
    BY <1>5, <1>7, <2>3
  <2> QED
    BY <2>1, <2>2, <2>3
<1>9. BranchesAdjustable'
  <2> SUFFICES ASSUME NEW e \in cfg, e.from \notin Freed \cup {b}, e.to \notin Freed \cup {b}
               PROVE  Adjustable(e.from)'
    BY <1>1, <1>4 DEF BranchesAdjustable
  <2> DEFINE c == e.from
  <2>1. c # p
    BY <1>3 DEF SuccBlocks, Succs
  <2>2. Adjustable(c) /\ c \in Labels
    BY <1>1 DEF ShapeInv, BranchesAdjustable, TypeOK
  <2>3. stmts'[c] = stmts[c]
    BY <1>5, <2>1, <2>2
  <2> QED
    BY <2>2, <2>3 DEF Adjustable, Back
<1>10. ShapeInv'
  BY <1>1, <1>4, <1>8, <1>9 DEF ShapeInv, BranchesLast, BranchesAdjustable, NotBegun
<1>11. ASSUME LeadInv, ~emptyCycle PROVE LeadInv'
  <2>1. LeadsToAlive /\ CfgOfBlocks /\ CfgRight /\ PredsKnown /\ ~HasEmptyCycle
    BY <1>1, <1>11 DEF LeadInv
  <2>2. p \in Alive
    BY <1>3, <2>1 DEF CfgOfBlocks, Alive
  <2>3. BlockEdges(p) = Succs(cfg, p)
    BY <1>2, <1>3, <2>1, <2>2 DEF CfgRight, Alive
  <2>4. PICK e : BlockEdges(p) = {e} /\ e.to = b
    BY <1>3, <2>3
  <2>5. e \in BlockEdges(p)
    BY <2>4
  <2>6. PICK i \in DOMAIN stmts[p] : e \in StmtEdges(p, i)
    BY <2>5 DEF BlockEdges
  <2>7. stmts[p][i].to # <<>>
    BY <2>6 DEF StmtEdges
  <2>8. i = Len(stmts[p]) /\ stmts[p] # <<>> /\ Len(stmts[p]) \in Nat \ {0}
    BY <1>7, <2>2, <2>6, <2>7, ContentType DEF EndsOnly, Alive
  <2>9. Len(stmts[p][i].to) = 1 /\ stmts[p][i].to[1] = b
    BY <2>4, <2>6, <2>7, OneEdge
  \* Nothing but p leads to b, and b does not lead to itself.
  <2>10. \A c \in Alive : Leads(stmts[c], b) => c = p
    BY <1>2, <1>3, <1>6, <2>1 DEF PredsKnown
  <2>11. ASSUME NEW c \in Alive \ {b}, NEW t \in Labels, Leads(stmts'[c], t)
        PROVE  /\ t \in Alive \ {b}
               /\ t \in locked' \/ c \in PredBlocks(t)
    <3>1. CASE c = p
      <4>1. Leads(stmts[b], t)
        <5>1. stmts'[c] = Join(stmts[p], stmts[b])
          BY <1>5, <2>11, <3>1
        <5> QED
          BY <1>2, <1>7, <2>2, <2>8, <2>11, <5>1, JoinLeads DEF Alive
      <4>2. t \in Alive /\ (t \in locked \/ b \in PredBlocks(t))
        BY <1>2, <2>1, <4>1 DEF LeadsToAlive, PredsKnown
      <4>3. t # b
        BY <1>2, <2>10, <2>11, <3>1, <4>1
      <4>4. b \in PredBlocks(t) => t \in SuccBlocks(b)
        BY DEF PredBlocks, Preds, SuccBlocks, Succs
      <4> QED
        BY <1>5, <4>2, <4>3, <4>4 DEF Alive
    <3>2. CASE c # p
      <4>1. stmts'[c] = stmts[c]
        BY <1>5, <1>7, <2>11, <3>2 DEF Alive
      <4>2. t # b
        BY <2>10, <2>11, <3>2, <4>1
      <4> QED
        BY <1>5, <2>1, <2>11, <4>1, <4>2 DEF LeadsToAlive, PredsKnown
    <3> QED
      BY <3>1, <3>2
  <2>12. LeadsToAlive'
    BY <1>4, <2>11 DEF LeadsToAlive
  <2>13. PredsKnown'
    BY <1>4, <2>11, SameCfg DEF PredsKnown
  <2>14. CfgOfBlocks' /\ NoPredFreed'
    BY <1>1, <1>4, <2>1 DEF CfgOfBlocks, NoPredFreed
  <2>15. CfgRight'
    <3> SUFFICES ASSUME NEW c \in Alive \ {b}, SuccBlocks(c) \cap (Freed \cup {b}) = {}
                 PROVE  BlockEdges(c)' = Succs(cfg, c)
      BY <1>4, SameCfg DEF CfgRight
    <3>1. stmts'[c] = stmts[c]
      BY <1>3, <1>5, <1>7 DEF Alive
    <3>2. BlockEdges(c)' = BlockEdges(c)
      BY <3>1 DEF BlockEdges, StmtEdges
    <3> QED
      BY <2>1, <3>2 DEF CfgRight
  <2>16. ~HasEmptyCycle'
    <3> SUFFICES ASSUME NEW cycle \in (SUBSET Live) \ {{}},
                        \A c \in cycle : /\ Len(stmts'[c]) = 1 /\ Len(stmts'[c][1].to) = 1
                                         /\ stmts'[c][1].to[1] \in cycle
                 PROVE  FALSE
      BY <1>4 DEF HasEmptyCycle, OnlyJumps
    <3>1. b \notin cycle
      BY <1>5, EmptyIs
    <3>2. \A c \in cycle \ {p} : OnlyJumps(c) /\ stmts[c][1].to[1] \in cycle
      BY <1>5, <1>7, <3>1 DEF OnlyJumps
    <3>3. CASE p \notin cycle
      BY <2>1, <3>2, <3>3 DEF HasEmptyCycle
    <3>4. CASE p \in cycle
      <4>1. stmts'[p] = Join(stmts[p], stmts[b]) /\ stmts[p] \in Seq(Stmts)
        BY <1>5, <1>7, <3>1, <3>4
      <4>2. PICK m \in Nat : Len(stmts[p]) = m + 1
        <5>1. Len(stmts[p]) - 1 \in Nat /\ Len(stmts[p]) = (Len(stmts[p]) - 1) + 1
          BY <2>8
        <5> QED
          BY <5>1
      <4>3. PICK n \in Nat : n = Len(stmts[b])
        BY <1>2, <1>7
      <4>4. /\ m + n = 1
            /\ \A k \in 1..m : stmts'[p][k] = stmts[p][k]
            /\ \A k \in 1..n : stmts'[p][m + k] = stmts[b][k]
        <5>1. Len(stmts[p]) - 1 = m
          BY <4>2
        <5>2. PICK c \in Seq(Stmts) : c = stmts[p]
          BY <4>1
        <5>3. PICK d \in Seq(Stmts) : d = stmts[b]
          BY <1>2, <1>7
        <5>4. /\ Len(Join(c, d)) = Len(c) - 1 + Len(d)
              /\ \A k \in 1..Len(c) - 1 : Join(c, d)[k] = c[k]
              /\ \A k \in 1..Len(d) : Join(c, d)[Len(c) - 1 + k] = d[k]
          BY <2>8, <5>2, JoinIs
        <5>5. Len(Join(c, d)) = 1
          BY <3>4, <4>1, <5>2, <5>3
        <5>6. PICK j : j = Join(c, d)
          OBVIOUS
        <5>7. Len(c) - 1 = m /\ Len(d) = n /\ stmts'[p] = j
          BY <4>1, <4>3, <5>1, <5>2, <5>3, <5>6
        <5>8. /\ Len(j) = m + n /\ Len(j) = 1
              /\ \A k \in 1..m : j[k] = c[k]
              /\ \A k \in 1..n : j[m + k] = d[k]
          BY <5>4, <5>5, <5>6, <5>7
        <5>9. m + n = 1
          BY <5>8
        <5>10. \A k \in 1..m : stmts'[p][k] = stmts[p][k]
          BY <5>2, <5>7, <5>8
        <5>11. \A k \in 1..n : stmts'[p][m + k] = stmts[b][k]
          BY <5>3, <5>7, <5>8
        <5> QED
          BY <5>9, <5>10, <5>11
      <4>5. m = 0
        <5> SUFFICES ASSUME m # 0 PROVE FALSE
          OBVIOUS
        <5>1. 1 \in 1..m /\ 1 \in DOMAIN stmts[p] /\ 1 # Len(stmts[p])
          BY <4>1, <4>2
        <5>2. stmts[p][1].to = <<>>
          BY <1>7, <3>4, <5>1 DEF EndsOnly
        <5>3. stmts'[p][1].to = <<>>
          BY <4>4, <5>1, <5>2
        <5> QED
          BY <3>4, <5>3
      <4>6. n = 1 /\ stmts'[p][1] = stmts[b][1]
        BY <4>4, <4>5
      <4>7. OnlyJumps(b) /\ stmts[b][1].to[1] \in cycle
        BY <3>4, <4>3, <4>6 DEF OnlyJumps
      <4>8. OnlyJumps(p) /\ stmts[p][1].to[1] = b
        BY <2>8, <2>9, <4>2, <4>5 DEF OnlyJumps
      <4>9. cycle \cup {b} \in (SUBSET Live) \ {{}}
        BY <1>2
      <4>10. \A c \in cycle \cup {b} : OnlyJumps(c) /\ stmts[c][1].to[1] \in cycle \cup {b}
        BY <3>2, <4>7, <4>8
      <4> QED
        BY <2>1, <4>9, <4>10 DEF HasEmptyCycle
    <3> QED
      BY <3>3, <3>4
  <2> QED
    BY <2>12, <2>13, <2>14, <2>15, <2>16 DEF LeadInv
<1> QED
  BY <1>10, <1>11

-----------------------------------------------------------------------------
(***************************************************************************)
(* All steps.                                                              *)
(***************************************************************************)
LEMMA MergeBrStep ==
  ASSUME TypeOK, LockInv, ShapeInv, MergeBr
  PROVE  ShapeInv' /\ (LeadInv => LeadInv')
<1>1. idx \in DOMAIN order /\ pass \in Rewritings
  BY DEF MergeBr, Visiting, Rewritings
<1>2. CASE ~(Forwards(This) /\ This \notin locked)
  BY <1>1, <1>2, KeepLead DEF MergeBr
<1>3. CASE pass' = "panic" /\ UNCHANGED <<order, stmts, cfg, idx, kept, locked, deleted,
                                          progress, emptyCycle, bootstrap>>
  BY <1>3, StopLead DEF Ends
<1>4. CASE /\ Forwards(This) /\ This \notin locked /\ Drop /\ locked' = Lock(This)
           /\ stmts' = [Adjusted(This) EXCEPT ![This] = <<>>]
  <2>1. ShapeInv'
    BY <1>4, MergeBrShape
  <2>2. CASE emptyCycle
    BY <1>4, <2>1, <2>2 DEF LeadInv, Drop
  <2>3. CASE ~emptyCycle
    BY <1>4, <2>1, <2>3, MergeBrLead
  <2> QED
    BY <2>2, <2>3
<1> QED
  BY <1>2, <1>3, <1>4 DEF MergeBr

LEMMA MergePredStep ==
  ASSUME TypeOK, LockInv, ShapeInv, MergePred
  PROVE  ShapeInv' /\ (LeadInv => LeadInv')
<1>1. idx \in DOMAIN order /\ pass \in Rewritings /\ Visiting("merge_pred")
  BY DEF MergePred, Visiting, Rewritings
<1>2. CASE ~Follows(This)
  BY <1>1, <1>2, KeepLead DEF MergePred
<1>3. CASE Follows(This)
  <2>1. PICK p \in Labels : p = CHOOSE q \in PredBlocks(This) : TRUE
    BY <1>1, <1>3, FollowsIs
  <2>2. CASE pass' = "copying" /\ UNCHANGED <<order, stmts, cfg, idx, kept, locked, deleted,
                                              progress, emptyCycle, bootstrap>>
    BY <2>2, StopLead DEF Ends
  <2>3. CASE Drop /\ Moved(p, This)
    <3>1. ShapeInv' /\ (LeadInv /\ ~emptyCycle => LeadInv')
      BY <1>1, <1>3, <2>1, <2>3, MergePredLead
    <3>2. emptyCycle' = emptyCycle
      BY <2>3 DEF Drop
    <3> QED
      BY <3>1, <3>2 DEF LeadInv
  <2> QED
    BY <1>3, <2>1, <2>2, <2>3 DEF MergePred, Moved
<1> QED
  BY <1>2, <1>3

LEMMA LeadStep ==
  ASSUME TypeOK, LockInv, ShapeInv, [Next]_vars
  PROVE  ShapeInv' /\ (LeadInv => LeadInv')
<1>1. TypeOK'
  BY TypeStep
<1>2. CASE ReplaceConstBr
  BY <1>2, FoldLead
<1>3. CASE Begin
  BY <1>1, <1>3, BeginLead DEF Begin
<1>4. CASE BeginBootstrap
  BY <1>1, <1>4, BeginLead DEF BeginBootstrap
<1>5. CASE RemoveNoPred
  BY <1>5, NoPredLead
<1>6. CASE MergeBr
  BY <1>6, MergeBrStep
<1>7. CASE MergePred
  BY <1>7, MergePredStep
<1>8. CASE Again
  BY <1>1, <1>8, AgainLead
<1>9. CASE Advance
  BY <1>1, <1>9, AdvanceLead
<1>10. CASE UNCHANGED vars
  BY <1>10, StutterLead
<1> QED
  BY <1>2, <1>3, <1>4, <1>5, <1>6, <1>7, <1>8, <1>9, <1>10 DEF Next, Simplify, Terminating

LEMMA LeadInit ==
  ASSUME Init PROVE ShapeInv /\ LeadInv
<1>1. PICK f \in Funcs : order = f.order /\ stmts = f.stmts
  BY DEF Init
<1>2. TypeOK /\ idx = 1 /\ kept = <<>> /\ locked = {} /\ deleted = FALSE /\ emptyCycle = FALSE
      /\ pass = "idle"
  BY TypeInit DEF Init, Idle
<1>3. Freed = {} /\ Alive = Live
  BY <1>2 DEF Freed, Alive
<1>4. Live = Range(f.order)
  BY <1>1 DEF Live
<1>5. \A b \in Live : \A i \in DOMAIN stmts[b] :
        /\ Range(stmts[b][i].to) \subseteq Live
        /\ stmts[b][i].to # <<>> => i = Len(stmts[b])
  BY <1>1, <1>4, FuncsWellFormed
<1>6. BranchesLast /\ LeadsToAlive
  BY <1>3, <1>5 DEF BranchesLast, EndsOnly, LeadsToAlive, Leads
<1> QED
  BY <1>2, <1>3, <1>6
     DEF ShapeInv, LeadInv, BranchesAdjustable, NotBegun, DeletedRight, Rewritings

\* What holds of the blocks and the graph in every state.
LEMMA LeadAlways == Spec => [](TypeOK /\ LockInv /\ ShapeInv /\ LeadInv)
<1>1. TypeOK /\ LockInv /\ ShapeInv /\ LeadInv /\ [Next]_vars => (ShapeInv /\ LeadInv)'
  BY LeadStep
<1> QED
  BY <1>1, LeadInit, TypeCorrect, LocksCorrect, PTL DEF Spec

LEMMA PanicStep ==
  ASSUME TypeOK, LockInv, ShapeInv, NeverPanics, [Next]_vars
  PROVE  NeverPanics'
<1> SUFFICES ASSUME pass' = "panic" PROVE FALSE
  BY DEF NeverPanics
<1>1. MergeBr
  BY DEF Next, Simplify, Terminating, ReplaceConstBr, Begin, BeginBootstrap, StartRewriting,
         RemoveNoPred, MergePred, Keep, Drop, Again, Advance, NextPass, Rewritings, vars,
         NeverPanics, Visiting
<1>2. /\ Visiting("merge_br") /\ pass = "merge_br" /\ Forwards(This) /\ This \notin locked
      /\ \E p \in PredBlocks(This) : ~Adjustable(p)
  BY <1>1 DEF MergeBr, Visiting, Keep, Drop
<1>3. PICK p \in PredBlocks(This) : ~Adjustable(p)
  BY <1>2
<1>4. p \notin Freed
  BY <1>2, ForwardsIs
<1>5. PICK e \in cfg : e.from = p
  BY DEF PredBlocks, Preds
<1> QED
  BY <1>2, <1>3, <1>4, <1>5 DEF ShapeInv, BranchesAdjustable

\* adjust_label never reaches its unreachable(): whatever function the passes get,
\* and whatever they have already done to it, the predecessors it redirects end
\* with a br, a br_cond or a switch.
THEOREM NoPanic == Spec => []NeverPanics
<1>1. Init => NeverPanics
  BY DEF Init, Idle, NeverPanics
<1>2. TypeOK /\ LockInv /\ ShapeInv /\ NeverPanics /\ [Next]_vars => NeverPanics'
  BY PanicStep
<1> QED
  BY <1>1, <1>2, LeadAlways, PTL DEF Spec

LEMMA RestLeads ==
  ASSUME TypeOK, LeadInv PROVE BranchesLeadUnlessEmptyCycle
<1> SUFFICES ASSUME ~emptyCycle, AtRest, NEW b \in Live, NEW i \in DOMAIN stmts[b]
             PROVE  Range(stmts[b][i].to) \subseteq Live
  BY DEF BranchesLeadUnlessEmptyCycle, BranchesLead, TargetsLive
<1>1. Freed = {} /\ Alive = Live
  BY DEF Freed, AtRest, Alive
<1>2. stmts[b][i].to \in Seq(Labels)
  BY BlockType, ContentType
<1>3. Range(stmts[b][i].to) \subseteq Labels
  BY <1>2 DEF Range
<1> QED
  BY <1>1, <1>3 DEF LeadInv, LeadsToAlive, Leads

\* No rewriting leaves a branch to a block that is gone, unless the function had
\* blocks that jump to one another without doing anything: then
\* do_merge_block_with_no_cond_br removes the last of them, which jumps to itself.
THEOREM BranchesLeadSomewhere == Spec => []BranchesLeadUnlessEmptyCycle
BY LeadAlways, RestLeads, PTL

-----------------------------------------------------------------------------
(***************************************************************************)
(* The entry block.  The generator leaves no branch to it and, for a       *)
(* function with a parameter, an instruction in front of its branch.       *)
(***************************************************************************)
EntryInv ==
  /\ order # <<>> /\ Entry \notin Freed
  /\ stmts[Entry] # <<>> /\ stmts[Entry][1].op = "inst"
  /\ \A b \in Live : ~Leads(stmts[b], Entry)
  /\ pass \in Rewritings => Preds(cfg, Entry) = {}
  /\ idx > 1 => kept # <<>> /\ kept[1] = Entry

LEMMA EntryIs ==
  ASSUME TypeOK, order # <<>>
  PROVE  /\ 1 \in DOMAIN order /\ Entry \in Live /\ Entry \in Labels
         /\ idx = 1 => This = Entry
         /\ stmts[Entry] # <<>> => 1 \in DOMAIN stmts[Entry] /\ Len(stmts[Entry]) \in Nat \ {0}
<1>1. order \in Seq(Labels) /\ 1 \in DOMAIN order
  BY DEF TypeOK, FuncTypeOK
<1>2. Entry \in Live /\ Entry \in Labels /\ idx = 1 => This = Entry
  BY <1>1 DEF Entry, Live, Range, This
<1>3. Entry \in Live /\ Entry \in Labels
  BY <1>1 DEF Entry, Live, Range
<1>4. stmts[Entry] \in Seq(Stmts)
  BY <1>3, BlockType
<1> QED
  BY <1>1, <1>3, <1>4 DEF This, Entry

LEMMA EntryCfg ==
  ASSUME TypeOK, cfg = ControlFlow, \A b \in Live : ~Leads(stmts[b], Entry)
  PROVE  Preds(cfg, Entry) = {}
<1> SUFFICES ASSUME NEW e \in cfg, e.to = Entry PROVE FALSE
  BY DEF Preds
<1>1. PICK b \in Live : e \in BlockEdges(b)
  BY DEF ControlFlow
<1>2. Leads(stmts[b], e.to)
  BY <1>1, BlockType, EdgesAre
<1> QED
  BY <1>2

LEMMA EntryCfgNext ==
  (TypeOK /\ cfg = ControlFlow /\ (\A b \in Live : ~Leads(stmts[b], Entry))
     => Preds(cfg, Entry) = {})'
<1>1. TypeOK /\ cfg = ControlFlow /\ (\A b \in Live : ~Leads(stmts[b], Entry))
        => Preds(cfg, Entry) = {}
  BY EntryCfg
<1> QED
  BY <1>1, PTL

\* Steps that leave the blocks where they are.
LEMMA EntrySame ==
  ASSUME EntryInv, UNCHANGED <<order, stmts, idx, kept>>,
         pass' \in Rewritings => (pass \in Rewritings /\ cfg' = cfg) \/ Preds(cfg', Entry) = {}
  PROVE  EntryInv'
<1>1. Entry' = Entry /\ Live' = Live /\ Freed' = Freed
  BY DEF Entry, Live, Freed
<1>2. Preds(cfg, Entry)' = Preds(cfg', Entry)
  BY <1>1 DEF Preds
<1> QED
  BY <1>1, <1>2 DEF EntryInv

LEMMA EntryKeep ==
  ASSUME TypeOK, LockInv, EntryInv, idx \in DOMAIN order, Keep
  PROVE  EntryInv'
<1>1. /\ kept' = Append(kept, This) /\ idx' = idx + 1 /\ order' = order /\ stmts' = stmts
      /\ pass' = pass /\ cfg' = cfg
  BY DEF Keep
<1>2. Freed' = Freed
  BY KeepFreesNothing DEF LockInv
<1>3. Entry' = Entry /\ Live' = Live /\ Preds(cfg, Entry)' = Preds(cfg, Entry)
  BY <1>1 DEF Entry, Live, Preds
<1>4. kept \in Seq(Labels) /\ idx \in Nat /\ idx >= 1 /\ This \in Labels
  BY DEF TypeOK, FuncTypeOK, This
<1>5. kept' # <<>>
  BY <1>1, <1>4
<1>6. kept'[1] = Entry
  <2>1. CASE idx = 1
    <3>1. 1..idx - 1 = {}
      BY <2>1
    <3>2. Range(kept) = {}
      BY <3>1 DEF LockInv, KeptInOrder
    <3>3. kept = <<>>
      <4> SUFFICES ASSUME kept # <<>> PROVE FALSE
        OBVIOUS
      <4>1. kept[1] \in Range(kept)
        BY <1>4 DEF Range
      <4> QED
        BY <3>2, <4>1
    <3>4. This = Entry
      BY <2>1 DEF This, Entry
    <3> QED
      BY <1>1, <1>4, <3>3, <3>4
  <2>2. CASE idx > 1
    <3>1. kept # <<>> /\ kept[1] = Entry
      BY <2>2 DEF EntryInv
    <3> QED
      BY <1>1, <1>4, <3>1
  <2> QED
    BY <1>4, <2>1, <2>2
<1> QED
  BY <1>1, <1>2, <1>3, <1>5, <1>6 DEF EntryInv

\* A step that frees another block.
LEMMA EntryDrop ==
  ASSUME TypeOK, LockInv, EntryInv, idx \in DOMAIN order, Drop, This # Entry,
         stmts'[Entry] # <<>>, stmts'[Entry][1].op = "inst",
         \A b \in Live : ~Leads(stmts'[b], Entry)
  PROVE  EntryInv'
<1>1. /\ kept' = kept /\ idx' = idx + 1 /\ order' = order /\ pass' = pass /\ cfg' = cfg
  BY DEF Drop
<1>2. Freed' = Freed \cup {This}
  BY DropIs
<1>3. Entry' = Entry /\ Live' = Live /\ Preds(cfg, Entry)' = Preds(cfg, Entry)
  BY <1>1 DEF Entry, Live, Preds
<1>4. idx # 1
  BY EntryIs DEF EntryInv
<1>5. idx > 1
  BY <1>4 DEF TypeOK, FuncTypeOK
<1> QED
  BY <1>1, <1>2, <1>3, <1>5 DEF EntryInv

LEMMA EntryFold ==
  ASSUME TypeOK, ShapeInv, EntryInv, ReplaceConstBr
  PROVE  EntryInv'
<1>1. /\ order' = order /\ idx' = idx /\ kept' = kept /\ pass' = "folded"
      /\ stmts' = [b \in Labels |-> IF b \in Live
                     THEN [i \in DOMAIN stmts[b] |-> Folded(stmts[b][i])] ELSE stmts[b]]
  BY DEF ReplaceConstBr
<1>2. Freed' = Freed /\ Live' = Live /\ Entry' = Entry
  BY <1>1 DEF Freed, Live, Entry
<1>3. \A b \in Live : /\ stmts[b] \in Seq(Stmts) /\ EndsOnly(stmts[b])
                      /\ stmts'[b] = [i \in DOMAIN stmts[b] |-> Folded(stmts[b][i])]
  BY <1>1, BlockType DEF ShapeInv, BranchesLast
<1>4. \A b \in Live : ~Leads(stmts'[b], Entry)
  BY <1>3, FoldedIs DEF EntryInv
<1>5. Entry \in Live /\ stmts[Entry] # <<>> /\ 1 \in DOMAIN stmts[Entry]
      /\ stmts[Entry][1].op = "inst"
  BY EntryIs DEF EntryInv
<1>6. stmts'[Entry][1] = stmts[Entry][1] /\ DOMAIN stmts'[Entry] = DOMAIN stmts[Entry]
  <2>1. Folded(stmts[Entry][1]) = stmts[Entry][1]
    BY <1>5 DEF Folded
  <2>2. stmts'[Entry] = [i \in DOMAIN stmts[Entry] |-> Folded(stmts[Entry][i])]
    BY <1>3, <1>5
  <2> QED
    BY <1>5, <2>1, <2>2
<1>7. stmts'[Entry] # <<>>
  BY <1>5, <1>6
<1> QED
  BY <1>1, <1>2, <1>4, <1>5, <1>6, <1>7 DEF EntryInv, Rewritings

LEMMA EntryAgain ==
  ASSUME TypeOK, TypeOK', LockInv, ShapeInv, EntryInv, Again
  PROVE  EntryInv'
<1>1. idx > 1
  BY DEF Again, ShapeInv, DeletedRight
<1>2. /\ order' = kept /\ stmts' = stmts /\ cfg' = ControlFlow' /\ idx' = 1
  BY DEF Again, Rewind
<1>3. Freed' = {}
  BY RewindFreesNothing DEF Again
<1>4. kept # <<>> /\ Entry' = Entry
  BY <1>1, <1>2 DEF EntryInv, Entry
<1>5. Live' \subseteq Live
  <2>1. idx - 1 <= Len(order) /\ DOMAIN order = 1..Len(order)
    BY DEF TypeOK, FuncTypeOK
  <2>2. 1..idx - 1 \subseteq DOMAIN order
    BY <2>1 DEF TypeOK, FuncTypeOK
  <2> QED
    BY <1>2, <2>2 DEF Live, Range, LockInv, KeptInOrder
<1>6. \A b \in Live' : ~Leads(stmts'[b], Entry)
  BY <1>2, <1>5 DEF EntryInv
<1>7. Preds(cfg, Entry)' = {}
  BY <1>2, <1>4, <1>6, EntryCfgNext
<1> QED
  BY <1>2, <1>3, <1>4, <1>6, <1>7 DEF EntryInv

LEMMA EntryBuild ==
  ASSUME TypeOK, ShapeInv, EntryInv, UNCHANGED <<order, stmts>>, Entry \notin Freed',
         (idx' = idx /\ kept' = kept) \/ idx' = 1, cfg' = ControlFlow
  PROVE  EntryInv'
<1>1. Entry' = Entry /\ Live' = Live
  BY DEF Entry, Live
<1>2. Preds(ControlFlow, Entry) = {}
  <2> SUFFICES ASSUME NEW e \in ControlFlow, e.to = Entry PROVE FALSE
    BY DEF Preds
  <2>1. PICK b \in Live : e \in BlockEdges(b)
    BY DEF ControlFlow
  <2>2. Leads(stmts[b], e.to)
    BY <2>1, BlockType, EdgesAre
  <2> QED
    BY <2>2 DEF EntryInv
<1>3. Preds(cfg, Entry)' = {}
  BY <1>1, <1>2 DEF Preds
<1> QED
  BY <1>1, <1>3 DEF EntryInv

LEMMA EntryNoPred ==
  ASSUME TypeOK, LockInv, ShapeInv, EntryInv, RemoveNoPred
  PROVE  EntryInv'
<1>1. idx \in DOMAIN order
  BY DEF RemoveNoPred, Visiting
<1>2. CASE ~Useless(This)
  BY <1>1, <1>2, EntryKeep DEF RemoveNoPred
<1>3. CASE Useless(This)
  <2>1. Drop /\ stmts' = [stmts EXCEPT ![This] = <<>>]
    BY <1>3 DEF RemoveNoPred
  <2>2. Entry \in Labels /\ 1 \in DOMAIN stmts[Entry] /\ stmts[Entry] # <<>>
        /\ stmts[Entry][1].op = "inst"
    BY EntryIs DEF EntryInv
  <2>3. This # Entry
    BY <1>3, <2>2 DEF Useless
  <2>4. This \in Labels
    BY <1>1, VisitedAlive, BlockType
  <2>5. stmts'[This] = <<>> /\ \A c \in Labels \ {This} : stmts'[c] = stmts[c]
    BY <2>1, <2>4 DEF TypeOK, FuncTypeOK
  <2>6. stmts'[Entry] = stmts[Entry]
    BY <2>2, <2>3, <2>5
  <2>7. \A b \in Live : ~Leads(stmts'[b], Entry)
    <3> SUFFICES ASSUME NEW b \in Live PROVE ~Leads(stmts'[b], Entry)
      OBVIOUS
    <3>1. stmts'[b] = <<>> \/ stmts'[b] = stmts[b]
      BY <2>5, BlockType
    <3> QED
      BY <3>1, EmptyIs DEF EntryInv
  <2> QED
    BY <1>1, <2>1, <2>2, <2>3, <2>6, <2>7, EntryDrop
<1> QED
  BY <1>2, <1>3

LEMMA EntryMergeBr ==
  ASSUME TypeOK, LockInv, ShapeInv, EntryInv, MergeBr
  PROVE  EntryInv'
<1>1. idx \in DOMAIN order /\ pass = "merge_br" /\ pass \in Rewritings /\ Visiting("merge_br")
  BY DEF MergeBr, Visiting, Rewritings
<1>2. CASE ~(Forwards(This) /\ This \notin locked)
  BY <1>1, <1>2, EntryKeep DEF MergeBr
<1>3. CASE pass' = "panic" /\ UNCHANGED <<order, stmts, cfg, idx, kept, locked, deleted,
                                          progress, emptyCycle, bootstrap>>
  BY <1>3, EntrySame DEF Rewritings
<1>4. CASE /\ Forwards(This) /\ This \notin locked /\ Drop /\ locked' = Lock(This)
           /\ stmts' = [Adjusted(This) EXCEPT ![This] = <<>>]
  <2> DEFINE b == This
             s == Succ(b)
  <2>1. b \in Live /\ b \in Labels
    BY <1>1, VisitedAlive, BlockType
  <2>2. s \in Labels /\ \E e : Succs(cfg, b) = {e} /\ e \in cfg /\ e.to = s
    BY <1>1, <1>4, ForwardsIs
  <2>3. /\ stmts'[b] = <<>>
        /\ \A c \in Labels \ {b} :
             stmts'[c] = IF c \in PredBlocks(b) THEN Redirect(stmts[c], b, s) ELSE stmts[c]
    BY <1>4, <2>1, <2>2, AdjustedIs
  <2>4. Entry \in Labels /\ 1 \in DOMAIN stmts[Entry] /\ stmts[Entry] # <<>> /\ Entry \in Live
        /\ stmts[Entry][1].op = "inst" /\ Entry \notin Freed /\ Preds(cfg, Entry) = {}
    BY <1>1, EntryIs DEF EntryInv
  <2>5. b # Entry
    <3> SUFFICES ASSUME b = Entry PROVE FALSE
      OBVIOUS
    <3>1. Adjustable(Entry)
      <4>1. PICK e \in cfg : e.from = Entry
        BY <2>2 DEF Succs
      <4> QED
        BY <1>1, <2>4, <4>1 DEF ShapeInv, BranchesAdjustable
    <3> QED
      BY <1>4, <2>4, <3>1 DEF Forwards, Adjustable, Back
  <2> HIDE DEF b, s
  <2>6. s # Entry
    BY <2>2, <2>4 DEF Preds
  <2>7. \A c \in Live : ~Leads(stmts'[c], Entry)
    <3> SUFFICES ASSUME NEW c \in Live PROVE ~Leads(stmts'[c], Entry)
      OBVIOUS
    <3>1. c \in Labels /\ stmts[c] \in Seq(Stmts) /\ EndsOnly(stmts[c]) /\ ~Leads(stmts[c], Entry)
      BY BlockType DEF ShapeInv, BranchesLast, EntryInv
    <3>2. ~Leads(Redirect(stmts[c], b, s), Entry)
      BY <2>1, <2>2, <2>4, <2>6, <3>1, RedirectLeads
    <3>3. stmts'[c] \in {<<>>, stmts[c], Redirect(stmts[c], b, s)}
      BY <2>3, <3>1
    <3> QED
      BY <3>1, <3>2, <3>3, EmptyIs
  <2>8. stmts'[Entry] # <<>> /\ stmts'[Entry][1].op = "inst"
    <3>1. stmts[Entry] \in Seq(Stmts)
      BY <2>4, BlockType
    <3>2. DOMAIN Redirect(stmts[Entry], b, s) = DOMAIN stmts[Entry]
          /\ Redirect(stmts[Entry], b, s)[1].op = "inst"
      BY <2>1, <2>2, <2>4, <3>1, RedirectIs
    <3>3. stmts'[Entry] = stmts[Entry] \/ stmts'[Entry] = Redirect(stmts[Entry], b, s)
      BY <2>3, <2>4, <2>5
    <3>4. 1 \in DOMAIN stmts'[Entry] /\ stmts'[Entry][1].op = "inst"
      BY <2>4, <3>2, <3>3
    <3> QED
      BY <3>4
  <2> QED
    BY <1>1, <1>4, <2>5, <2>7, <2>8, EntryDrop DEF b
<1> QED
  BY <1>2, <1>3, <1>4 DEF MergeBr

LEMMA EntryMergePred ==
  ASSUME TypeOK, LockInv, ShapeInv, EntryInv, MergePred
  PROVE  EntryInv'
<1>1. idx \in DOMAIN order /\ pass = "merge_pred" /\ pass \in Rewritings
      /\ Visiting("merge_pred")
  BY DEF MergePred, Visiting, Rewritings
<1>2. CASE ~Follows(This)
  BY <1>1, <1>2, EntryKeep DEF MergePred
<1>3. CASE pass' = "copying" /\ UNCHANGED <<order, stmts, cfg, idx, kept, locked, deleted,
                                            progress, emptyCycle, bootstrap>>
  BY <1>3, EntrySame DEF Rewritings
<1>4. ASSUME Follows(This), NEW p \in Labels, p = CHOOSE q \in PredBlocks(This) : TRUE,
             Drop, Moved(p, This)
      PROVE  EntryInv'
  <2> DEFINE b == This
  <2>1. b \in Live /\ b \in Labels /\ b \notin Freed
    BY <1>1, VisitedAlive, BlockType DEF Alive
  <2>2. /\ p \notin Freed /\ \E e \in cfg : e.from = p /\ e.to = b
    BY <1>1, <1>4, FollowsIs
  <2>3. Adjustable(p)
    BY <1>1, <2>1, <2>2 DEF ShapeInv, BranchesAdjustable
  <2>4. /\ stmts'[b] = <<>>
        /\ p # b => stmts'[p] = Join(stmts[p], stmts[b])
        /\ \A c \in Labels \ {p, b} : stmts'[c] = stmts[c]
    BY <1>4, <2>1, MovedIs
  <2>5. Entry \in Labels /\ 1 \in DOMAIN stmts[Entry] /\ stmts[Entry] # <<>> /\ Entry \in Live
        /\ stmts[Entry][1].op = "inst" /\ Preds(cfg, Entry) = {}
        /\ Len(stmts[Entry]) \in Nat \ {0}
    BY <1>1, EntryIs DEF EntryInv
  <2>6. b # Entry
    BY <1>4, <2>5 DEF Follows, HasOne
  <2> HIDE DEF b
  <2>7. p \in Live => stmts[p] \in Seq(Stmts) /\ EndsOnly(stmts[p])
    BY BlockType DEF ShapeInv, BranchesLast
  <2>8. stmts[b] \in Seq(Stmts) /\ EndsOnly(stmts[b]) /\ ~Leads(stmts[b], Entry)
    BY <2>1, BlockType DEF ShapeInv, BranchesLast, EntryInv
  <2>9. stmts[p] # <<>>
    BY <2>3 DEF Adjustable
  <2>10. \A c \in Live : ~Leads(stmts'[c], Entry)
    <3> SUFFICES ASSUME NEW c \in Live PROVE ~Leads(stmts'[c], Entry)
      OBVIOUS
    <3>1. CASE c = b
      BY <2>4, <3>1, EmptyIs
    <3>2. CASE c = p /\ p # b
      <4>1. stmts'[c] = Join(stmts[p], stmts[b])
        BY <2>4, <3>2
      <4> QED
        BY <2>5, <2>7, <2>8, <2>9, <3>2, <4>1, JoinLeads
    <3>3. CASE c \notin {p, b}
      <4>1. stmts'[c] = stmts[c]
        BY <2>4, <3>3, BlockType
      <4> QED
        BY <4>1 DEF EntryInv
    <3> QED
      BY <3>1, <3>2, <3>3
  <2>11. stmts'[Entry] # <<>> /\ stmts'[Entry][1].op = "inst"
    <3>1. CASE p = Entry
      <4>1. stmts'[Entry] = Join(stmts[Entry], stmts[b]) /\ stmts[Entry] \in Seq(Stmts)
        BY <2>4, <2>5, <2>6, <2>7, <3>1
      <4>2. Len(stmts[Entry]) # 1
        BY <2>3, <2>5, <3>1 DEF Adjustable, Back
      <4>3. PICK c \in Seq(Stmts) : c = stmts[Entry]
        BY <4>1
      <4>4. 1 \in 1..Len(c) - 1 /\ c # <<>>
        <5>1. Len(c) \in Nat \ {0} /\ Len(c) # 1 /\ c # <<>>
          BY <2>5, <4>2, <4>3
        <5>2. PICK n \in Nat : n = Len(c) /\ n # 0 /\ n # 1
          BY <5>1
        <5>3. 1 \in 1..n - 1
          BY <5>2
        <5> QED
          BY <5>1, <5>2, <5>3
      <4>5. Join(c, stmts[b])[1] = c[1] /\ Join(c, stmts[b]) \in Seq(Stmts)
            /\ Len(Join(c, stmts[b])) = Len(c) - 1 + Len(stmts[b])
        BY <2>8, <4>4, JoinIs
      <4>6. Join(c, stmts[b]) # <<>>
        <5>1. Len(c) - 1 + Len(stmts[b]) >= 1
          BY <2>8, <4>4
        <5>2. Len(Join(c, stmts[b])) # 0
          BY <4>5, <5>1
        <5> QED
          BY <5>2
      <4> QED
        BY <2>5, <4>1, <4>3, <4>5, <4>6
    <3>2. CASE p # Entry
      BY <2>4, <2>5, <2>6, <3>2
    <3> QED
      BY <3>1, <3>2
  <2> QED
    BY <1>1, <1>4, <2>6, <2>10, <2>11, EntryDrop DEF b
<1>5. CASE Follows(This)
  <2>1. PICK p \in Labels : p = CHOOSE q \in PredBlocks(This) : TRUE
    BY <1>1, <1>5, FollowsIs
  <2>2. CASE Drop /\ Moved(p, This)
    BY <1>4, <1>5, <2>1, <2>2
  <2> QED
    BY <1>3, <1>5, <2>1, <2>2 DEF MergePred, Moved
<1> QED
  BY <1>2, <1>5

\* Whatever the passes do, the entry block stays where it is, begins with its
\* instruction and is reached by no branch.
LEMMA EntryStep ==
  ASSUME TypeOK, LockInv, ShapeInv, EntryInv, [Next]_vars
  PROVE  EntryInv'
<1>1. TypeOK'
  BY TypeStep
<1>2. ASSUME StartRewriting PROVE EntryInv'
  <2>1. Freed' = Freed
    BY <1>2 DEF StartRewriting, Freed
  <2> QED
    BY <1>2, <2>1, EntryBuild DEF StartRewriting, EntryInv
<1>3. CASE Advance
  <2>1. Freed' = {}
    BY <1>3, RewindFreesNothing DEF Advance
  <2> QED
    BY <1>3, <2>1, EntryBuild DEF Advance, Rewind
<1>4. CASE UNCHANGED vars
  BY <1>4, EntrySame DEF vars
<1>5. CASE ReplaceConstBr
  BY <1>5, EntryFold
<1>6. CASE RemoveNoPred
  BY <1>6, EntryNoPred
<1>7. CASE MergeBr
  BY <1>7, EntryMergeBr
<1>8. CASE MergePred
  BY <1>8, EntryMergePred
<1>9. CASE Again
  BY <1>1, <1>9, EntryAgain
<1> QED
  BY <1>2, <1>3, <1>4, <1>5, <1>6, <1>7, <1>8, <1>9
     DEF Next, Simplify, Terminating, Begin, BeginBootstrap

\* The function the passes leave behind has no branch to its entry block.
LEMMA EntryEnd ==
  ASSUME TypeOK, EntryInv PROVE EntryHasNoPreds
<1>1. \A e \in ControlFlow : e.to # Entry
  <2> SUFFICES ASSUME NEW e \in ControlFlow, e.to = Entry PROVE FALSE
    OBVIOUS
  <2>1. PICK b \in Live : e \in BlockEdges(b)
    BY DEF ControlFlow
  <2>2. Leads(stmts[b], e.to)
    BY <2>1, BlockType, EdgesAre
  <2> QED
    BY <2>2 DEF EntryInv
<1> QED
  BY <1>1 DEF EntryHasNoPreds, Preds
=============================================================================
