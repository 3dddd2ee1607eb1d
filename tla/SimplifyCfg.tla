---------------------------- MODULE SimplifyCfg ----------------------------
(***************************************************************************)
(* The passes that rewrite the control flow of a function after it is      *)
(* generated: replace_const_br (sir/pass/inst_combine.colgm) and the three *)
(* rewritings simplify_cfg repeats (sir/pass/simplify_cfg.colgm).          *)
(*                                                                         *)
(* Each rewriting walks over the blocks of the function once per           *)
(* iteration, one action per block.  It decides on the control flow graph  *)
(* as control_flow_analysis last built it, in cfg: the graph is not        *)
(* updated while the iteration moves and frees blocks.  The list of blocks *)
(* itself is replaced at the end of the iteration only.                    *)
(*                                                                         *)
(* The C++ compiler has the first two of them only and goes through them   *)
(* once (bootstrap/sir/simplify_cfg.cpp, pass_manager.cpp).                *)
(***************************************************************************)
EXTENDS SirFunc

CONSTANT Funcs      \* the functions the passes are started on

\* mir2sir.generate hands over functions whose blocks have labels of their own.
ASSUME FuncsAssumption ==
  \A f \in Funcs :
    /\ f.order \in Seq(Labels) /\ f.stmts \in [Labels -> Seq(Stmts)]
    /\ \A i, j \in DOMAIN f.order : f.order[i] = f.order[j] => i = j

\* Its blocks branch at their end only, and to blocks of the function.
ASSUME FuncsWellFormed ==
  \A f \in Funcs : \A b \in Range(f.order) : \A i \in DOMAIN f.stmts[b] :
    /\ Range(f.stmts[b][i].to) \subseteq Range(f.order)
    /\ f.stmts[b][i].to # <<>> => i = Len(f.stmts[b])

VARIABLES
  pass,             \* the pass that runs
  cfg,              \* the preds and succs vectors, as a set of edges
  idx,              \* the block the iteration visits next, by position
  kept,             \* blocks: the blocks that survive this iteration
  locked,           \* locked_block
  deleted,          \* this iteration deleted a block (delete_count > 0)
  progress,         \* this round of simplify_cfg deleted a block
  emptyCycle,       \* history: when simplify_cfg began, some blocks that only
                    \* jump formed a cycle
  bootstrap         \* the passes are those of the C++ compiler

passVars == <<pass, cfg, idx, kept, locked, deleted, progress, emptyCycle, bootstrap>>
vars == <<order, stmts, pass, cfg, idx, kept, locked, deleted, progress, emptyCycle, bootstrap>>

Rewritings == {"no_pred", "merge_br", "merge_pred"}
Ends == {"done", "panic", "copying"}
Passes == {"idle", "folded"} \cup Rewritings \cup Ends

(***************************************************************************)
(* The blocks as the running iteration sees them.                          *)
(***************************************************************************)
Visiting(p) == pass = p /\ idx \in DOMAIN order
This == order[idx]
Freed == {order[i] : i \in 1..idx - 1} \ Range(kept)
AtRest == idx = 1

Keep ==
  /\ kept' = Append(kept, This)
  /\ idx' = idx + 1
  /\ UNCHANGED <<order, stmts, pass, cfg, locked, deleted, progress, emptyCycle, bootstrap>>

\* The block is freed with the statements it still has.
Drop ==
  /\ deleted' = TRUE
  /\ idx' = idx + 1
  /\ UNCHANGED <<order, pass, cfg, kept, progress, emptyCycle, bootstrap>>

(***************************************************************************)
(* replace_const_br: a branch on a literal becomes a br.                   *)
(***************************************************************************)
\* Mutant: the two labels are swapped.
FoldedSwapped(s) ==
  IF s.op = "br_cond" /\ s.val \in {Lit(0), Lit(1)}
  THEN Br(IF s.val = Lit(0) THEN s.to[1] ELSE s.to[2]) ELSE s

Folded(s) ==
  CASE s.op = "br_cond" /\ s.val = Lit(0) -> Br(s.to[2])
    [] s.op = "br_cond" /\ s.val = Lit(1) -> Br(s.to[1])
    [] OTHER -> s

ReplaceConstBr ==
  /\ pass = "idle"
  /\ stmts' = [b \in Labels |-> IF b \in Live
                 THEN [i \in DOMAIN stmts[b] |-> Folded(stmts[b][i])] ELSE stmts[b]]
  /\ pass' = "folded"
  /\ UNCHANGED <<order, cfg, idx, kept, locked, deleted, progress, emptyCycle, bootstrap>>

(***************************************************************************)
(* simplify_cfg begins.                                                    *)
(***************************************************************************)
\* Some blocks that only jump lead from one to the next without end.
OnlyJumps(b) == Len(stmts[b]) = 1 /\ Len(stmts[b][1].to) = 1

HasEmptyCycle ==
  \E cycle \in (SUBSET Live) \ {{}} :
    \A b \in cycle : OnlyJumps(b) /\ stmts[b][1].to[1] \in cycle

StartRewriting ==
  /\ pass' = "no_pred"
  /\ cfg' = ControlFlow
  /\ emptyCycle' = HasEmptyCycle
  /\ UNCHANGED <<order, stmts, idx, kept, locked, deleted, progress>>

Begin == pass = "folded" /\ StartRewriting /\ UNCHANGED bootstrap

\* sir_pass_manager.execute: no branch is folded before.
BeginBootstrap == pass = "idle" /\ StartRewriting /\ bootstrap' = TRUE

(***************************************************************************)
(* do_remove_no_pred_blocks.                                               *)
(***************************************************************************)
Useless(b) ==
  /\ Preds(cfg, b) = {}
  /\ Len(stmts[b]) <= 1
  /\ \A i \in DOMAIN stmts[b] : stmts[b][i].op \in {"br", "br_cond"}

RemoveNoPred ==
  /\ Visiting("no_pred") /\ Len(order) > 1
  /\ IF Useless(This)
     THEN Drop /\ stmts' = [stmts EXCEPT ![This] = <<>>] /\ UNCHANGED locked
     ELSE Keep

(***************************************************************************)
(* do_merge_block_with_no_cond_br and adjust_label: the jumps of all the   *)
(* predecessors are moved to the successor; both ends are locked, so that  *)
(* no block that cfg still relates to the freed one is freed as well.      *)
(***************************************************************************)
\* Mutant: the block may do something before it jumps.
ForwardsAnyLength(b) == HasOne(Succs(cfg, b))
Forwards(b) == HasOne(Succs(cfg, b)) /\ Len(stmts[b]) = 1
Succ(b) == (CHOOSE e \in cfg : e.from = b).to
PredBlocks(b) == {e.from : e \in Preds(cfg, b)}
LockedBy(b) == {Succ(b)} \cup PredBlocks(b)

\* Mutant: only the successor is locked.
LockSucc(b) == locked \cup {Succ(b)}
Lock(b) == locked \cup LockedBy(b)

\* Mutant: the other targets of the branch are forgotten.
RetargetFirst(s, b) == [s EXCEPT !.to[1] = IF @ = b THEN Succ(b) ELSE @]

\* The last statement of a predecessor of b, with b replaced by its successor.
Retarget(s, b) ==
  [s EXCEPT !.to = [k \in DOMAIN s.to |-> IF s.to[k] = b THEN Succ(b) ELSE s.to[k]]]

Adjusted(b) ==
  [p \in Labels |->
     IF p \in PredBlocks(b)
     THEN [stmts[p] EXCEPT ![Len(stmts[p])] = Retarget(@, b)]
     ELSE stmts[p]]

\* Mutant: without the case of a switch.
AdjustableNoSwitch(p) == Len(stmts[p]) > 0 /\ Back(p).op \in {"br", "br_cond"}

\* The branch kinds adjust_label knows; it calls unreachable() on another,
\* where the C++ code does nothing.
Adjustable(p) == Len(stmts[p]) > 0 /\ Back(p).op \in {"br", "br_cond", "switch"}

MergeBr ==
  /\ Visiting("merge_br")
  /\ IF Forwards(This) /\ This \notin locked
     THEN IF bootstrap \/ \A p \in PredBlocks(This) : Adjustable(p)
          THEN /\ Drop
               /\ locked' = Lock(This)
               /\ stmts' = [Adjusted(This) EXCEPT ![This] = <<>>]
          ELSE /\ pass' = "panic"
               /\ UNCHANGED <<order, stmts, cfg, idx, kept, locked, deleted,
                              progress, emptyCycle, bootstrap>>
     ELSE Keep

(***************************************************************************)
(* do_merge_if_pred_has_only_one_succ: the statements of the block go to   *)
(* the end of its only predecessor.  When the block is its own             *)
(* predecessor, the foreach over its statements appends to the very vector *)
(* it iterates over, and never reaches the end.  The labels it locks are   *)
(* read from the successors cfg still lists: of one freed before, the read *)
(* yields its old label or anything else.                                  *)
(***************************************************************************)
SuccBlocks(b) == {e.to : e \in Succs(cfg, b)}
\* Mutant: the lock is not looked at.
FollowsUnlocked(b) ==
  /\ HasOne(Preds(cfg, b))
  /\ \A p \in PredBlocks(b) : HasOne(Succs(cfg, p))

Follows(b) ==
  /\ b \notin locked
  /\ HasOne(Preds(cfg, b))
  /\ \A p \in PredBlocks(b) : HasOne(Succs(cfg, p))

Joined(p, b) == SubSeq(stmts[p], 1, Len(stmts[p]) - 1) \o stmts[b]

MergePred ==
  /\ Visiting("merge_pred")
  /\ IF Follows(This)
     THEN LET p == CHOOSE q \in PredBlocks(This) : TRUE IN
          IF p = This /\ Len(stmts[This]) > 1
          THEN /\ pass' = "copying"
               /\ UNCHANGED <<order, stmts, cfg, idx, kept, locked, deleted,
                              progress, emptyCycle, bootstrap>>
          ELSE /\ Drop
               /\ \E read \in SUBSET (SuccBlocks(This) \cap Freed) :
                    locked' = locked \cup (SuccBlocks(This) \ Freed) \cup read
               /\ stmts' = [stmts EXCEPT ![p] = Joined(p, This), ![This] = <<>>]
     ELSE Keep

(***************************************************************************)
(* The end of an iteration.  One that deleted blocks installs the list of  *)
(* the others, rebuilds the graph and is repeated; one that deleted none   *)
(* ends the rewriting; the next one starts by rebuilding the graph.        *)
(* simplify_cfg repeats the round until no rewriting deletes anything.     *)
(***************************************************************************)
Iterated == idx > Len(order) \/ (pass = "no_pred" /\ Len(order) <= 1)

NextPass ==
  CASE pass = "no_pred" -> "merge_br"
    [] pass = "merge_br" -> IF bootstrap THEN "done" ELSE "merge_pred"
    [] OTHER -> IF progress THEN "no_pred" ELSE "done"

\* Mutant: the next iteration does not begin with the first block.
RewindNot == kept' = <<>> /\ locked' = {} /\ UNCHANGED idx
Rewind == kept' = <<>> /\ locked' = {} /\ idx' = 1

Again ==
  /\ pass \in Rewritings /\ Iterated /\ deleted
  /\ order' = kept
  /\ UNCHANGED <<stmts, pass, emptyCycle, bootstrap>>
  /\ cfg' = ControlFlow'
  /\ progress' = TRUE /\ deleted' = FALSE
  /\ Rewind

\* Mutant: the count of deletions is not reset between rounds.
ProgressKept == progress
ProgressAfter == pass # "merge_pred" /\ progress

Advance ==
  /\ pass \in Rewritings /\ Iterated /\ ~deleted
  /\ pass' = NextPass
  /\ progress' = ProgressAfter
  /\ cfg' = ControlFlow
  /\ Rewind
  /\ UNCHANGED <<order, stmts, deleted, emptyCycle, bootstrap>>

-----------------------------------------------------------------------------
Idle ==
  /\ pass = "idle" /\ cfg = {}
  /\ idx = 1 /\ kept = <<>> /\ locked = {}
  /\ deleted = FALSE /\ progress = FALSE
  /\ emptyCycle = FALSE /\ bootstrap = FALSE

Init ==
  /\ \E f \in Funcs : order = f.order /\ stmts = f.stmts
  /\ Idle

Simplify == ReplaceConstBr \/ Begin \/ BeginBootstrap \/ RemoveNoPred \/ MergeBr \/ MergePred
            \/ Again \/ Advance

Stopped == pass \in Ends
Terminating == Stopped /\ UNCHANGED vars

Next == Simplify \/ Terminating
Spec == Init /\ [][Next]_vars
FairSpec == Spec /\ WF_vars(Simplify)

-----------------------------------------------------------------------------
(***************************************************************************)
(* Properties.                                                             *)
(***************************************************************************)
TypeOK ==
  /\ FuncTypeOK
  /\ pass \in Passes
  /\ cfg \subseteq [from: Labels, at: Nat, arm: Nat, to: Labels]
  /\ idx \in 1..Len(order) + 1
  /\ kept \in Seq(Labels)
  /\ locked \subseteq Labels
  /\ deleted \in BOOLEAN /\ progress \in BOOLEAN /\ bootstrap \in BOOLEAN

\* The blocks adjust_label reaches through the vectors of the block it is about
\* to remove are alive: "lock all the preds to avoid UAF" works, for any graph.
MergeBrReadsLive ==
  Visiting("merge_br") /\ Forwards(This) /\ This \notin locked
    => LockedBy(This) \cap Freed = {}

\* The predecessor a block is merged into has not been freed.
MergePredWritesLive ==
  Visiting("merge_pred") /\ Follows(This) => PredBlocks(This) \cap Freed = {}

\* Why: the list under construction holds blocks already visited, each once;
\* of a freed block, merge_br has locked the successor and all predecessors,
\* merge_pred the successors that are still there.
KeptInOrder ==
  /\ Range(kept) \subseteq {order[i] : i \in 1..idx - 1}
  /\ \A i, j \in DOMAIN kept : kept[i] = kept[j] => i = j
MergeBrLocked ==
  pass = "merge_br" =>
    \A f \in Freed : HasOne(Succs(cfg, f)) /\ LockedBy(f) \subseteq locked
MergePredLocked ==
  pass = "merge_pred" => \A f \in Freed : SuccBlocks(f) \ Freed \subseteq locked
LockInv == LabelsDistinct /\ KeptInOrder /\ MergeBrLocked /\ MergePredLocked

\* adjust_label never meets a predecessor that does not end with a branch.
NeverPanics == pass # "panic"

\* No rewriting leaves a branch to a block that is gone.
BranchesLead == pass \in Rewritings \cup {"done"} /\ AtRest => \A b \in Live : TargetsLive(b)
BranchesLeadUnlessEmptyCycle == emptyCycle \/ BranchesLead

\* The first block, where the function is entered, is no branch's target
\* (LLVM rejects a function whose entry block has predecessors).
EntryHasNoPreds == pass = "done" => Preds(ControlFlow, Entry) = {}
=============================================================================
