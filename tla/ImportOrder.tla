---------------------------- MODULE ImportOrder ----------------------------
(***************************************************************************)
(* What compiling a program file by file promises, whatever the order in   *)
(* which the imports are met: a file that declares something is built at   *)
(* most once, only after the files it imports (files of one import circle  *)
(* may be built in any order), nothing is built after a failure, and a     *)
(* program that compiles has all the files it needs.                       *)
(***************************************************************************)
EXTENDS Sequences, Functions

CONSTANTS
  File,             \* the source files there are
  Root              \* the file the compiler is started with

VARIABLES
  deps,             \* the files each file imports
  bare,             \* the files that declare nothing of their own
  built,            \* the files whose code has been generated, in order
  outcome           \* "running", "ok" or "failed"

vars == <<deps, bare, built, outcome>>

(* The files reachable from f by imports: those in every set that holds what f
   imports and, with a file, what that file imports. *)
Reach(f) ==
  {g \in File : \A s \in SUBSET File :
     (deps[f] \subseteq s /\ \A h \in s : deps[h] \subseteq s) => g \in s}

Done == Range(built)

MayBuild(f) ==
  /\ outcome = "running"
  /\ f \in Done => f \in bare
  /\ \A g \in deps[f] : g \in Done \/ f \in Reach(g)

Init ==
  /\ deps \in [File -> SUBSET File]
  /\ bare \in SUBSET File
  /\ built = <<>>
  /\ outcome = "running"

(* One file is built on top of the files it imports. *)
Build(f) ==
  /\ MayBuild(f)
  /\ built' = Append(built, f)
  /\ UNCHANGED <<deps, bare, outcome>>

(* The root is built last, when nothing it needs is missing. *)
Finish ==
  /\ MayBuild(Root)
  /\ Reach(Root) \subseteq Done \cup {Root}
  /\ built' = Append(built, Root)
  /\ outcome' = "ok"
  /\ UNCHANGED <<deps, bare>>

Fail ==
  /\ outcome = "running"
  /\ outcome' = "failed"
  /\ UNCHANGED <<deps, bare, built>>

Next == Finish \/ Fail \/ \E f \in File : Build(f)

Spec == Init /\ [][Next]_vars
=============================================================================
