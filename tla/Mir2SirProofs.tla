--------------------------- MODULE Mir2SirProofs ---------------------------
(***************************************************************************)
(* Theorems about Mir2Sir, for functions of any size: whatever the         *)
(* visitors emit, nothing lands behind a terminator, and the finished      *)
(* function is well formed.                                                *)
(***************************************************************************)
EXTENDS Mir2Sir, TLAPS, FiniteSetTheorems

(***************************************************************************)
(* The stack.                                                              *)
(***************************************************************************)
Kinds == SUBSET ExprKinds
Tokens == Marks \cup {"and", "or", "do", "define", "retv", "if", "match", "while", "for"}
Places == Labels \X Nat

Visitors ==
  [do: {"expr"}, kinds: Kinds] \cup
  [do: {"left"}, opr: {"and", "or"}, node: Nat, kinds: Kinds] \cup
  [do: {"right"}, node: Nat, arm: {1, 2}, at: Places] \cup
  [do: {"block"}, top: BOOLEAN] \cup
  [do: {"init", "leavecase", "finish"}] \cup
  [do: {"retv"}, node: Nat] \cup
  [do: {"arms"}, end: Labels, left: Nat, els: BOOLEAN] \cup
  [do: {"cond"}, last: BOOLEAN, end: Labels] \cup
  [do: {"leave"}, cond: SUBSET Places, last: BOOLEAN, end: Labels] \cup
  [do: {"switch"}, left: Nat, dflt: BOOLEAN] \cup
  [do: {"cases"}, at: Places, left: Nat, dflt: BOOLEAN, exits: SUBSET Places] \cup
  [do: {"endswitch"}, exits: SUBSET Places] \cup
  [do: {"loop"}, entry: Labels, kind: {"while", "for"}, node: Nat] \cup
  [do: {"again"}, at: Places, entry: Labels, kind: {"while", "for"}, node: Nat]

\* The visitor that runs, and those that wait.
Runner(s) == Head(s)
Below(s) == Tail(s)

\* What can wait for the value of an expression, and for the end of a block.
AfterValue == {"left", "right", "init", "retv", "cond", "switch", "loop"}
AfterBlock == {"leave", "leavecase", "again"}

\* An if with no arm left, and a visitor that runs when the last arm is over.
Over(v) == v.left = 0 /\ ~v.els
LastArm(v) == IF v.do = "cond" THEN v.last ELSE v.cond = {} \/ v.last

Ends(s) == {s[i].end : i \in {j \in DOMAIN s : s[j].do = "arms"}}
Entries(s) == {s[i].entry : i \in {j \in DOMAIN s : s[j].do \in {"loop", "again"}}}
Switches(s) == {s[i].at : i \in {j \in DOMAIN s : s[j].do = "cases"}}

\* What visitor v has to find below it.
Fits(v, below) ==
  /\ v.do = "finish" <=> below = << >>
  /\ v.do # "finish" =>
       LET w == Runner(below) IN
       CASE v.do \in {"expr", "left", "right"} -> w.do \in AfterValue
         [] v.do = "block" -> IF v.top THEN w.do = "finish" ELSE w.do \in AfterBlock
         [] v.do = "retv" -> w.do \in AfterBlock \cup {"finish"}
         [] v.do \in {"cond", "leave"} ->
              w.do = "arms" /\ w.end = v.end /\ (LastArm(v) <=> Over(w))
         [] v.do = "leavecase" -> w.do \in {"cases", "endswitch"}
         [] OTHER -> w.do = "block" /\ (v.do = "arms" => v.end \notin Ends(below))

Nested(s) == \A i \in DOMAIN s : Fits(s[i], SubSeq(s, i + 1, Len(s)))

Count(s, kinds) == Cardinality({i \in DOMAIN s : s[i].do \in kinds})
Ifs == {"arms"}
Loops == {"loop", "again"}

(***************************************************************************)
(* The branches that still wait for their target: place and arm.           *)
(***************************************************************************)
Held(v) ==
  CASE v.do = "right" -> {<<v.at, v.arm>>}
    [] v.do = "leave" -> v.cond \X {2}
    [] v.do = "again" -> {<<v.at, 2>>}
    [] v.do = "cases" -> {<<v.at, 1>>} \cup v.exits \X {1}
    [] v.do = "endswitch" -> v.exits \X {1}
    [] OTHER -> {}

HeldBy(s) == UNION {Held(s[i]) : i \in DOMAIN s}
Collected(tables) == (UNION Range(tables)) \X {1}
Waiting(s, j, b, c) == HeldBy(s) \cup Collected(j) \cup Collected(b) \cup Collected(c)

\* Every branch of f leads to a label of ok, or waits for its target.
Aimed(f, ok, waiting) ==
  \A b \in Labels : \A i \in DOMAIN f[b] : \A k \in DOMAIN f[b][i].to :
    \/ f[b][i].to[k] \in ok
    \/ f[b][i].to[k] = UNSET /\ <<<<b, i>>, k>> \in waiting

(***************************************************************************)
(* The contents of blocks.                                                 *)
(***************************************************************************)
Bare(s) == \A i \in DOMAIN s : s[i].op \notin Terminators
Closed(s) ==
  /\ Len(s) > 0 /\ s[Len(s)].op \in Terminators
  /\ \A i \in DOMAIN s : s[i].op \in Terminators => i = Len(s)
Returns(s) == Closed(s) /\ s[Len(s)].op = "ret"

\* What the visitor that runs next finds in the current block.
Ready(s, content) ==
  IF s = << >> THEN Closed(content)
  ELSE LET v == Runner(s) IN
    CASE v.do = "finish" -> Returns(content)
      [] v.do \in AfterBlock -> Bare(content) \/ Returns(content)
      [] v.do \in {"cases", "endswitch"} -> Closed(content)
      [] v.do = "arms" /\ Over(v) -> Closed(content)
      [] OTHER -> Bare(content)

\* The blocks of f: only the current one, and until the end the two that collect
\* allocations, are open; labels that are no block's have no contents; branches
\* are aimed; what frames remember as switches are switches.
Emitted(f, first, live, now, ok, waiting, switches) ==
  /\ now \in live \ {ALLOCA, MOVEREG}
  /\ \A b \in live \ {now, ALLOCA, MOVEREG} : Closed(f[b])
  /\ \A b \in {ALLOCA, MOVEREG} : IF first = "closed" THEN Closed(f[b]) ELSE Bare(f[b])
  /\ \A b \in Labels \ live : f[b] = << >>
  /\ Aimed(f, ok, waiting)
  /\ \A p \in switches : p[2] \in DOMAIN f[p[1]] /\ f[p[1]][p[2]].op = "switch"

(***************************************************************************)
(* The invariant.                                                          *)
(***************************************************************************)
Typed ==
  /\ FuncTypeOK
  /\ todo \in Seq(Visitors)
  /\ mir \in Seq(Tokens)
  /\ nextLabel \in Nat
  /\ value \in Values
  /\ jumpOut \in Seq(SUBSET Places)
  /\ breaks \in Seq(SUBSET Places)
  /\ continues \in Seq(SUBSET Places)

\* The stack is nested, with one table for each if and two for each loop on it.
Stacked(s, j, b, c) ==
  /\ Nested(s)
  /\ Len(j) = Count(s, Ifs)
  /\ Len(b) = Count(s, Loops)
  /\ Len(c) = Count(s, Loops)

\* Labels are given out once; those of the ends of ifs are given out early.
Numbered(s, live, n) ==
  /\ {ALLOCA, MOVEREG, ENTRY} \subseteq live
  /\ \A l \in live \cup Ends(s) : l < n
  /\ live \cap Ends(s) = {}
  /\ Entries(s) \subseteq live \ {ALLOCA}

\* Where a branch may lead: not to the alloca block, and not to nowhere.
Known(s, live) == (live \cup Ends(s)) \ {ALLOCA}

GenInv ==
  /\ Typed
  /\ order # << >> /\ order[1] = ALLOCA
  /\ Stacked(todo, jumpOut, breaks, continues)
  /\ Numbered(todo, Live, nextLabel)
  /\ Emitted(stmts, IF todo = << >> THEN "closed" ELSE "open", Live, block, Known(todo, Live),
             Waiting(todo, jumpOut, breaks, continues), Switches(todo))
  /\ Ready(todo, stmts[block])

-----------------------------------------------------------------------------
(***************************************************************************)
(* One visitor on top of a stack.                                          *)
(***************************************************************************)
LEMMA OnTop ==
  ASSUME NEW T, NEW h \in T, NEW t \in Seq(T)
  PROVE  LET s == <<h>> \o t IN
         /\ s \in Seq(T) /\ s # << >> /\ Len(s) = Len(t) + 1
         /\ DOMAIN s = 1..(Len(t) + 1)
         /\ s[1] = h
         /\ \A i \in 1..Len(t) : s[i + 1] = t[i]
         /\ Head(s) = h /\ Tail(s) = t
OBVIOUS

LEMMA HeadTail ==
  ASSUME NEW T, NEW s \in Seq(T), s # << >>
  PROVE  /\ Head(s) \in T /\ Tail(s) \in Seq(T)
         /\ s = <<Head(s)>> \o Tail(s)
OBVIOUS

LEMMA SameSeq ==
  ASSUME NEW T, NEW u \in Seq(T), NEW v \in Seq(T), Len(u) = Len(v),
         \A i \in 1..Len(u) : u[i] = v[i]
  PROVE  u = v
OBVIOUS

LEMMA Suffixes ==
  ASSUME NEW T, NEW h \in T, NEW t \in Seq(T)
  PROVE  LET s == <<h>> \o t IN
         /\ SubSeq(s, 2, Len(s)) = t
         /\ \A i \in 1..Len(t) : SubSeq(s, i + 2, Len(s)) = SubSeq(t, i + 1, Len(t))
<1> DEFINE s == <<h>> \o t
<1>1. s \in Seq(T) /\ Len(s) = Len(t) + 1 /\ \A i \in 1..Len(t) : s[i + 1] = t[i]
  BY OnTop
<1> HIDE DEF s
<1>2. SubSeq(s, 2, Len(s)) = t
  <2>1. Len(SubSeq(s, 2, Len(s))) = Len(t) /\ SubSeq(s, 2, Len(s)) \in Seq(T)
    BY <1>1
  <2>2. \A i \in 1..Len(t) : SubSeq(s, 2, Len(s))[i] = t[i]
    BY <1>1
  <2> QED
    BY <2>1, <2>2
<1>3. ASSUME NEW i \in 1..Len(t)
      PROVE  SubSeq(s, i + 2, Len(s)) = SubSeq(t, i + 1, Len(t))
  <2> DEFINE u == SubSeq(s, i + 2, Len(s))
             v == SubSeq(t, i + 1, Len(t))
  <2>1. Len(u) = Len(t) - i /\ u \in Seq(T) /\ Len(v) = Len(t) - i /\ v \in Seq(T)
    BY <1>1
  <2>2. ASSUME NEW k \in 1..(Len(t) - i)
        PROVE  u[k] = v[k]
    <3>1. u[k] = s[i + 1 + k]
      BY <1>1, <2>2
    <3>2. i + k \in 1..Len(t) /\ v[k] = t[i + k]
      BY <2>2
    <3>3. (i + k) + 1 = i + 1 + k
      OBVIOUS
    <3> QED
      BY <1>1, <3>1, <3>2, <3>3
  <2> HIDE DEF u, v
  <2>3. u = v
    BY <2>1, <2>2, SameSeq
  <2> QED
    BY <2>3 DEF u, v
<1>4. /\ SubSeq(s, 2, Len(s)) = t
      /\ \A i \in 1..Len(t) : SubSeq(s, i + 2, Len(s)) = SubSeq(t, i + 1, Len(t))
  BY <1>2, <1>3
<1> QED
  BY <1>4 DEF s

\* A stack s with visitor h on top of the stack t.
Layer(h, t, s) ==
  /\ s \in Seq(Visitors) /\ s # << >>
  /\ Runner(s) = h /\ Below(s) = t
  /\ Nested(s) <=> Fits(h, t) /\ Nested(t)
  /\ Ends(s) = Ends(t) \cup (IF h.do = "arms" THEN {h.end} ELSE {})
  /\ Entries(s) = Entries(t) \cup (IF h.do \in {"loop", "again"} THEN {h.entry} ELSE {})
  /\ Switches(s) = Switches(t) \cup (IF h.do = "cases" THEN {h.at} ELSE {})
  /\ HeldBy(s) = HeldBy(t) \cup Held(h)
  /\ Count(s, Ifs) = Count(t, Ifs) + (IF h.do \in Ifs THEN 1 ELSE 0)
  /\ Count(s, Loops) = Count(t, Loops) + (IF h.do \in Loops THEN 1 ELSE 0)

On(v, t) == <<v>> \o t
OnThree(a, b, c, t) == <<a, b, c>> \o t

LEMMA CountType ==
  ASSUME NEW s \in Seq(Visitors), NEW K
  PROVE  Count(s, K) \in Nat /\ IsFiniteSet({i \in DOMAIN s : s[i].do \in K})
<1>1. IsFiniteSet(1..Len(s))
  BY FS_Interval
<1>2. {i \in DOMAIN s : s[i].do \in K} \subseteq 1..Len(s)
  OBVIOUS
<1>3. IsFiniteSet({i \in DOMAIN s : s[i].do \in K})
  BY <1>1, <1>2, FS_Subset
<1> QED
  BY <1>3, FS_CardinalityType DEF Count

LEMMA CountOnTop ==
  ASSUME NEW h \in Visitors, NEW t \in Seq(Visitors), NEW K
  PROVE  Count(<<h>> \o t, K) = Count(t, K) + (IF h.do \in K THEN 1 ELSE 0)
<1> DEFINE s == <<h>> \o t
           I == {i \in DOMAIN t : t[i].do \in K}
           J == {i \in DOMAIN s : s[i].do \in K}
           M == {i + 1 : i \in I}
           shift == [i \in I |-> i + 1]
<1>1. /\ DOMAIN s = 1..(Len(t) + 1) /\ DOMAIN t = 1..Len(t) /\ Len(t) \in Nat
      /\ s[1] = h /\ \A i \in 1..Len(t) : s[i + 1] = t[i]
  BY OnTop
<1>2. IsFiniteSet(I) /\ Count(t, K) = Cardinality(I) /\ Count(s, K) = Cardinality(J)
  BY CountType DEF Count
<1> HIDE DEF s
<1>3. I \subseteq Nat
  BY <1>1
<1>4. IsFiniteSet(M) /\ Cardinality(M) = Cardinality(I)
  <2>1. shift \in Bijection(I, M)
    <3>1. shift \in [I -> M]
      OBVIOUS
    <3>2. \A a, b \in I : shift[a] = shift[b] => a = b
      BY <1>3
    <3>3. \A y \in M : \E a \in I : shift[a] = y
      OBVIOUS
    <3> QED
      BY <3>1, <3>2, <3>3 DEF Bijection, Injection, Surjection, IsInjective
  <2>2. ExistsBijection(I, M)
    BY <2>1 DEF ExistsBijection
  <2> QED
    BY <1>2, <2>2, FS_Bijection
<1>5. 1 \notin M
  BY <1>1
<1>6. CASE h.do \in K
  <2>1. J = M \cup {1}
    <3>1. ASSUME NEW j \in J PROVE j \in M \cup {1}
      <4>1. j = 1 \/ (j - 1 \in 1..Len(t) /\ j = (j - 1) + 1)
        BY <1>1, <3>1
      <4> QED
        BY <1>1, <3>1, <4>1
    <3>2. M \cup {1} \subseteq J
      BY <1>1, <1>6
    <3> QED
      BY <3>1, <3>2
  <2> HIDE DEF I, J, M, shift
  <2>2. Cardinality(J) = Cardinality(M) + 1
    BY <1>4, <1>5, <2>1, FS_AddElement
  <2> QED
    BY <1>2, <1>4, <1>6, <2>2 DEF s
<1>7. CASE h.do \notin K
  <2>1. J = M
    <3>1. ASSUME NEW j \in J PROVE j \in M
      <4>1. j = 1 \/ (j - 1 \in 1..Len(t) /\ j = (j - 1) + 1)
        BY <1>1, <3>1
      <4> QED
        BY <1>1, <1>7, <3>1, <4>1
    <3>2. M \subseteq J
      BY <1>1
    <3> QED
      BY <3>1, <3>2
  <2>2. Count(t, K) \in Nat
    BY CountType
  <2> HIDE DEF I, J, M, shift
  <2> QED
    BY <1>2, <1>4, <1>7, <2>1, <2>2 DEF s
<1> QED
  BY <1>6, <1>7

LEMMA Layered ==
  ASSUME NEW h \in Visitors, NEW t \in Seq(Visitors)
  PROVE  Layer(h, t, On(h, t))
<1> DEFINE s == <<h>> \o t
<1>1. /\ s \in Seq(Visitors) /\ s # << >> /\ Len(s) = Len(t) + 1
      /\ DOMAIN s = 1..(Len(t) + 1) /\ DOMAIN t = 1..Len(t) /\ Len(t) \in Nat
      /\ s[1] = h /\ \A i \in 1..Len(t) : s[i + 1] = t[i]
      /\ Head(s) = h /\ Tail(s) = t
  BY OnTop
<1>2. /\ SubSeq(s, 1 + 1, Len(s)) = t
      /\ \A i \in 1..Len(t) : SubSeq(s, (i + 1) + 1, Len(s)) = SubSeq(t, i + 1, Len(t))
  <2>1. 1 + 1 = 2 /\ \A i \in 1..Len(t) : (i + 1) + 1 = i + 2
    OBVIOUS
  <2> QED
    BY <2>1, Suffixes
<1>3. Count(s, Ifs) = Count(t, Ifs) + (IF h.do \in Ifs THEN 1 ELSE 0)
  BY CountOnTop
<1>4. Count(s, Loops) = Count(t, Loops) + (IF h.do \in Loops THEN 1 ELSE 0)
  BY CountOnTop
<1> HIDE DEF s
<1>5. /\ 1 \in DOMAIN s /\ \A i \in DOMAIN t : i + 1 \in DOMAIN s
      /\ \A j \in DOMAIN s : j = 1 \/ \E i \in DOMAIN t : j = i + 1
  <2>1. \A j \in 1..(Len(t) + 1) : j = 1 \/ (j - 1 \in 1..Len(t) /\ j = (j - 1) + 1)
    BY <1>1
  <2>2. \A j \in 1..(Len(t) + 1) : j = 1 \/ \E i \in 1..Len(t) : j = i + 1
    BY <2>1
  <2>3. 1 \in 1..(Len(t) + 1) /\ \A i \in 1..Len(t) : i + 1 \in 1..(Len(t) + 1)
    BY <1>1
  <2> QED
    BY <1>1, <2>2, <2>3
<1>6. Nested(s) <=> Fits(h, t) /\ Nested(t)
  <2>1. Fits(s[1], SubSeq(s, 1 + 1, Len(s))) <=> Fits(h, t)
    BY <1>1, <1>2
  <2>2. \A i \in DOMAIN t : Fits(s[i + 1], SubSeq(s, (i + 1) + 1, Len(s)))
                               <=> Fits(t[i], SubSeq(t, i + 1, Len(t)))
    BY <1>1, <1>2
  <2>3. ASSUME Nested(s) PROVE Fits(h, t) /\ Nested(t)
    BY <1>5, <2>1, <2>2, <2>3 DEF Nested
  <2>4. ASSUME Fits(h, t), Nested(t) PROVE Nested(s)
    <3>1. ASSUME NEW j \in DOMAIN s PROVE Fits(s[j], SubSeq(s, j + 1, Len(s)))
      <4>1. CASE j = 1
        BY <2>1, <2>4, <4>1
      <4>2. CASE \E i \in DOMAIN t : j = i + 1
        BY <2>2, <2>4, <4>2 DEF Nested
      <4> QED
        BY <1>5, <4>1, <4>2
    <3> QED
      BY <3>1 DEF Nested
  <2> QED
    BY <2>3, <2>4
<1>7. Ends(s) = Ends(t) \cup (IF h.do = "arms" THEN {h.end} ELSE {})
  BY <1>1, <1>5 DEF Ends
<1>8. Entries(s) = Entries(t) \cup (IF h.do \in {"loop", "again"} THEN {h.entry} ELSE {})
  BY <1>1, <1>5 DEF Entries
<1>9. Switches(s) = Switches(t) \cup (IF h.do = "cases" THEN {h.at} ELSE {})
  BY <1>1, <1>5 DEF Switches
<1>10. HeldBy(s) = HeldBy(t) \cup Held(h)
  BY <1>1, <1>5 DEF HeldBy
<1>11. Layer(h, t, s)
  BY <1>1, <1>3, <1>4, <1>6, <1>7, <1>8, <1>9, <1>10 DEF Layer, Runner, Below
<1> QED
  BY <1>11 DEF s, On

\* The stack of which Next runs the head.
LEMMA TopLayer ==
  ASSUME NEW s \in Seq(Visitors), s # << >>
  PROVE  Runner(s) \in Visitors /\ Below(s) \in Seq(Visitors) /\ Layer(Runner(s), Below(s), s)
<1>1. /\ Runner(s) \in Visitors /\ Below(s) \in Seq(Visitors)
      /\ s = On(Runner(s), Below(s))
  BY HeadTail DEF Runner, Below, On
<1>2. Layer(Runner(s), Below(s), On(Runner(s), Below(s)))
  BY <1>1, Layered
<1> QED
  BY <1>1, <1>2

\* What replaces the head of a stack, one, two or three visitors.
LEMMA Pushes ==
  ASSUME NEW t \in Seq(Visitors), NEW a \in Visitors, NEW b \in Visitors
  PROVE  /\ << >> \o t = t
         /\ <<a>> \o t = On(a, t)
         /\ <<a, b>> \o t = On(a, On(b, t))
<1>1. << >> \o t = t
  OBVIOUS
<1>2. <<a, b>> \o t = <<a>> \o (<<b>> \o t)
  <2> DEFINE u == <<a, b>> \o t
             v == <<a>> \o (<<b>> \o t)
  <2>1. u \in Seq(Visitors) /\ v \in Seq(Visitors) /\ Len(u) = Len(v)
    OBVIOUS
  <2>2. \A i \in 1..Len(u) : u[i] = v[i]
    OBVIOUS
  <2> HIDE DEF u, v
  <2>3. u = v
    BY <2>1, <2>2, SameSeq
  <2> QED
    BY <2>3 DEF u, v
<1> QED
  BY <1>1, <1>2 DEF On

LEMMA PushesThree ==
  ASSUME NEW t \in Seq(Visitors), NEW a \in Visitors, NEW b \in Visitors, NEW c \in Visitors
  PROVE  OnThree(a, b, c, t) = On(a, On(b, On(c, t)))
<1>1. <<a, b, c>> \o t = <<a>> \o (<<b>> \o (<<c>> \o t))
  <2> DEFINE u == <<a, b, c>> \o t
             w == <<b>> \o (<<c>> \o t)
             v == <<a>> \o w
  <2>1. /\ w \in Seq(Visitors) /\ Len(w) = Len(t) + 2
        /\ w[1] = b /\ w[2] = c /\ \A i \in 1..Len(t) : w[i + 2] = t[i]
    OBVIOUS
  <2>2. /\ u \in Seq(Visitors) /\ Len(u) = Len(t) + 3 /\ u[1] = a /\ u[2] = b /\ u[3] = c
        /\ \A i \in 1..Len(t) : u[i + 3] = t[i]
    OBVIOUS
  <2> HIDE DEF u, w
  <2>3. /\ v \in Seq(Visitors) /\ Len(v) = Len(w) + 1 /\ v[1] = a
        /\ \A i \in 1..Len(w) : v[i + 1] = w[i]
    BY <2>1, OnTop
  <2> HIDE DEF v
  <2>4. ASSUME NEW i \in 1..Len(u) PROVE u[i] = v[i]
    <3>1. CASE i \in 1..3
      <4>1. v[1] = a /\ v[1 + 1] = b /\ v[2 + 1] = c
        BY <2>1, <2>3
      <4> QED
        BY <2>2, <3>1, <4>1
    <3>2. CASE i \notin 1..3
      <4>1. /\ i - 3 \in 1..Len(t) /\ i = (i - 3) + 3 /\ i = (i - 1) + 1
            /\ i - 1 = (i - 3) + 2 /\ i - 1 \in 1..Len(w)
        BY <2>1, <2>2, <3>2
      <4> QED
        BY <2>1, <2>2, <2>3, <4>1
    <3> QED
      BY <3>1, <3>2
  <2>5. u = v
    BY <2>1, <2>2, <2>3, <2>4, SameSeq
  <2> QED
    BY <2>5 DEF u, v, w
<1> QED
  BY <1>1 DEF On, OnThree

LEMMA EmptyStack ==
  /\ Nested(<< >>) /\ Ends(<< >>) = {} /\ Entries(<< >>) = {} /\ Switches(<< >>) = {}
  /\ HeldBy(<< >>) = {} /\ Count(<< >>, Ifs) = 0 /\ Count(<< >>, Loops) = 0
<1>1. DOMAIN << >> = {}
  OBVIOUS
<1>2. /\ Nested(<< >>) /\ Ends(<< >>) = {} /\ Entries(<< >>) = {} /\ Switches(<< >>) = {}
      /\ HeldBy(<< >>) = {}
  BY <1>1 DEF Nested, Ends, Entries, Switches, HeldBy
<1>3. ASSUME NEW K PROVE Count(<< >>, K) = 0
  <2>1. {i \in DOMAIN << >> : << >>[i].do \in K} = {}
    BY <1>1
  <2> QED
    BY <2>1, FS_EmptySet DEF Count
<1> QED
  BY <1>2, <1>3

-----------------------------------------------------------------------------
(***************************************************************************)
(* Adding a statement and patching branches.                               *)
(***************************************************************************)
Contents == [Labels -> Seq(Stmts)]

\* Every statement stays where it is and what it is.
Keeps(f, g) ==
  \A b \in Labels : \A i \in DOMAIN f[b] : i \in DOMAIN g[b] /\ g[b][i].op = f[b][i].op

LEMMA StmtTypes ==
  ASSUME NEW v \in Values, NEW l \in Labels, NEW m \in Labels
  PROVE  /\ Inst(v) \in Stmts /\ Ret(v) \in Stmts /\ Br(l) \in Stmts
         /\ BrCond(v, l, m) \in Stmts /\ Switch(v, <<l>>) \in Stmts
         /\ Mem \in Values
BY DEF Inst, Ret, Br, BrCond, Switch, Stmts, Ops, Values, Mem

LEMMA AppendContent ==
  ASSUME NEW c \in Seq(Stmts), NEW s \in Stmts, Bare(c)
  PROVE  /\ s.op \notin Terminators => Bare(Append(c, s))
         /\ s.op \in Terminators => Closed(Append(c, s))
         /\ s.op = "ret" => Returns(Append(c, s))
<1> DEFINE d == Append(c, s)
<1>1. /\ Len(c) \in Nat /\ Len(d) = Len(c) + 1 /\ DOMAIN d = 1..(Len(c) + 1)
      /\ DOMAIN c = 1..Len(c)
      /\ d[Len(c) + 1] = s /\ \A i \in 1..Len(c) : d[i] = c[i]
  OBVIOUS
<1>2. \A i \in DOMAIN d : i \in DOMAIN c \/ i = Len(c) + 1
  BY <1>1
<1> HIDE DEF d
<1>3. s.op \notin Terminators => Bare(d)
  BY <1>1, <1>2 DEF Bare
<1>4. s.op \in Terminators => Closed(d)
  <2>1. \A i \in DOMAIN d : d[i].op \in Terminators => i = Len(d)
    BY <1>1, <1>2 DEF Bare
  <2>2. Len(d) > 0
    BY <1>1
  <2> QED
    BY <1>1, <2>1, <2>2 DEF Closed
<1>5. s.op = "ret" => Returns(d)
  BY <1>1, <1>4 DEF Returns, Terminators
<1> QED
  BY <1>3, <1>4, <1>5 DEF d

LEMMA EmptyContent == Bare(<< >>) /\ ~Closed(<< >>)
BY DEF Bare, Closed

LEMMA BareOpen ==
  ASSUME NEW c \in Seq(Stmts)
  PROVE  Bare(c) => ~Closed(c) /\ ~Returns(c)
BY DEF Bare, Closed, Returns

LEMMA AddFacts ==
  ASSUME NEW f \in Contents, NEW b \in Labels, NEW s \in Stmts
  PROVE  LET g == Add(f, b, s) IN
         /\ g \in Contents
         /\ g[b] = Append(f[b], s)
         /\ \A c \in Labels \ {b} : g[c] = f[c]
         /\ Keeps(f, g)
<1> DEFINE g == Add(f, b, s)
<1>1. f[b] \in Seq(Stmts) /\ \A c \in Labels : f[c] \in Seq(Stmts)
  BY DEF Contents
<1>2. g = [f EXCEPT ![b] = Append(f[b], s)]
  BY DEF Add
<1>3. g[b] = Append(f[b], s) /\ \A c \in Labels \ {b} : g[c] = f[c]
  BY <1>2 DEF Contents
<1>4. g \in Contents
  BY <1>1, <1>2 DEF Contents
<1>5. Keeps(f, g)
  <2>1. \A i \in DOMAIN f[b] : i \in DOMAIN Append(f[b], s) /\ Append(f[b], s)[i] = f[b][i]
    BY <1>1
  <2> QED
    BY <1>3, <2>1 DEF Keeps
<1> QED
  BY <1>3, <1>4, <1>5

LEMMA AddAimed ==
  ASSUME NEW f \in Contents, NEW b \in Labels, NEW s \in Stmts,
         NEW ok, NEW w, Aimed(f, ok, w),
         NEW ok1, NEW w1, ok \subseteq ok1, w \subseteq w1,
         \A k \in DOMAIN s.to :
           s.to[k] \in ok1 \/ (s.to[k] = UNSET /\ <<<<b, Len(f[b]) + 1>>, k>> \in w1)
  PROVE  Aimed(Add(f, b, s), ok1, w1)
<1> DEFINE g == Add(f, b, s)
<1>1. g[b] = Append(f[b], s) /\ \A c \in Labels \ {b} : g[c] = f[c]
  BY AddFacts
<1>2. f[b] \in Seq(Stmts)
  BY DEF Contents
<1> HIDE DEF g
<1>3. ASSUME NEW c \in Labels, NEW i \in DOMAIN g[c], NEW k \in DOMAIN g[c][i].to
      PROVE  \/ g[c][i].to[k] \in ok1
             \/ g[c][i].to[k] = UNSET /\ <<<<c, i>>, k>> \in w1
  <2>1. CASE i \in DOMAIN f[c] /\ g[c][i] = f[c][i]
    BY <1>3, <2>1 DEF Aimed
  <2>2. CASE c = b /\ i = Len(f[b]) + 1 /\ g[c][i] = s
    BY <1>3, <2>2
  <2>3. CASE c # b
    BY <1>1, <1>3, <2>1, <2>3
  <2>4. CASE c = b
    <3>1. \A j \in DOMAIN Append(f[b], s) :
            \/ j \in DOMAIN f[b] /\ Append(f[b], s)[j] = f[b][j]
            \/ j = Len(f[b]) + 1 /\ Append(f[b], s)[j] = s
      BY <1>2
    <3> QED
      BY <1>1, <1>3, <2>1, <2>2, <2>4, <3>1
  <2> QED
    BY <2>3, <2>4
<1>4. Aimed(g, ok1, w1)
  BY <1>3 DEF Aimed
<1> QED
  BY <1>4 DEF g

LEMMA Aimed1 ==
  ASSUME NEW f, NEW ok, NEW w, Aimed(f, ok, w),
         NEW ok1, NEW w1, ok \subseteq ok1, w \subseteq w1
  PROVE  Aimed(f, ok1, w1)
BY DEF Aimed

LEMMA SeqExcept ==
  ASSUME NEW T, NEW s \in Seq(T), NEW k, NEW x \in T
  PROVE  LET u == [s EXCEPT ![k] = x] IN
         /\ u \in Seq(T) /\ Len(u) = Len(s) /\ DOMAIN u = DOMAIN s
         /\ \A i \in DOMAIN u : u[i] = IF i = k THEN x ELSE s[i]
<1> DEFINE u == [s EXCEPT ![k] = x]
<1>1. Len(s) \in Nat /\ DOMAIN s = 1..Len(s) /\ s \in [1..Len(s) -> T]
  OBVIOUS
<1>2. DOMAIN u = DOMAIN s /\ \A i \in DOMAIN u : u[i] = IF i = k THEN x ELSE s[i]
  BY <1>1
<1>3. u \in [1..Len(s) -> T]
  BY <1>1
<1> HIDE DEF u
<1>4. u \in Seq(T) /\ Len(u) = Len(s)
  BY <1>1, <1>3
<1> QED
  BY <1>2, <1>4 DEF u

Redirect(s, k, l) == [s EXCEPT !.to[k] = l]

LEMMA PatchedStmt ==
  ASSUME NEW s \in Stmts, NEW k, NEW l \in Labels
  PROVE  /\ Redirect(s, k, l) \in Stmts /\ Redirect(s, k, l).op = s.op
         /\ DOMAIN Redirect(s, k, l).to = DOMAIN s.to
         /\ \A i \in DOMAIN s.to : Redirect(s, k, l).to[i] = IF i = k THEN l ELSE s.to[i]
<1> DEFINE u == [s.to EXCEPT ![k] = l]
           t == Redirect(s, k, l)
<1>1. s.to \in Seq(Labels)
  BY DEF Stmts
<1>2. /\ u \in Seq(Labels) /\ Len(u) = Len(s.to) /\ DOMAIN u = DOMAIN s.to
      /\ \A i \in DOMAIN u : u[i] = IF i = k THEN l ELSE s.to[i]
  BY <1>1, SeqExcept
<1>3. t = [s EXCEPT !.to = u]
  BY DEF Redirect
<1> HIDE DEF u, t
<1>4. t = [op |-> s.op, val |-> s.val, to |-> u]
  BY <1>3 DEF Stmts
<1>5. s.op \in Ops /\ s.val \in Values
  BY DEF Stmts
<1>6. (s.op \in {"inst", "ret"} => u = << >>) /\ (s.op = "br" => Len(u) = 1)
       /\ (s.op = "br_cond" => Len(u) = 2)
  <2>1. s.op \in {"inst", "ret"} => s.to = << >>
    BY DEF Stmts
  <2>2. (s.op = "br" => Len(s.to) = 1) /\ (s.op = "br_cond" => Len(s.to) = 2)
    BY DEF Stmts
  <2> QED
    BY <1>2, <2>1, <2>2
<1>7. t \in Stmts
  BY <1>2, <1>4, <1>5, <1>6 DEF Stmts
<1> QED
  BY <1>2, <1>4, <1>7 DEF t

\* Contents with the same statements but for where they branch to.
Alike(f, g) ==
  \A b \in Labels :
    /\ Len(g[b]) = Len(f[b]) /\ DOMAIN g[b] = DOMAIN f[b]
    /\ \A i \in DOMAIN f[b] : g[b][i].op = f[b][i].op

LEMMA PatchAlike ==
  ASSUME NEW f \in Contents, NEW P, NEW k, NEW l \in Labels
  PROVE  Patch(f, P, k, l) \in Contents /\ Alike(f, Patch(f, P, k, l))
<1> DEFINE g == Patch(f, P, k, l)
<1>1. ASSUME NEW b \in Labels
      PROVE  /\ g[b] \in Seq(Stmts) /\ Len(g[b]) = Len(f[b]) /\ DOMAIN g[b] = DOMAIN f[b]
             /\ \A i \in DOMAIN f[b] : g[b][i].op = f[b][i].op
  <2> DEFINE p == [i \in DOMAIN f[b] |->
                     IF <<b, i>> \in P THEN [f[b][i] EXCEPT !.to[k] = l] ELSE f[b][i]]
  <2>1. f[b] \in Seq(Stmts)
    BY DEF Contents
  <2>2. g[b] = p
    BY DEF Patch
  <2>3. ASSUME NEW i \in DOMAIN f[b] PROVE p[i] \in Stmts /\ p[i].op = f[b][i].op
    <3>1. f[b][i] \in Stmts
      BY <2>1
    <3>2. CASE <<b, i>> \in P
      <4>1. p[i] = Redirect(f[b][i], k, l)
        BY <3>2 DEF Redirect
      <4> HIDE DEF p
      <4> QED
        BY <3>1, <4>1, PatchedStmt
    <3>3. CASE <<b, i>> \notin P
      BY <3>1, <3>3
    <3> QED
      BY <3>2, <3>3
  <2>4. DOMAIN f[b] = 1..Len(f[b]) /\ Len(f[b]) \in Nat
    BY <2>1
  <2>5. DOMAIN p = DOMAIN f[b]
    OBVIOUS
  <2> HIDE DEF p
  <2>6. p \in Seq(Stmts) /\ Len(p) = Len(f[b])
    <3>1. p \in [1..Len(f[b]) -> Stmts]
      <4>1. p = [i \in 1..Len(f[b]) |-> p[i]]
        BY <2>4, <2>5 DEF p
      <4> QED
        BY <2>3, <2>4, <4>1
    <3> QED
      BY <2>4, <3>1
  <2> QED
    BY <2>2, <2>3, <2>5, <2>6
<1>2. g \in Contents
  <2>1. g = [b \in Labels |-> g[b]]
    BY DEF Patch
  <2> HIDE DEF g
  <2> QED
    BY <1>1, <2>1 DEF Contents
<1>3. Alike(f, g)
  <2> HIDE DEF g
  <2> QED
    BY <1>1 DEF Alike
<1> QED
  BY <1>2, <1>3

LEMMA AlikeContent ==
  ASSUME NEW f \in Contents, NEW g \in Contents, Alike(f, g), NEW b \in Labels
  PROVE  /\ Bare(f[b]) <=> Bare(g[b])
         /\ Closed(f[b]) <=> Closed(g[b])
         /\ Returns(f[b]) <=> Returns(g[b])
         /\ f[b] = << >> => g[b] = << >>
         /\ Len(g[b]) = Len(f[b])
<1>1. f[b] \in Seq(Stmts) /\ g[b] \in Seq(Stmts)
  BY DEF Contents
<1>2. /\ Len(g[b]) = Len(f[b]) /\ DOMAIN g[b] = DOMAIN f[b]
      /\ \A i \in DOMAIN f[b] : g[b][i].op = f[b][i].op
  BY DEF Alike
<1>3. Len(f[b]) > 0 => Len(f[b]) \in DOMAIN f[b]
  BY <1>1
<1>4. Bare(f[b]) <=> Bare(g[b])
  BY <1>2 DEF Bare
<1>5. Closed(f[b]) <=> Closed(g[b])
  BY <1>2, <1>3 DEF Closed
<1>6. Returns(f[b]) <=> Returns(g[b])
  <2>1. Closed(f[b]) => Len(f[b]) > 0
    BY DEF Closed
  <2> QED
    BY <1>2, <1>3, <1>5, <2>1 DEF Returns
<1>7. f[b] = << >> => g[b] = << >>
  BY <1>1, <1>2
<1> QED
  BY <1>2, <1>4, <1>5, <1>6, <1>7

LEMMA AlikeKeeps ==
  ASSUME NEW f, NEW g, Alike(f, g)
  PROVE  Keeps(f, g)
BY DEF Alike, Keeps

LEMMA KeepsKeeps ==
  ASSUME NEW f, NEW g, NEW h, Keeps(f, g), Keeps(g, h)
  PROVE  Keeps(f, h)
BY DEF Keeps

LEMMA PatchAimed ==
  ASSUME NEW f \in Contents, NEW P, NEW k, NEW l \in Labels,
         NEW ok, NEW w, Aimed(f, ok, w),
         NEW ok1, NEW w1, ok \subseteq ok1, l \in ok1, w \subseteq w1 \cup (P \X {k})
  PROVE  Aimed(Patch(f, P, k, l), ok1, w1)
<1> DEFINE g == Patch(f, P, k, l)
<1>1. ASSUME NEW b \in Labels, NEW i \in DOMAIN g[b], NEW m \in DOMAIN g[b][i].to
      PROVE  \/ g[b][i].to[m] \in ok1
             \/ g[b][i].to[m] = UNSET /\ <<<<b, i>>, m>> \in w1
  <2>1. i \in DOMAIN f[b] /\ f[b][i] \in Stmts
    BY PatchAlike DEF Alike, Contents
  <2>2. g[b][i] = IF <<b, i>> \in P THEN Redirect(f[b][i], k, l) ELSE f[b][i]
    BY <2>1 DEF Patch, Redirect
  <2> HIDE DEF g
  <2>3. CASE <<b, i>> \in P
    <3>1. /\ m \in DOMAIN f[b][i].to
          /\ g[b][i].to[m] = IF m = k THEN l ELSE f[b][i].to[m]
      BY <1>1, <2>1, <2>2, <2>3, PatchedStmt
    <3>2. CASE m = k
      BY <3>1, <3>2
    <3>3. CASE m # k
      BY <2>1, <3>1, <3>3 DEF Aimed
    <3> QED
      BY <3>2, <3>3
  <2>4. CASE <<b, i>> \notin P
    BY <1>1, <2>1, <2>2, <2>4 DEF Aimed
  <2> QED
    BY <2>3, <2>4
<1> HIDE DEF g
<1>2. Aimed(g, ok1, w1)
  BY <1>1 DEF Aimed
<1> QED
  BY <1>2 DEF g

(***************************************************************************)
(* The tables of jumps to patch.                                           *)
(***************************************************************************)
Tables == Seq(SUBSET Places)

LEMMA TableAppend ==
  ASSUME NEW j \in Tables
  PROVE  /\ Append(j, {}) \in Tables /\ Len(Append(j, {})) = Len(j) + 1
         /\ Collected(j) \subseteq Collected(Append(j, {}))
<1>1. /\ Append(j, {}) \in Tables /\ Len(Append(j, {})) = Len(j) + 1
      /\ \A i \in DOMAIN j : i \in DOMAIN Append(j, {}) /\ Append(j, {})[i] = j[i]
  BY DEF Tables
<1>2. Collected(j) \subseteq Collected(Append(j, {}))
  BY <1>1 DEF Collected, Range
<1> QED
  BY <1>1, <1>2

LEMMA TablePush ==
  ASSUME NEW j \in Tables, Len(j) > 0, NEW p \in Places
  PROVE  /\ PushBack(j, p) \in Tables /\ Len(PushBack(j, p)) = Len(j)
         /\ Collected(j) \subseteq Collected(PushBack(j, p))
         /\ <<p, 1>> \in Collected(PushBack(j, p))
<1>1. Len(j) \in DOMAIN j /\ j[Len(j)] \in SUBSET Places
  BY DEF Tables
<1> DEFINE n == Len(j)
           u == [j EXCEPT ![n] = j[n] \cup {p}]
<1>2. PushBack(j, p) = u
  BY DEF PushBack
<1>3. j[n] \cup {p} \in SUBSET Places
  BY <1>1
<1> HIDE DEF n
<1>4. u \in Tables /\ Len(u) = Len(j) /\ DOMAIN u = DOMAIN j
  BY <1>3, SeqExcept DEF Tables
<1>5. n \in DOMAIN u /\ p \in u[n] /\ \A i \in DOMAIN j : j[i] \subseteq u[i]
  BY <1>1 DEF n, Tables
<1> HIDE DEF u
<1>6. Collected(j) \subseteq Collected(u) /\ <<p, 1>> \in Collected(u)
  BY <1>4, <1>5 DEF Collected, Range
<1> QED
  BY <1>2, <1>4, <1>6

LEMMA TablePop ==
  ASSUME NEW j \in Tables, Len(j) > 0
  PROVE  /\ Pop(j) \in Tables /\ Len(Pop(j)) = Len(j) - 1
         /\ Top(j) \in SUBSET Places
         /\ Collected(j) = Collected(Pop(j)) \cup (Top(j) \X {1})
<1>1. Len(j) \in DOMAIN j /\ Top(j) = j[Len(j)] /\ j[Len(j)] \in SUBSET Places
  BY DEF Tables, Top
<1>2. /\ Pop(j) \in Tables /\ Len(Pop(j)) = Len(j) - 1
      /\ DOMAIN Pop(j) = 1..(Len(j) - 1) /\ DOMAIN j = 1..Len(j) /\ Len(j) \in Nat
      /\ \A i \in 1..(Len(j) - 1) : Pop(j)[i] = j[i]
  <2>1. Len(j) \in Nat /\ DOMAIN j = 1..Len(j) /\ Len(j) - 1 \in Nat /\ j \in Seq(SUBSET Places)
    BY DEF Tables
  <2> DEFINE n == Len(j) - 1
             u == SubSeq(j, 1, n)
  <2>2. n <= Len(j) /\ n \in Nat
    BY <2>1
  <2> HIDE DEF n
  <2>3. u \in Seq(SUBSET Places) /\ Len(u) = n /\ DOMAIN u = 1..n /\ \A i \in 1..n : u[i] = j[i]
    BY <2>1, <2>2
  <2> QED
    BY <2>1, <2>3 DEF Pop, n, Tables
<1>3. \A i \in 1..Len(j) : i \in 1..(Len(j) - 1) \/ i = Len(j)
  BY <1>2
<1>4. Range(j) = Range(Pop(j)) \cup {Top(j)}
  <2>1. \A i \in 1..(Len(j) - 1) : i \in 1..Len(j)
    BY <1>2
  <2> QED
    BY <1>1, <1>2, <1>3, <2>1 DEF Range
<1>5. Collected(j) = Collected(Pop(j)) \cup (Top(j) \X {1})
  BY <1>4 DEF Collected
<1> QED
  BY <1>1, <1>2, <1>5

LEMMA TableEmpty == Collected(<< >>) = {}
BY DEF Collected, Range

-----------------------------------------------------------------------------
(***************************************************************************)
(* What a visitor does to the blocks, one statement or patch at a time.    *)
(***************************************************************************)
\* Where the next statement of block b goes.
Spot(f, b) == <<b, Len(f[b]) + 1>>

\* Statement s, added to block b, leads to labels of ok, or waits.
Leads(s, f, b, ok, waiting) ==
  \A k \in DOMAIN s.to : s.to[k] \in ok \/ (s.to[k] = UNSET /\ <<Spot(f, b), k>> \in waiting)

\* Arm k of the branch at place p.
Jump(p, k) == <<p, k>>

LEMMA LeadsBr ==
  ASSUME NEW l, NEW f, NEW b, NEW ok, NEW w,
         l \in ok \/ (l = UNSET /\ Jump(Spot(f, b), 1) \in w)
  PROVE  Leads(Br(l), f, b, ok, w)
BY DEF Leads, Br, Jump

LEMMA LeadsBrCond ==
  ASSUME NEW v, NEW l, NEW m, NEW f, NEW b, NEW ok, NEW w,
         l \in ok \/ (l = UNSET /\ Jump(Spot(f, b), 1) \in w),
         m \in ok \/ (m = UNSET /\ Jump(Spot(f, b), 2) \in w)
  PROVE  Leads(BrCond(v, l, m), f, b, ok, w)
BY DEF Leads, BrCond, Jump

LEMMA EmitAdd ==
  ASSUME NEW f \in Contents, NEW live, live \subseteq Labels, NEW now,
         NEW ok, NEW w, NEW sw, sw \subseteq Places, Emitted(f, "open", live, now, ok, w, sw),
         NEW s \in Stmts,
         Leads(s, f, now, ok, w),
         NEW g, g = Add(f, now, s)
  PROVE  /\ g \in Contents
         /\ Emitted(g, "open", live, now, ok, w, sw)
         /\ Len(g[now]) = Len(f[now]) + 1
         /\ Bare(f[now]) /\ s.op \notin Terminators => Bare(g[now])
         /\ Bare(f[now]) /\ s.op \in Terminators => Closed(g[now])
         /\ Bare(f[now]) /\ s.op = "ret" => Returns(g[now])
<1>1. now \in Labels /\ now \in live /\ now \notin {ALLOCA, MOVEREG} /\ f[now] \in Seq(Stmts)
  BY DEF Emitted, Contents
<1>2. /\ g \in Contents /\ g[now] = Append(f[now], s)
      /\ \A c \in Labels \ {now} : g[c] = f[c]
      /\ Keeps(f, g)
  BY <1>1, AddFacts
<1>3. Aimed(g, ok, w)
  <2>1. Aimed(f, ok, w)
    BY DEF Emitted
  <2> QED
    BY <1>1, <2>1, AddAimed DEF Leads, Spot
<1>4. \A p \in sw : p[2] \in DOMAIN g[p[1]] /\ g[p[1]][p[2]].op = "switch"
  BY <1>2 DEF Emitted, Keeps, Places
<1>5. {ALLOCA, MOVEREG} \subseteq Labels \/ \A b \in {ALLOCA, MOVEREG} : Bare(f[b])
  BY DEF Emitted
<1>6. \A b \in {ALLOCA, MOVEREG} : Bare(g[b])
  <2>1. g = [f EXCEPT ![now] = Append(f[now], s)]
    BY DEF Add
  <2>2. \A b \in {ALLOCA, MOVEREG} : g[b] = f[b]
    BY <1>1, <2>1 DEF Contents
  <2> QED
    BY <2>2 DEF Emitted
<1>7. Emitted(g, "open", live, now, ok, w, sw)
  BY <1>1, <1>2, <1>3, <1>4, <1>6 DEF Emitted
<1>8. Len(g[now]) = Len(f[now]) + 1
  BY <1>1, <1>2
<1> QED
  BY <1>1, <1>2, <1>7, <1>8, AppendContent

LEMMA EmitFirst ==
  ASSUME NEW f \in Contents, NEW live, live \subseteq Labels, NEW now,
         NEW ok, NEW w, NEW sw, sw \subseteq Places, Emitted(f, "open", live, now, ok, w, sw),
         NEW b \in {ALLOCA, MOVEREG}, b \in live, NEW g, g = Add(f, b, Inst(Mem))
  PROVE  /\ g \in Contents
         /\ Emitted(g, "open", live, now, ok, w, sw)
         /\ g[now] = f[now]
<1> DEFINE s == Inst(Mem)
<1>1. s \in Stmts /\ s.op \notin Terminators /\ s.to = << >>
  BY DEF Inst, Stmts, Ops, Values, Mem, Terminators
<1>2. b \in Labels /\ f[b] \in Seq(Stmts) /\ now \in Labels \ {b}
  BY DEF Emitted, Contents
<1> HIDE DEF s
<1>3. /\ g \in Contents /\ g[b] = Append(f[b], s)
      /\ \A c \in Labels \ {b} : g[c] = f[c]
      /\ Keeps(f, g)
  BY <1>1, <1>2, AddFacts DEF s
<1>4. Aimed(g, ok, w)
  <2>1. Aimed(f, ok, w)
    BY DEF Emitted
  <2>2. DOMAIN s.to = {}
    BY <1>1
  <2> QED
    BY <1>1, <1>2, <2>1, <2>2, AddAimed DEF s
<1>5. \A p \in sw : p[2] \in DOMAIN g[p[1]] /\ g[p[1]][p[2]].op = "switch"
  BY <1>3 DEF Emitted, Keeps, Places
<1>6. \A c \in {ALLOCA, MOVEREG} : Bare(g[c])
  <2>1. g = [f EXCEPT ![b] = Append(f[b], s)]
    BY DEF Add, s
  <2>2. \A c \in {ALLOCA, MOVEREG} \ {b} : g[c] = f[c]
    BY <2>1 DEF Contents
  <2>3. Bare(f[b])
    BY DEF Emitted
  <2>4. Bare(g[b])
    BY <1>1, <1>2, <1>3, <2>3, AppendContent
  <2> QED
    BY <2>2, <2>4 DEF Emitted
<1>7. \A c \in live \ {now, ALLOCA, MOVEREG} : g[c] = f[c]
  BY <1>3
<1>8. \A c \in Labels \ live : g[c] = f[c]
  BY <1>3
<1>9. Emitted(g, "open", live, now, ok, w, sw)
  BY <1>4, <1>5, <1>6, <1>7, <1>8 DEF Emitted
<1> QED
  BY <1>2, <1>3, <1>9

LEMMA EmitInst ==
  ASSUME NEW f \in Contents, NEW live, live \subseteq Labels, NEW now,
         NEW ok, NEW w, NEW sw, sw \subseteq Places, Emitted(f, "open", live, now, ok, w, sw),
         NEW v \in Values, NEW g, g = Add(f, now, Inst(v))
  PROVE  /\ g \in Contents
         /\ Emitted(g, "open", live, now, ok, w, sw)
         /\ Bare(f[now]) => Bare(g[now])
         /\ Len(g[now]) = Len(f[now]) + 1
<1> DEFINE s == Inst(v)
<1>1. s \in Stmts /\ s.op \notin Terminators /\ s.to = << >>
  BY DEF Inst, Stmts, Ops, Values, Terminators
<1>2. Leads(s, f, now, ok, w)
  BY <1>1 DEF Leads
<1>3. g = Add(f, now, s)
  OBVIOUS
<1> HIDE DEF s
<1>4. /\ g \in Contents
      /\ Emitted(g, "open", live, now, ok, w, sw)
      /\ Len(g[now]) = Len(f[now]) + 1
      /\ Bare(f[now]) /\ s.op \notin Terminators => Bare(g[now])
  BY <1>1, <1>2, <1>3, EmitAdd
<1> QED
  BY <1>1, <1>4

\* The blocks with one more.
Plus(live, l) == live \cup {l}

LEMMA EmitNew ==
  ASSUME NEW f \in Contents, NEW live, live \subseteq Labels, {ALLOCA, MOVEREG} \subseteq live,
         NEW now, NEW ok, NEW w, NEW sw, Emitted(f, "open", live, now, ok, w, sw),
         Closed(f[now]), NEW l \in Labels \ live
  PROVE  /\ Emitted(f, "open", Plus(live, l), l, ok, w, sw)
         /\ f[l] = << >> /\ Bare(f[l]) /\ ~Closed(f[l])
         /\ Plus(live, l) \subseteq Labels
<1>1. f[l] = << >>
  BY DEF Emitted
<1>2. Emitted(f, "open", Plus(live, l), l, ok, w, sw)
  BY DEF Emitted, Plus
<1> QED
  BY <1>1, <1>2, EmptyContent DEF Plus

LEMMA EmitPatch ==
  ASSUME NEW f \in Contents, NEW live, live \subseteq Labels, {ALLOCA, MOVEREG} \subseteq live,
         NEW now, NEW ok, NEW w, NEW sw, sw \subseteq Places, NEW first,
         Emitted(f, first, live, now, ok, w, sw),
         NEW P, NEW k, NEW l \in Labels, NEW ok1, NEW w1,
         ok \subseteq ok1, l \in ok1, w \subseteq w1 \cup (P \X {k}),
         NEW g, g = Patch(f, P, k, l)
  PROVE  /\ g \in Contents
         /\ Emitted(g, first, live, now, ok1, w1, sw)
         /\ Bare(f[now]) <=> Bare(g[now])
         /\ Closed(f[now]) <=> Closed(g[now])
         /\ Returns(f[now]) <=> Returns(g[now])
         /\ Len(g[now]) = Len(f[now])
<1>1. g \in Contents /\ Alike(f, g) /\ Keeps(f, g)
  BY PatchAlike, AlikeKeeps
<1>2. Aimed(g, ok1, w1)
  <2>1. Aimed(f, ok, w)
    BY DEF Emitted
  <2> QED
    BY <2>1, PatchAimed
<1>3. \A b \in Labels : /\ Bare(f[b]) <=> Bare(g[b])
                        /\ Closed(f[b]) <=> Closed(g[b])
                        /\ Returns(f[b]) <=> Returns(g[b])
                        /\ f[b] = << >> => g[b] = << >>
                        /\ Len(g[b]) = Len(f[b])
  BY <1>1, AlikeContent
<1>4. \A p \in sw : p[2] \in DOMAIN g[p[1]] /\ g[p[1]][p[2]].op = "switch"
  BY <1>1 DEF Emitted, Keeps, Places
<1>5. now \in Labels
  BY DEF Emitted
<1>6. /\ now \in live \ {ALLOCA, MOVEREG}
      /\ \A b \in live \ {now, ALLOCA, MOVEREG} : Closed(g[b])
      /\ \A b \in {ALLOCA, MOVEREG} : IF first = "closed" THEN Closed(g[b]) ELSE Bare(g[b])
      /\ \A b \in Labels \ live : g[b] = << >>
  BY <1>3 DEF Emitted
<1>7. Emitted(g, first, live, now, ok1, w1, sw)
  BY <1>2, <1>4, <1>6 DEF Emitted
<1> QED
  BY <1>1, <1>3, <1>5, <1>7

\* What a patch needs: its target is known, and what waited is patched or waits.
PatchFits(live, sw, ok, ok1, w, w1, P, k, l) ==
  /\ live \subseteq Labels /\ {ALLOCA, MOVEREG} \subseteq live /\ sw \subseteq Places
  /\ l \in Labels /\ l \in ok1 /\ ok \subseteq ok1 /\ w \subseteq w1 \cup (P \X {k})

LEMMA EmitPatched ==
  ASSUME NEW f \in Contents, NEW live, NEW now, NEW ok, NEW w, NEW sw, NEW first,
         Emitted(f, first, live, now, ok, w, sw),
         NEW P, NEW k, NEW l, NEW ok1, NEW w1, PatchFits(live, sw, ok, ok1, w, w1, P, k, l),
         NEW g, g = Patch(f, P, k, l)
  PROVE  /\ g \in Contents
         /\ Emitted(g, first, live, now, ok1, w1, sw)
         /\ Bare(f[now]) <=> Bare(g[now])
         /\ Closed(f[now]) <=> Closed(g[now])
         /\ Returns(f[now]) <=> Returns(g[now])
         /\ Len(g[now]) = Len(f[now])
<1>1. /\ live \subseteq Labels /\ {ALLOCA, MOVEREG} \subseteq live /\ sw \subseteq Places
      /\ l \in Labels /\ l \in ok1 /\ ok \subseteq ok1 /\ w \subseteq w1 \cup (P \X {k})
  BY DEF PatchFits
<1> QED
  BY <1>1, EmitPatch

LEMMA EmitWeaker ==
  ASSUME NEW f, NEW first, NEW live, NEW now, NEW ok, NEW w, NEW sw,
         Emitted(f, first, live, now, ok, w, sw),
         NEW ok1, NEW w1, NEW sw1, ok \subseteq ok1, w \subseteq w1, sw1 \subseteq sw
  PROVE  Emitted(f, first, live, now, ok1, w1, sw1)
BY Aimed1 DEF Emitted

-----------------------------------------------------------------------------
(***************************************************************************)
(* The stack of a running visitor, and what can replace it.                *)
(***************************************************************************)
Light(v) == v.do \notin {"arms", "loop", "again", "cases"}

LEMMA EmptyIff ==
  ASSUME NEW s \in Seq(Visitors), Nested(s), s # << >>
  PROVE  Fits(Runner(s), Below(s)) /\ Nested(Below(s))
BY TopLayer DEF Layer

LEMMA Running ==
  ASSUME GenInv, todo # << >>
  PROVE  /\ Runner(todo) \in Visitors /\ Below(todo) \in Seq(Visitors)
         /\ Layer(Runner(todo), Below(todo), todo)
         /\ Fits(Runner(todo), Below(todo)) /\ Nested(Below(todo))
         /\ stmts \in Contents /\ order \in Seq(Labels) /\ Live \subseteq Labels
         /\ {ALLOCA, MOVEREG, ENTRY} \subseteq Live
         /\ block \in Live /\ block \in Labels /\ nextLabel \in Nat
         /\ nextLabel \notin Live \cup Ends(todo)
         /\ Emitted(stmts, "open", Live, block, Known(todo, Live),
                    Waiting(todo, jumpOut, breaks, continues), Switches(todo))
         /\ Switches(todo) \subseteq Places
         /\ stmts[block] \in Seq(Stmts)
<1>1. /\ todo \in Seq(Visitors) /\ stmts \in Contents /\ order \in Seq(Labels)
      /\ nextLabel \in Nat
  BY DEF GenInv, Typed, FuncTypeOK, Contents
<1>2. /\ Runner(todo) \in Visitors /\ Below(todo) \in Seq(Visitors)
      /\ Layer(Runner(todo), Below(todo), todo)
  BY <1>1, TopLayer
<1>3. Fits(Runner(todo), Below(todo)) /\ Nested(Below(todo))
  BY <1>1, EmptyIff DEF GenInv, Stacked
<1>4. Live \subseteq Labels
  BY <1>1 DEF Live, Range
<1>5. {ALLOCA, MOVEREG, ENTRY} \subseteq Live /\ nextLabel \notin Live \cup Ends(todo)
  BY <1>1 DEF GenInv, Numbered
<1>6. Emitted(stmts, "open", Live, block, Known(todo, Live),
              Waiting(todo, jumpOut, breaks, continues), Switches(todo))
  BY DEF GenInv
<1>7. block \in Live
  BY <1>6 DEF Emitted
<1>8. Switches(todo) \subseteq Places
  <2>1. \A i \in DOMAIN todo : todo[i] \in Visitors
    BY <1>1
  <2>2. \A v \in Visitors : v.do = "cases" => v.at \in Places
    BY DEF Visitors
  <2> QED
    BY <2>1, <2>2 DEF Switches
<1>9. stmts[block] \in Seq(Stmts)
  BY <1>1, <1>4, <1>7 DEF Contents
<1> QED
  BY <1>1, <1>2, <1>3, <1>4, <1>5, <1>6, <1>7, <1>8, <1>9

\* A visitor of no table, no label and no switch goes away.
LEMMA PopLight ==
  ASSUME NEW s \in Seq(Visitors), s # << >>, Light(Runner(s)),
         NEW j, NEW b, NEW c, Stacked(s, j, b, c), NEW live, NEW n, Numbered(s, live, n),
         NEW t, t = Below(s)
  PROVE  /\ t \in Seq(Visitors) /\ Stacked(t, j, b, c) /\ Numbered(t, live, n)
         /\ Known(t, live) = Known(s, live) /\ Switches(t) = Switches(s)
         /\ Waiting(s, j, b, c) = Waiting(t, j, b, c) \cup Held(Runner(s))
<1>1. Layer(Runner(s), t, s) /\ t \in Seq(Visitors)
  BY TopLayer
<1>2. Count(t, Ifs) \in Nat /\ Count(t, Loops) \in Nat
  BY <1>1, CountType
<1>3. /\ Ends(t) = Ends(s) /\ Entries(t) = Entries(s) /\ Switches(t) = Switches(s)
      /\ HeldBy(s) = HeldBy(t) \cup Held(Runner(s))
  BY <1>1 DEF Layer, Light
<1>4. Count(t, Ifs) = Count(s, Ifs) /\ Count(t, Loops) = Count(s, Loops)
  BY <1>1, <1>2 DEF Layer, Light, Ifs, Loops
<1>5. Nested(t)
  BY <1>1 DEF Layer, Stacked
<1> QED
  BY <1>1, <1>3, <1>4, <1>5 DEF Stacked, Numbered, Known, Waiting

\* Such a visitor comes on top.
LEMMA PushLight ==
  ASSUME NEW t \in Seq(Visitors), NEW v \in Visitors, Light(v), Fits(v, t),
         NEW j, NEW b, NEW c, Stacked(t, j, b, c), NEW live, NEW n, Numbered(t, live, n),
         NEW s, s = On(v, t)
  PROVE  /\ s \in Seq(Visitors) /\ s # << >> /\ Runner(s) = v
         /\ Stacked(s, j, b, c) /\ Numbered(s, live, n)
         /\ Known(s, live) = Known(t, live) /\ Switches(s) = Switches(t)
         /\ Ends(s) = Ends(t)
         /\ Waiting(s, j, b, c) = Waiting(t, j, b, c) \cup Held(v)
<1>1. Layer(v, t, s)
  BY Layered
<1>2. Count(t, Ifs) \in Nat /\ Count(t, Loops) \in Nat
  BY CountType
<1>3. /\ Ends(t) = Ends(s) /\ Entries(t) = Entries(s) /\ Switches(t) = Switches(s)
      /\ HeldBy(s) = HeldBy(t) \cup Held(v)
  BY <1>1 DEF Layer, Light
<1>4. Count(t, Ifs) = Count(s, Ifs) /\ Count(t, Loops) = Count(s, Loops)
  BY <1>1, <1>2 DEF Layer, Light, Ifs, Loops
<1>5. Nested(s) /\ s \in Seq(Visitors) /\ s # << >> /\ Runner(s) = v
  BY <1>1 DEF Layer, Stacked
<1> QED
  BY <1>3, <1>4, <1>5 DEF Stacked, Numbered, Known, Waiting

LEMMA AppendOrder ==
  ASSUME NEW o \in Seq(Labels), o # << >>, NEW l \in Labels
  PROVE  /\ Append(o, l) \in Seq(Labels) /\ Append(o, l) # << >>
         /\ Append(o, l)[1] = o[1]
         /\ Range(Append(o, l)) = Range(o) \cup {l}
<1>1. /\ Append(o, l) \in Seq(Labels) /\ Append(o, l) # << >> /\ Append(o, l)[1] = o[1]
      /\ DOMAIN o = 1..Len(o) /\ Len(o) \in Nat /\ DOMAIN Append(o, l) = 1..(Len(o) + 1)
      /\ \A i \in 1..Len(o) : Append(o, l)[i] = o[i]
      /\ Append(o, l)[Len(o) + 1] = l
  OBVIOUS
<1> DEFINE p == Append(o, l)
<1> HIDE DEF p
<1>2. /\ \A i \in DOMAIN p : i \in DOMAIN o \/ i = Len(o) + 1
      /\ \A i \in DOMAIN o : i \in DOMAIN p
      /\ Len(o) + 1 \in DOMAIN p
  BY <1>1 DEF p
<1>3. Range(p) = Range(o) \cup {l}
  BY <1>1, <1>2 DEF Range, p
<1> QED
  BY <1>1, <1>3 DEF p

LEMMA EndsLabels ==
  ASSUME NEW s \in Seq(Visitors)
  PROVE  Ends(s) \subseteq Labels /\ Entries(s) \subseteq Labels
<1>1. \A i \in DOMAIN s : s[i] \in Visitors
  OBVIOUS
<1>2. \A v \in Visitors : (v.do = "arms" => v.end \in Labels)
                          /\ (v.do \in {"loop", "again"} => v.entry \in Labels)
  BY DEF Visitors
<1> QED
  BY <1>1, <1>2 DEF Ends, Entries

\* Labels never run out.
Unbounded == Labels = Nat

LEMMA NumberedNew ==
  ASSUME Unbounded, NEW s \in Seq(Visitors), NEW live, live \subseteq Labels, NEW n \in Labels,
         Numbered(s, live, n)
  PROVE  /\ Numbered(s, Plus(live, n), n + 1)
         /\ n \in Known(s, Plus(live, n)) /\ Known(s, live) \subseteq Known(s, Plus(live, n))
<1>1. Ends(s) \subseteq Nat /\ live \subseteq Nat /\ n \in Nat
  BY EndsLabels DEF Unbounded
<1>2. \A l \in live \cup Ends(s) : l < n
  BY DEF Numbered
<1>3. n \notin Ends(s) /\ n # ALLOCA
  BY <1>1, <1>2 DEF Numbered, ALLOCA, MOVEREG
<1>4. \A l \in Plus(live, n) \cup Ends(s) : l < n + 1
  BY <1>1, <1>2 DEF Plus
<1>5. Numbered(s, Plus(live, n), n + 1)
  BY <1>3, <1>4 DEF Numbered, Plus
<1> QED
  BY <1>3, <1>5 DEF Known, Plus

LEMMA TokenSeq ==
  ASSUME GenInv, NEW a \in Tokens, NEW b \in Tokens
  PROVE  /\ Visited(<<a>>) => mir' \in Seq(Tokens)
         /\ Visited(<<a, b>>) => mir' \in Seq(Tokens)
         /\ Here \in Nat
<1>1. mir \in Seq(Tokens)
  BY DEF GenInv, Typed
<1>2. <<a>> \in Seq(Tokens) /\ <<a, b>> \in Seq(Tokens)
  OBVIOUS
<1>3. mir \o <<a>> \in Seq(Tokens) /\ mir \o <<a, b>> \in Seq(Tokens)
  BY <1>1, <1>2
<1>4. Here \in Nat
  BY <1>1 DEF Here
<1> QED
  BY <1>3, <1>4 DEF Visited

\* A new block, in the terms of the invariant.
LEMMA NewBlockFacts ==
  ASSUME Unbounded, GenInv, todo # << >>, NewBlock(nextLabel)
  PROVE  /\ order' \in Seq(Labels) /\ order' # << >> /\ order'[1] = ALLOCA
         /\ Live' = Plus(Live, nextLabel) /\ block' = nextLabel
         /\ nextLabel' = nextLabel + 1 /\ nextLabel' \in Nat
         /\ nextLabel \in Labels \ Live
<1>1. order \in Seq(Labels) /\ order # << >> /\ order[1] = ALLOCA /\ nextLabel \in Nat
  BY DEF GenInv, Typed, FuncTypeOK
<1>2. order' = Append(order, nextLabel) /\ block' = nextLabel /\ nextLabel' = nextLabel + 1
  BY DEF NewBlock
<1>3. nextLabel \notin Live
  BY Running
<1>4. nextLabel \in Labels /\ nextLabel + 1 \in Nat
  BY <1>1 DEF Unbounded
<1> QED
  BY <1>1, <1>2, <1>3, <1>4, AppendOrder DEF Live, Plus

\* What holds of the stack and of the current block when a visitor that needs an
\* open block runs.
Openers == {"expr", "left", "right", "block", "init", "retv", "cond", "switch", "loop"}

LEMMA OpenBlock ==
  ASSUME GenInv, todo # << >>, Runner(todo).do \in Openers
  PROVE  /\ Light(Runner(todo)) \/ Runner(todo).do = "loop"
         /\ Bare(stmts[block])
         /\ Below(todo) # << >>
         /\ Runner(todo).do # "right" => Held(Runner(todo)) = {}
<1>1. Ready(todo, stmts[block])
  BY DEF GenInv
<1>2. Bare(stmts[block])
  BY <1>1 DEF Ready, Openers, AfterBlock
<1>3. Below(todo) # << >>
  BY Running DEF Fits, Openers
<1> QED
  BY <1>2, <1>3 DEF Openers, Light, Held

LEMMA ReadyOpen ==
  ASSUME NEW s, s # << >>, Runner(s).do \in Openers, NEW c
  PROVE  Ready(s, c) <=> Bare(c)
BY DEF Ready, Openers, AfterBlock

LEMMA ValueDone ==
  ASSUME GenInv, todo # << >>, Runner(todo).do \in {"expr", "right"},
         NEW t, t = Below(todo)
  PROVE  /\ t \in Seq(Visitors) /\ t # << >> /\ Runner(t).do \in Openers
         /\ Stacked(t, jumpOut, breaks, continues) /\ Numbered(t, Live, nextLabel)
         /\ Known(t, Live) = Known(todo, Live) /\ Switches(t) = Switches(todo)
         /\ Waiting(todo, jumpOut, breaks, continues)
              = Waiting(t, jumpOut, breaks, continues) \cup Held(Runner(todo))
         /\ Bare(stmts[block])
         /\ \A c : Ready(t, c) <=> Bare(c)
<1>1. todo \in Seq(Visitors) /\ Stacked(todo, jumpOut, breaks, continues)
      /\ Numbered(todo, Live, nextLabel)
  BY DEF GenInv, Typed
<1>2. Light(Runner(todo)) /\ Bare(stmts[block]) /\ t # << >>
  BY OpenBlock DEF Openers, Light
<1>3. Runner(t).do \in Openers
  BY <1>2, Running DEF Fits, AfterValue, Openers
<1>4. \A c : Ready(t, c) <=> Bare(c)
  BY <1>2, <1>3, ReadyOpen
<1>5. /\ t \in Seq(Visitors) /\ Stacked(t, jumpOut, breaks, continues)
      /\ Numbered(t, Live, nextLabel)
      /\ Known(t, Live) = Known(todo, Live) /\ Switches(t) = Switches(todo)
      /\ Waiting(todo, jumpOut, breaks, continues)
           = Waiting(t, jumpOut, breaks, continues) \cup Held(Runner(todo))
  BY <1>1, <1>2, PopLight
<1> QED
  BY <1>2, <1>3, <1>4, <1>5

-----------------------------------------------------------------------------
(***************************************************************************)
(* Expressions.                                                            *)
(***************************************************************************)
LEMMA VisitLiteralStep ==
  ASSUME GenInv, VisitLiteral
  PROVE  GenInv'
<1> DEFINE t == Below(todo)
<1>1. /\ todo # << >> /\ Runner(todo).do = "expr" /\ todo' = t
      /\ UNCHANGED <<order, stmts, block, nextLabel, jumpOut, breaks, continues>>
  <2>1. t \in Seq(Visitors)
    BY Running DEF VisitLiteral, Runs, Runner
  <2> QED
    BY <2>1, Pushes DEF VisitLiteral, Runs, Then, Runner, Below
<1>2. value' \in Values /\ mir' \in Seq(Tokens)
  <2>1. PICK b \in {"true", "false"} : value' = Lit(IF b = "true" THEN 1 ELSE 0) /\ Visited(<<b>>)
    BY DEF VisitLiteral
  <2>2. value' \in Values
    BY <2>1 DEF Lit, Values
  <2>3. b \in Tokens
    BY <2>1 DEF Tokens, Marks
  <2> QED
    BY <2>1, <2>2, <2>3, TokenSeq
<1>3. Held(Runner(todo)) = {}
  BY <1>1 DEF Held
<1>4. /\ t \in Seq(Visitors) /\ t # << >>
      /\ Stacked(t, jumpOut, breaks, continues) /\ Numbered(t, Live, nextLabel)
      /\ Known(t, Live) = Known(todo, Live) /\ Switches(t) = Switches(todo)
      /\ Waiting(todo, jumpOut, breaks, continues) = Waiting(t, jumpOut, breaks, continues)
      /\ Ready(t, stmts[block])
  BY <1>1, <1>3, ValueDone
<1>5. Live' = Live
  BY <1>1 DEF Live
<1> HIDE DEF t
<1> QED
  BY <1>1, <1>2, <1>4, <1>5, Running DEF GenInv, Typed, FuncTypeOK

LEMMA HereNatural ==
  ASSUME GenInv
  PROVE  Here \in Nat /\ <<"var", Here>> \in Values /\ <<"inst", Here>> \in Values
<1>1. Here \in Nat
  BY DEF GenInv, Typed, Here
<1> QED
  BY <1>1 DEF Values

\* Visitor a may stand on visitor b.
Sits(a, b) == \A u : u # << >> /\ Runner(u) = b => Fits(a, u)

LEMMA PushTwo ==
  ASSUME NEW t \in Seq(Visitors), NEW v \in Visitors, NEW u \in Visitors,
         Light(v), Light(u), Fits(u, t), Sits(v, u),
         NEW j, NEW b, NEW c, Stacked(t, j, b, c), NEW live, NEW n, Numbered(t, live, n),
         NEW s, s = On(v, On(u, t))
  PROVE  /\ s \in Seq(Visitors) /\ s # << >> /\ Runner(s) = v
         /\ Stacked(s, j, b, c) /\ Numbered(s, live, n)
         /\ Known(s, live) = Known(t, live) /\ Switches(s) = Switches(t)
         /\ Waiting(s, j, b, c) = Waiting(t, j, b, c) \cup Held(v) \cup Held(u)
<1> DEFINE r == On(u, t)
<1>1. s = On(v, r)
  OBVIOUS
<1>2. /\ r \in Seq(Visitors) /\ r # << >> /\ Runner(r) = u
      /\ Stacked(r, j, b, c) /\ Numbered(r, live, n)
      /\ Known(r, live) = Known(t, live) /\ Switches(r) = Switches(t)
      /\ Waiting(r, j, b, c) = Waiting(t, j, b, c) \cup Held(u)
  BY PushLight
<1>3. Fits(v, r)
  BY <1>2 DEF Sits
<1> HIDE DEF r
<1>4. /\ s \in Seq(Visitors) /\ s # << >> /\ Runner(s) = v
      /\ Stacked(s, j, b, c) /\ Numbered(s, live, n)
      /\ Known(s, live) = Known(r, live) /\ Switches(s) = Switches(r)
      /\ Waiting(s, j, b, c) = Waiting(r, j, b, c) \cup Held(v)
  BY <1>1, <1>2, <1>3, PushLight
<1> QED
  BY <1>2, <1>4

\* The same of visitors that hold no branch.
LEMMA PushTwoIdle ==
  ASSUME NEW t \in Seq(Visitors), NEW v \in Visitors, NEW u \in Visitors,
         Light(v), Light(u), Fits(u, t), Sits(v, u), Held(v) = {}, Held(u) = {},
         NEW j, NEW b, NEW c, Stacked(t, j, b, c), NEW live, NEW n, Numbered(t, live, n),
         NEW s, s = On(v, On(u, t))
  PROVE  /\ s \in Seq(Visitors) /\ s # << >> /\ Runner(s) = v
         /\ Stacked(s, j, b, c) /\ Numbered(s, live, n)
         /\ Known(s, live) = Known(t, live) /\ Switches(s) = Switches(t)
         /\ Waiting(s, j, b, c) = Waiting(t, j, b, c)
<1>1. /\ s \in Seq(Visitors) /\ s # << >> /\ Runner(s) = v
      /\ Stacked(s, j, b, c) /\ Numbered(s, live, n)
      /\ Known(s, live) = Known(t, live) /\ Switches(s) = Switches(t)
  BY PushTwo
<1>2. Waiting(s, j, b, c) \subseteq Waiting(t, j, b, c)
  BY PushTwo
<1>3. Waiting(t, j, b, c) \subseteq Waiting(s, j, b, c)
  BY PushTwo
<1>4. Waiting(s, j, b, c) = Waiting(t, j, b, c)
  BY <1>2, <1>3
<1> QED
  BY <1>1, <1>4

LEMMA VisitSimpleExprStep ==
  ASSUME GenInv, VisitSimpleExpr
  PROVE  GenInv'
<1> DEFINE t == Below(todo)
<1>1. /\ todo # << >> /\ Runner(todo).do = "expr" /\ todo' = t
      /\ stmts' = Add(stmts, block, Inst(Mem)) /\ value' = <<"var", Here>>
      /\ UNCHANGED <<order, block, nextLabel, jumpOut, breaks, continues>>
  <2>1. t \in Seq(Visitors)
    BY Running DEF VisitSimpleExpr, Runs, Runner
  <2> QED
    BY <2>1, Pushes DEF VisitSimpleExpr, Runs, Then, Runner, Below
<1>2. value' \in Values /\ mir' \in Seq(Tokens)
  <2>1. PICK k \in {"load", "cmp"} : Visited(<<k>>)
    BY DEF VisitSimpleExpr
  <2>2. k \in Tokens
    BY <2>1 DEF Tokens, Marks
  <2> QED
    BY <1>1, <2>1, <2>2, TokenSeq, HereNatural
<1>3. Held(Runner(todo)) = {}
  BY <1>1 DEF Held
<1>4. /\ t \in Seq(Visitors) /\ t # << >>
      /\ Stacked(t, jumpOut, breaks, continues) /\ Numbered(t, Live, nextLabel)
      /\ Known(t, Live) = Known(todo, Live) /\ Switches(t) = Switches(todo)
      /\ Waiting(todo, jumpOut, breaks, continues) = Waiting(t, jumpOut, breaks, continues)
      /\ Bare(stmts[block]) /\ \A c : Ready(t, c) <=> Bare(c)
  BY <1>1, <1>3, ValueDone
<1>5. Live' = Live
  BY <1>1 DEF Live
<1> HIDE DEF t
<1>6. Mem \in Values
  BY DEF Mem, Values
<1>7. /\ stmts' \in Contents /\ Bare(stmts'[block])
      /\ Emitted(stmts', "open", Live, block, Known(t, Live),
                 Waiting(t, jumpOut, breaks, continues), Switches(t))
  BY <1>1, <1>4, <1>6, Running, EmitInst
<1> QED
  BY <1>1, <1>2, <1>4, <1>5, <1>7, Running DEF GenInv, Typed, FuncTypeOK, Contents

LEMMA VisitCallValueStep ==
  ASSUME GenInv, VisitCallValue
  PROVE  GenInv'
<1> DEFINE t == Below(todo)
           f == Add(stmts, block, Inst(<<"inst", Here>>))
           g == Add(f, MOVEREG, Inst(Mem))
           v == <<"inst", Here>>
<1>1. /\ todo # << >> /\ Runner(todo).do = "expr" /\ todo' = t
      /\ stmts' = Add(g, block, Inst(Mem)) /\ value' = <<"var", Here>>
      /\ UNCHANGED <<order, block, nextLabel, jumpOut, breaks, continues>>
  <2>1. t \in Seq(Visitors)
    BY Running DEF VisitCallValue, Runs, Runner
  <2> QED
    BY <2>1, Pushes DEF VisitCallValue, Runs, Then, Runner, Below
<1>2. value' \in Values /\ mir' \in Seq(Tokens)
  <2>1. "call" \in Tokens
    BY DEF Tokens, Marks
  <2> QED
    BY <1>1, <2>1, TokenSeq, HereNatural DEF VisitCallValue
<1>3. Held(Runner(todo)) = {}
  BY <1>1 DEF Held
<1>4. /\ t \in Seq(Visitors) /\ t # << >>
      /\ Stacked(t, jumpOut, breaks, continues) /\ Numbered(t, Live, nextLabel)
      /\ Known(t, Live) = Known(todo, Live) /\ Switches(t) = Switches(todo)
      /\ Waiting(todo, jumpOut, breaks, continues) = Waiting(t, jumpOut, breaks, continues)
      /\ Bare(stmts[block]) /\ \A c : Ready(t, c) <=> Bare(c)
  BY <1>1, <1>3, ValueDone
<1>5. Live' = Live
  BY <1>1 DEF Live
<1> DEFINE ok == Known(t, Live)
           w == Waiting(t, jumpOut, breaks, continues)
           sw == Switches(t)
<1>6. sw \subseteq Places /\ Emitted(stmts, "open", Live, block, ok, w, sw)
  BY <1>1, <1>4, Running
<1>7. v \in Values /\ f = Add(stmts, block, Inst(v))
  BY HereNatural
<1> HIDE DEF t, f, g, ok, w, sw, v
<1>8. Mem \in Values
  BY DEF Mem, Values
<1>9. f \in Contents /\ Bare(f[block]) /\ Emitted(f, "open", Live, block, ok, w, sw)
  BY <1>1, <1>4, <1>6, <1>7, Running, EmitInst
<1>10. g \in Contents /\ g[block] = f[block] /\ Emitted(g, "open", Live, block, ok, w, sw)
  BY <1>1, <1>6, <1>9, Running, EmitFirst DEF g
<1>11. stmts' \in Contents /\ Bare(stmts'[block]) /\ Emitted(stmts', "open", Live, block, ok, w, sw)
  BY <1>1, <1>6, <1>8, <1>9, <1>10, Running, EmitInst
<1> QED
  BY <1>1, <1>2, <1>4, <1>5, <1>11, Running DEF GenInv, Typed, FuncTypeOK, Contents, ok, w, sw

LEMMA VisitShortCircuitStep ==
  ASSUME GenInv, VisitShortCircuit
  PROVE  GenInv'
<1> DEFINE t == Below(todo)
           kinds == Runner(todo).kinds
<1>1. PICK opr \in {"and", "or"} :
        /\ todo' = <<Expr(kinds), [do |-> "left", opr |-> opr, node |-> Here, kinds |-> kinds]>> \o t
        /\ Visited(<<opr>>)
  BY DEF VisitShortCircuit, Then, Runner, Below
<1> DEFINE a == Expr(kinds)
           b == [do |-> "left", opr |-> opr, node |-> Here, kinds |-> kinds]
<1>2. t \in Seq(Visitors) /\ a \in Visitors /\ b \in Visitors
  <2>1. /\ Runner(todo) \in Visitors /\ t \in Seq(Visitors) /\ Runner(todo).do = "expr"
    BY Running DEF VisitShortCircuit, Runs, Runner
  <2>2. kinds \in Kinds
    BY <2>1 DEF Visitors
  <2> QED
    BY <2>1, <2>2, HereNatural DEF Visitors, Expr
<1>3. /\ todo # << >> /\ Runner(todo).do = "expr" /\ todo' = On(a, On(b, t))
      /\ stmts' = Add(stmts, MOVEREG, Inst(Mem))
      /\ UNCHANGED <<order, block, nextLabel, value, jumpOut, breaks, continues>>
  BY <1>1, <1>2, Pushes DEF VisitShortCircuit, Runs, Runner
<1>4. mir' \in Seq(Tokens)
  BY <1>1, TokenSeq DEF Tokens
<1>5. Held(Runner(todo)) = {}
  BY <1>3 DEF Held
<1>6. /\ t \in Seq(Visitors) /\ t # << >> /\ Runner(t).do \in Openers
      /\ Stacked(t, jumpOut, breaks, continues) /\ Numbered(t, Live, nextLabel)
      /\ Known(t, Live) = Known(todo, Live) /\ Switches(t) = Switches(todo)
      /\ Waiting(todo, jumpOut, breaks, continues) = Waiting(t, jumpOut, breaks, continues)
      /\ Bare(stmts[block])
  BY <1>3, <1>5, ValueDone
<1>7. Light(a) /\ Light(b) /\ Held(a) = {} /\ Held(b) = {} /\ a.do = "expr"
  BY DEF Light, Held, Expr
<1>8. Fits(b, t)
  <2>1. Fits(Runner(todo), t)
    BY <1>3, Running
  <2> QED
    BY <1>3, <2>1 DEF Fits
<1>9. Sits(a, b)
  BY DEF Sits, Fits, Expr, AfterValue
<1> DEFINE ok == Known(todo, Live)
           w == Waiting(todo, jumpOut, breaks, continues)
           sw == Switches(todo)
<1> HIDE DEF a, b, t, ok, w, sw
<1>10. /\ todo' \in Seq(Visitors) /\ todo' # << >> /\ Runner(todo') = a
       /\ Stacked(todo', jumpOut, breaks, continues) /\ Numbered(todo', Live, nextLabel)
       /\ Known(todo', Live) = ok /\ Switches(todo') = sw
       /\ Waiting(todo', jumpOut, breaks, continues) = w
  <2>1. /\ todo' \in Seq(Visitors) /\ todo' # << >> /\ Runner(todo') = a
        /\ Stacked(todo', jumpOut, breaks, continues) /\ Numbered(todo', Live, nextLabel)
        /\ Known(todo', Live) = Known(t, Live) /\ Switches(todo') = Switches(t)
        /\ Waiting(todo', jumpOut, breaks, continues) = Waiting(t, jumpOut, breaks, continues)
    BY <1>3, <1>6, <1>2, <1>7, <1>8, <1>9, PushTwoIdle
  <2> QED
    BY <1>6, <2>1 DEF ok, w, sw
<1>11. Live' = Live
  BY <1>3 DEF Live
<1>12. /\ stmts' \in Contents /\ stmts'[block] = stmts[block]
       /\ Emitted(stmts', "open", Live, block, ok, w, sw)
  <2>1. sw \subseteq Places /\ Emitted(stmts, "open", Live, block, ok, w, sw)
    BY <1>3, Running DEF ok, w, sw
  <2> QED
    BY <1>3, <2>1, Running, EmitFirst
<1>13. Ready(todo', stmts'[block])
  BY <1>6, <1>7, <1>10, <1>12, ReadyOpen DEF Openers
<1> QED
  BY <1>3, <1>4, <1>10, <1>11, <1>12, <1>13, Running DEF GenInv, Typed, FuncTypeOK, Contents

\* A branch ends the current block and a new one begins.
LEMMA EmitBranch ==
  ASSUME NEW f \in Contents, NEW live, live \subseteq Labels, {ALLOCA, MOVEREG} \subseteq live,
         NEW now, NEW ok, NEW w, NEW sw, sw \subseteq Places,
         Emitted(f, "open", live, now, ok, w, sw), Bare(f[now]),
         NEW s \in Stmts, s.op \in Terminators,
         NEW ok1, NEW w1, ok \subseteq ok1, w \subseteq w1, Leads(s, f, now, ok1, w1),
         NEW n \in Labels \ live, NEW g, g = Add(f, now, s)
  PROVE  /\ g \in Contents
         /\ Emitted(g, "open", Plus(live, n), n, ok1, w1, sw)
         /\ Bare(g[n])
         /\ Plus(live, n) \subseteq Labels
<1>1. Emitted(f, "open", live, now, ok1, w1, sw)
  BY EmitWeaker
<1>2. g \in Contents /\ Emitted(g, "open", live, now, ok1, w1, sw) /\ Closed(g[now])
  BY <1>1, EmitAdd
<1> QED
  BY <1>2, EmitNew

\* A visitor that ends the current block with a branch and begins a new one.
LEMMA BranchStep ==
  ASSUME Unbounded, GenInv, todo # << >>, NewBlock(nextLabel),
         value' \in Values, mir' \in Seq(Tokens),
         jumpOut' \in Tables, breaks' \in Tables, continues' \in Tables,
         NEW f \in Contents, Bare(f[block]),
         Emitted(f, "open", Live, block, Known(todo, Live),
                 Waiting(todo, jumpOut, breaks, continues), Switches(todo)),
         NEW s \in Stmts, s.op \in Terminators, stmts' = Add(f, block, s),
         todo' \in Seq(Visitors), todo' # << >>,
         Stacked(todo', jumpOut', breaks', continues'),
         Numbered(todo', Plus(Live, nextLabel), nextLabel + 1),
         Known(todo, Live) \subseteq Known(todo', Plus(Live, nextLabel)),
         Waiting(todo, jumpOut, breaks, continues)
           \subseteq Waiting(todo', jumpOut', breaks', continues'),
         Switches(todo') \subseteq Switches(todo),
         Leads(s, f, block, Known(todo', Plus(Live, nextLabel)),
               Waiting(todo', jumpOut', breaks', continues')),
         \A c : Bare(c) => Ready(todo', c)
  PROVE  GenInv'
<1> DEFINE ok == Known(todo, Live)
           w == Waiting(todo, jumpOut, breaks, continues)
           sw == Switches(todo)
           ok1 == Known(todo', Plus(Live, nextLabel))
           w1 == Waiting(todo', jumpOut', breaks', continues')
<1>1. /\ Live \subseteq Labels /\ {ALLOCA, MOVEREG} \subseteq Live /\ sw \subseteq Places
  BY Running
<1>2. /\ order' \in Seq(Labels) /\ order' # << >> /\ order'[1] = ALLOCA
      /\ Live' = Plus(Live, nextLabel) /\ block' = nextLabel
      /\ nextLabel' = nextLabel + 1 /\ nextLabel' \in Nat
      /\ nextLabel \in Labels \ Live
  BY NewBlockFacts
<1>3. /\ Emitted(f, "open", Live, block, ok, w, sw) /\ ok \subseteq ok1 /\ w \subseteq w1
      /\ Leads(s, f, block, ok1, w1) /\ Switches(todo') \subseteq sw
  OBVIOUS
<1> HIDE DEF ok, w, sw, ok1, w1
<1>4. /\ stmts' \in Contents /\ Bare(stmts'[nextLabel])
      /\ Emitted(stmts', "open", Plus(Live, nextLabel), nextLabel, ok1, w1, sw)
  BY <1>1, <1>2, <1>3, EmitBranch
<1>5. Emitted(stmts', "open", Plus(Live, nextLabel), nextLabel, ok1, w1, Switches(todo'))
  BY <1>3, <1>4, EmitWeaker
<1> QED
  BY <1>2, <1>4, <1>5 DEF GenInv, Typed, FuncTypeOK, Contents, Tables, ok1, w1

LEMMA ShortCircuitLeftStep ==
  ASSUME Unbounded, GenInv, ShortCircuitLeft
  PROVE  GenInv'
<1> DEFINE h == Runner(todo)
           t == Below(todo)
           f == Add(stmts, block, Inst(Mem))
           arm == IF h.opr = "and" THEN 2 ELSE 1
           at == Spot(f, block)
           s == IF h.opr = "and" THEN BrCond(value, nextLabel, UNSET)
                                 ELSE BrCond(value, UNSET, nextLabel)
           a == Expr(h.kinds)
           b == [do |-> "right", node |-> h.node, arm |-> arm, at |-> at]
           ok == Known(todo, Live)
           w == Waiting(todo, jumpOut, breaks, continues)
           sw == Switches(todo)
<1>1. /\ todo # << >> /\ h.do = "left" /\ NewBlock(nextLabel)
      /\ stmts' = Add(f, block, s)
      /\ UNCHANGED <<mir, value, jumpOut, breaks, continues>>
  BY DEF ShortCircuitLeft, Runs, Then, Runner, Below, Spot
<1>2. /\ h \in Visitors /\ t \in Seq(Visitors) /\ stmts \in Contents /\ Live \subseteq Labels
      /\ {ALLOCA, MOVEREG} \subseteq Live /\ block \in Labels /\ nextLabel \in Labels
      /\ Emitted(stmts, "open", Live, block, ok, w, sw) /\ sw \subseteq Places
      /\ Fits(h, t)
  BY <1>1, Running DEF Unbounded
<1>3. h.opr \in {"and", "or"} /\ h.kinds \in Kinds /\ h.node \in Nat
  BY <1>1, <1>2 DEF Visitors
<1>4. value \in Values /\ Mem \in Values /\ UNSET \in Labels
  BY DEF GenInv, Typed, UNSET, Mem, Values, Unbounded
<1>5. Bare(stmts[block])
  BY <1>1, OpenBlock DEF Openers
<1>6. /\ f \in Contents /\ Bare(f[block]) /\ Emitted(f, "open", Live, block, ok, w, sw)
  <2> HIDE DEF ok, w, sw, f
  <2> QED
    BY <1>2, <1>4, <1>5, EmitInst DEF f
<1>7. s \in Stmts /\ s.op \in Terminators
  <2>1. BrCond(value, nextLabel, UNSET) \in Stmts /\ BrCond(value, UNSET, nextLabel) \in Stmts
    BY <1>2, <1>4, StmtTypes
  <2> QED
    BY <2>1 DEF BrCond, Terminators
<1>8. /\ t # << >> /\ Light(h) /\ Held(h) = {} /\ Runner(t).do \in AfterValue
  BY <1>1, <1>2 DEF Fits, Light, Held
<1>9. /\ Stacked(t, jumpOut, breaks, continues) /\ Numbered(t, Live, nextLabel)
      /\ Known(t, Live) = ok /\ Switches(t) = sw /\ w \subseteq Waiting(t, jumpOut, breaks, continues)
  <2>1. /\ todo \in Seq(Visitors) /\ Stacked(todo, jumpOut, breaks, continues)
        /\ Numbered(todo, Live, nextLabel)
    BY DEF GenInv, Typed
  <2> QED
    BY <1>1, <1>8, <2>1, PopLight
<1>10. a \in Visitors /\ b \in Visitors
  <2>1. f[block] \in Seq(Stmts)
    BY <1>2, <1>6 DEF Contents
  <2>2. at \in Places
    BY <1>2, <2>1 DEF Places, Spot
  <2>3. arm \in {1, 2}
    OBVIOUS
  <2> HIDE DEF at, arm
  <2> QED
    BY <1>3, <2>2, <2>3 DEF Visitors, Expr
<1>11. /\ Light(a) /\ Light(b) /\ Fits(b, t) /\ Sits(a, b) /\ a.do = "expr"
       /\ Held(b) = {<<at, arm>>}
  <2> HIDE DEF at, arm
  <2>1. Light(a) /\ Light(b) /\ a.do = "expr"
    BY DEF Light, Expr
  <2>2. Held(b) = {<<at, arm>>}
    BY DEF Held
  <2>3. Fits(b, t)
    BY <1>8 DEF Fits
  <2>4. Sits(a, b)
    BY DEF Sits, Fits, Expr, AfterValue
  <2> QED
    BY <2>1, <2>2, <2>3, <2>4
<1>12. todo' = On(a, On(b, t))
  <2>1. todo' = <<a, b>> \o t
    BY DEF ShortCircuitLeft, Then, Runner, Below, Spot
  <2> HIDE DEF a, b, t
  <2> QED
    BY <1>2, <1>10, <2>1, Pushes
<1>13. \/ s = BrCond(value, nextLabel, UNSET) /\ arm = 2
       \/ s = BrCond(value, UNSET, nextLabel) /\ arm = 1
  BY <1>3
<1> HIDE DEF h, t, f, arm, at, s, a, b, ok, w, sw
<1>14. /\ todo' \in Seq(Visitors) /\ todo' # << >> /\ Runner(todo') = a
       /\ Stacked(todo', jumpOut, breaks, continues) /\ Numbered(todo', Live, nextLabel)
       /\ Known(todo', Live) = ok /\ Switches(todo') = sw
  BY <1>2, <1>9, <1>10, <1>11, <1>12, PushTwo
<1> DEFINE w1 == Waiting(todo', jumpOut, breaks, continues)
           ok1 == Known(todo', Plus(Live, nextLabel))
<1>15. w \subseteq w1 /\ <<at, arm>> \in w1
  <2>1. Waiting(t, jumpOut, breaks, continues) \cup Held(b) \subseteq w1
    BY <1>2, <1>9, <1>10, <1>11, <1>12, PushTwo
  <2> QED
    BY <1>9, <1>11, <2>1
<1>16. /\ Numbered(todo', Plus(Live, nextLabel), nextLabel + 1)
       /\ ok \subseteq ok1 /\ nextLabel \in ok1
  BY <1>2, <1>14, NumberedNew
<1>17. Leads(s, f, block, ok1, w1)
  <2> HIDE DEF w1, ok1
  <2>1. <<Spot(f, block), arm>> \in w1
    BY <1>15 DEF at
  <2>2. CASE s = BrCond(value, nextLabel, UNSET) /\ arm = 2
    <3>1. Jump(Spot(f, block), 2) \in w1 /\ nextLabel \in ok1
      BY <1>16, <2>1, <2>2 DEF Jump
    <3>2. Leads(BrCond(value, nextLabel, UNSET), f, block, ok1, w1)
      BY <3>1, LeadsBrCond
    <3> QED
      BY <2>2, <3>2
  <2>3. CASE s = BrCond(value, UNSET, nextLabel) /\ arm = 1
    <3>1. Jump(Spot(f, block), 1) \in w1 /\ nextLabel \in ok1
      BY <1>16, <2>1, <2>3 DEF Jump
    <3>2. Leads(BrCond(value, UNSET, nextLabel), f, block, ok1, w1)
      BY <3>1, LeadsBrCond
    <3> QED
      BY <2>3, <3>2
  <2> QED
    BY <1>13, <2>2, <2>3
<1>18. \A c : Bare(c) => Ready(todo', c)
  BY <1>11, <1>14, ReadyOpen DEF Openers
<1>19. /\ value' \in Values /\ mir' \in Seq(Tokens) /\ jumpOut' \in Tables
       /\ breaks' \in Tables /\ continues' \in Tables
  BY <1>1 DEF GenInv, Typed, Tables
<1>20. /\ w \subseteq Waiting(todo', jumpOut', breaks', continues')
       /\ Leads(s, f, block, ok1, Waiting(todo', jumpOut', breaks', continues'))
       /\ Stacked(todo', jumpOut', breaks', continues')
  BY <1>1, <1>14, <1>15, <1>17
<1> QED
  BY <1>1, <1>6, <1>7, <1>14, <1>16, <1>18, <1>19, <1>20, BranchStep DEF ok, w, sw

-----------------------------------------------------------------------------
(***************************************************************************)
(* Statements that leave no table behind.                                  *)
(***************************************************************************)
\* A visitor that begins no block.
LEMMA Stay ==
  ASSUME GenInv, todo # << >>,
         UNCHANGED <<order, block, nextLabel, jumpOut, breaks, continues>>,
         value' \in Values, mir' \in Seq(Tokens),
         todo' \in Seq(Visitors), todo' # << >>,
         Stacked(todo', jumpOut, breaks, continues), Numbered(todo', Live, nextLabel),
         Known(todo, Live) \subseteq Known(todo', Live),
         NEW w, w \subseteq Waiting(todo', jumpOut, breaks, continues),
         NEW sw, Switches(todo') \subseteq sw,
         stmts' \in Contents,
         Emitted(stmts', "open", Live, block, Known(todo, Live), w, sw),
         Ready(todo', stmts'[block])
  PROVE  GenInv'
<1>1. Emitted(stmts', "open", Live, block, Known(todo', Live),
              Waiting(todo', jumpOut, breaks, continues), Switches(todo'))
  BY EmitWeaker
<1>2. Live' = Live
  BY DEF Live
<1>3. Emitted(stmts', "open", Live', block', Known(todo', Live'),
              Waiting(todo', jumpOut', breaks', continues'), Switches(todo'))
  BY <1>1, <1>2
<1> QED
  BY <1>2, <1>3, Running DEF GenInv, Typed, FuncTypeOK, Contents

LEMMA PopIdle ==
  ASSUME GenInv, todo # << >>, Light(Runner(todo)), Held(Runner(todo)) = {},
         NEW t, t = Below(todo)
  PROVE  /\ t \in Seq(Visitors)
         /\ Stacked(t, jumpOut, breaks, continues) /\ Numbered(t, Live, nextLabel)
         /\ Known(t, Live) = Known(todo, Live) /\ Switches(t) = Switches(todo)
         /\ Waiting(todo, jumpOut, breaks, continues) \subseteq Waiting(t, jumpOut, breaks, continues)
         /\ Fits(Runner(todo), t)
<1>1. /\ todo \in Seq(Visitors) /\ Stacked(todo, jumpOut, breaks, continues)
      /\ Numbered(todo, Live, nextLabel)
  BY DEF GenInv, Typed
<1>2. /\ t \in Seq(Visitors)
      /\ Stacked(t, jumpOut, breaks, continues) /\ Numbered(t, Live, nextLabel)
      /\ Known(t, Live) = Known(todo, Live) /\ Switches(t) = Switches(todo)
  BY <1>1, PopLight
<1>3. Waiting(todo, jumpOut, breaks, continues) \subseteq Waiting(t, jumpOut, breaks, continues)
  BY <1>1, PopLight
<1>4. Fits(Runner(todo), t)
  BY Running
<1> QED
  BY <1>2, <1>3, <1>4

LEMMA BlockBelow ==
  ASSUME GenInv, todo # << >>, Runner(todo).do \in {"block", "retv"}, NEW t, t = Below(todo)
  PROVE  /\ t # << >> /\ Runner(t).do \in AfterBlock \cup {"finish"}
         /\ Runner(todo) = Body => Runner(t).do \in AfterBlock
         /\ \A c : Returns(c) => Ready(t, c)
         /\ Runner(t).do \in AfterBlock => \A c : Bare(c) => Ready(t, c)
         /\ Light(Runner(todo)) /\ Held(Runner(todo)) = {} /\ Bare(stmts[block])
<1>1. Fits(Runner(todo), t)
  BY Running
<1>2. /\ t # << >> /\ Runner(t).do \in AfterBlock \cup {"finish"}
      /\ Runner(todo) = Body => Runner(t).do \in AfterBlock
  <2>1. Runner(todo) = Body => Runner(todo).do = "block" /\ ~Runner(todo).top
    BY DEF Body
  <2> QED
    BY <1>1, <2>1 DEF Fits
<1>3. \A c : Returns(c) => Ready(t, c)
  BY <1>2 DEF Ready, AfterBlock
<1>4. Runner(t).do \in AfterBlock => \A c : Bare(c) => Ready(t, c)
  BY <1>2 DEF Ready, AfterBlock
<1>5. Light(Runner(todo)) /\ Held(Runner(todo)) = {} /\ Bare(stmts[block])
  BY OpenBlock DEF Openers
<1> QED
  BY <1>2, <1>3, <1>4, <1>5

LEMMA EndBlockStep ==
  ASSUME GenInv, EndBlock
  PROVE  GenInv'
<1> DEFINE t == Below(todo)
           w == Waiting(todo, jumpOut, breaks, continues)
<1>1. /\ todo # << >> /\ Runner(todo).do = "block" /\ ~Runner(todo).top
      /\ UNCHANGED <<order, stmts, block, nextLabel, value, jumpOut, breaks, continues>>
  BY DEF EndBlock, Runs, Runner
<1>2. todo' = t
  <2>1. t \in Seq(Visitors)
    BY <1>1, Running
  <2> QED
    BY <2>1, Pushes DEF EndBlock, Then, Below
<1>3. value' \in Values /\ mir' \in Seq(Tokens)
  BY <1>1, TokenSeq DEF EndBlock, Tokens, Marks, GenInv, Typed
<1>4. Runner(todo) = Body
  <2>1. Runner(todo) \in Visitors
    BY <1>1, Running
  <2> QED
    BY <1>1, <2>1 DEF Visitors, Body
<1>5. /\ t # << >> /\ Ready(t, stmts[block])
      /\ Light(Runner(todo)) /\ Held(Runner(todo)) = {}
  BY <1>1, <1>4, BlockBelow
<1> HIDE DEF t
<1>6. /\ t \in Seq(Visitors)
      /\ Stacked(t, jumpOut, breaks, continues) /\ Numbered(t, Live, nextLabel)
      /\ Known(t, Live) = Known(todo, Live) /\ Switches(t) = Switches(todo)
      /\ w \subseteq Waiting(t, jumpOut, breaks, continues)
  BY <1>1, <1>5, PopIdle DEF t
<1>7. /\ stmts' \in Contents
      /\ Emitted(stmts', "open", Live, block, Known(todo, Live), w, Switches(todo))
  BY <1>1, Running
<1> HIDE DEF w
<1> QED
  BY <1>1, <1>2, <1>3, <1>5, <1>6, <1>7, Stay

LEMMA VisitCallStep ==
  ASSUME GenInv, VisitCall
  PROVE  GenInv'
<1> DEFINE w == Waiting(todo, jumpOut, breaks, continues)
<1>1. /\ todo # << >> /\ Runner(todo).do = "block" /\ todo' = todo
      /\ UNCHANGED <<order, block, nextLabel, value, jumpOut, breaks, continues>>
  BY DEF VisitCall, Runs, Runner
<1>2. value' \in Values /\ mir' \in Seq(Tokens)
  <2>1. "do" \in Tokens
    BY DEF Tokens
  <2> QED
    BY <1>1, <2>1, TokenSeq DEF VisitCall, GenInv, Typed
<1>3. Bare(stmts[block])
  BY <1>1, OpenBlock DEF Openers
<1> DEFINE v == <<"inst", Here>>
<1>4. v \in Values /\ stmts' = Add(stmts, block, Inst(v))
  BY HereNatural DEF VisitCall
<1>5. /\ Emitted(stmts, "open", Live, block, Known(todo, Live), w, Switches(todo))
      /\ Switches(todo) \subseteq Places
  BY <1>1, Running
<1> HIDE DEF v, w
<1>6. /\ stmts' \in Contents /\ Bare(stmts'[block])
      /\ Emitted(stmts', "open", Live, block, Known(todo, Live), w, Switches(todo))
  BY <1>1, <1>3, <1>4, <1>5, Running, EmitInst
<1>7. Ready(todo', stmts'[block])
  BY <1>1, <1>6, ReadyOpen DEF Openers
<1>8. /\ todo' \in Seq(Visitors)
      /\ Stacked(todo', jumpOut, breaks, continues) /\ Numbered(todo', Live, nextLabel)
  BY <1>1 DEF GenInv, Typed
<1>9. w \subseteq Waiting(todo', jumpOut, breaks, continues)
  BY <1>1 DEF w
<1> QED
  BY <1>1, <1>2, <1>6, <1>7, <1>8, <1>9, Stay

LEMMA VisitDefineStep ==
  ASSUME GenInv, VisitDefine
  PROVE  GenInv'
<1> DEFINE a == Expr(Inits)
           b == [do |-> "init"]
           w == Waiting(todo, jumpOut, breaks, continues)
           sw == Switches(todo)
<1>1. /\ todo # << >> /\ Runner(todo).do = "block"
      /\ stmts' = Add(stmts, ALLOCA, Inst(Mem))
      /\ UNCHANGED <<order, block, nextLabel, value, jumpOut, breaks, continues>>
  BY DEF VisitDefine, Runs, Runner
<1>2. value' \in Values /\ mir' \in Seq(Tokens)
  <2>1. "define" \in Tokens
    BY DEF Tokens
  <2> QED
    BY <1>1, <2>1, TokenSeq DEF VisitDefine, GenInv, Typed
<1>3. Bare(stmts[block])
  BY <1>1, OpenBlock DEF Openers
<1>4. a \in Visitors /\ b \in Visitors
  BY GenAssumption DEF Visitors, Expr, Kinds
<1>5. todo' = On(a, On(b, todo))
  BY <1>4, Pushes DEF VisitDefine, GenInv, Typed
<1>6. Light(a) /\ Light(b) /\ Held(a) = {} /\ Held(b) = {} /\ a.do = "expr"
  BY DEF Light, Held, Expr
<1>7. Fits(b, todo)
  BY <1>1 DEF Fits
<1>8. Sits(a, b)
  BY DEF Sits, Fits, Expr, AfterValue
<1>9. /\ todo \in Seq(Visitors) /\ Stacked(todo, jumpOut, breaks, continues)
      /\ Numbered(todo, Live, nextLabel)
  BY DEF GenInv, Typed
<1> HIDE DEF a, b, w, sw
<1>10. /\ todo' \in Seq(Visitors) /\ todo' # << >> /\ Runner(todo') = a
       /\ Stacked(todo', jumpOut, breaks, continues) /\ Numbered(todo', Live, nextLabel)
       /\ Known(todo', Live) = Known(todo, Live) /\ Switches(todo') = sw
       /\ Waiting(todo', jumpOut, breaks, continues) = w
  BY <1>4, <1>5, <1>6, <1>7, <1>8, <1>9, PushTwoIdle DEF w, sw
<1>11. /\ stmts' \in Contents /\ stmts'[block] = stmts[block]
       /\ Emitted(stmts', "open", Live, block, Known(todo, Live), w, sw)
  <2>1. sw \subseteq Places /\ Emitted(stmts, "open", Live, block, Known(todo, Live), w, sw)
    BY <1>1, Running DEF w, sw
  <2> QED
    BY <1>1, <2>1, Running, EmitFirst
<1>12. Ready(todo', stmts'[block])
  BY <1>3, <1>6, <1>10, <1>11, ReadyOpen DEF Openers
<1> QED
  BY <1>1, <1>2, <1>10, <1>11, <1>12, Stay

LEMMA StoreInitialValueStep ==
  ASSUME GenInv, StoreInitialValue
  PROVE  GenInv'
<1> DEFINE t == Below(todo)
           w == Waiting(todo, jumpOut, breaks, continues)
<1>1. /\ todo # << >> /\ Runner(todo).do = "init"
      /\ stmts' = Add(stmts, block, Inst(Mem))
      /\ UNCHANGED <<order, mir, block, nextLabel, value, jumpOut, breaks, continues>>
  BY DEF StoreInitialValue, Runs, Runner
<1>2. todo' = t
  <2>1. t \in Seq(Visitors)
    BY <1>1, Running
  <2> QED
    BY <2>1, Pushes DEF StoreInitialValue, Then, Below
<1>3. value' \in Values /\ mir' \in Seq(Tokens)
  BY <1>1 DEF GenInv, Typed
<1>4. Light(Runner(todo)) /\ Held(Runner(todo)) = {} /\ Bare(stmts[block])
  BY <1>1, OpenBlock DEF Openers, Light
<1> HIDE DEF t
<1>5. /\ t \in Seq(Visitors)
      /\ Stacked(t, jumpOut, breaks, continues) /\ Numbered(t, Live, nextLabel)
      /\ Known(t, Live) = Known(todo, Live) /\ Switches(t) = Switches(todo)
      /\ w \subseteq Waiting(t, jumpOut, breaks, continues)
      /\ Fits(Runner(todo), t)
  BY <1>1, <1>4, PopIdle DEF t
<1>6. t # << >> /\ Runner(t).do = "block"
  BY <1>1, <1>5 DEF Fits
<1>7. /\ Emitted(stmts, "open", Live, block, Known(todo, Live), w, Switches(todo))
      /\ Switches(todo) \subseteq Places
  BY <1>1, Running
<1>8. Mem \in Values
  BY DEF Mem, Values
<1> HIDE DEF w
<1>9. /\ stmts' \in Contents /\ Bare(stmts'[block])
      /\ Emitted(stmts', "open", Live, block, Known(todo, Live), w, Switches(todo))
  BY <1>1, <1>4, <1>7, <1>8, Running, EmitInst
<1>10. Ready(todo', stmts'[block])
  BY <1>2, <1>6, <1>9, ReadyOpen DEF Openers
<1> QED
  BY <1>1, <1>2, <1>3, <1>5, <1>6, <1>9, <1>10, Stay

\* A ret ends a block of the source.
LEMMA ReturnStep ==
  ASSUME GenInv, todo # << >>, Runner(todo).do \in {"block", "retv"},
         NEW v \in Values, stmts' = Add(stmts, block, Ret(v)),
         todo' = Below(todo), mir' \in Seq(Tokens),
         UNCHANGED <<order, block, nextLabel, value, jumpOut, breaks, continues>>
  PROVE  GenInv'
<1> DEFINE t == Below(todo)
           w == Waiting(todo, jumpOut, breaks, continues)
           ok == Known(todo, Live)
           sw == Switches(todo)
           s == Ret(v)
<1>1. /\ t # << >> /\ \A c : Returns(c) => Ready(t, c)
      /\ Light(Runner(todo)) /\ Held(Runner(todo)) = {} /\ Bare(stmts[block])
  BY BlockBelow
<1>2. /\ t \in Seq(Visitors)
      /\ Stacked(t, jumpOut, breaks, continues) /\ Numbered(t, Live, nextLabel)
      /\ Known(t, Live) = ok /\ Switches(t) = sw
      /\ w \subseteq Waiting(t, jumpOut, breaks, continues)
  BY <1>1, PopIdle
<1>3. s \in Stmts /\ s.op = "ret" /\ Leads(s, stmts, block, ok, w)
  <2>1. s \in Stmts
    BY DEF Ret, Stmts, Ops
  <2> QED
    BY <2>1 DEF Ret, Leads
<1>4. value' \in Values /\ todo' = t /\ stmts' = Add(stmts, block, s)
  BY DEF GenInv, Typed
<1>5. Emitted(stmts, "open", Live, block, ok, w, sw) /\ sw \subseteq Places
  BY Running
<1> HIDE DEF t, w, ok, sw, s
<1>6. /\ stmts' \in Contents /\ Returns(stmts'[block])
      /\ Emitted(stmts', "open", Live, block, ok, w, sw)
  BY <1>1, <1>3, <1>4, <1>5, Running, EmitAdd
<1>7. Ready(todo', stmts'[block])
  BY <1>1, <1>4, <1>6
<1> QED
  BY <1>1, <1>2, <1>4, <1>6, <1>7, Stay DEF ok, sw

LEMMA VisitReturnStep ==
  ASSUME GenInv, VisitReturn
  PROVE  GenInv'
<1> DEFINE v == <<"inst", Here>>
<1>1. /\ todo # << >> /\ Runner(todo).do = "block"
      /\ UNCHANGED <<order, block, nextLabel, value, jumpOut, breaks, continues>>
  BY DEF VisitReturn, Runs, Runner
<1>2. todo' = Below(todo)
  BY <1>1, Running, Pushes DEF VisitReturn, Then, Below
<1>3. v \in Values /\ stmts' = Add(stmts, block, Ret(v))
  BY HereNatural DEF VisitReturn
<1>4. mir' \in Seq(Tokens)
  <2>1. "ret" \in Tokens /\ "end" \in Tokens
    BY DEF Tokens, Marks
  <2> QED
    BY <2>1, TokenSeq DEF VisitReturn
<1> HIDE DEF v
<1> QED
  BY <1>1, <1>2, <1>3, <1>4, ReturnStep

LEMMA ReturnValueStep ==
  ASSUME GenInv, ReturnValue
  PROVE  GenInv'
<1> DEFINE v == <<"inst", Runner(todo).node>>
<1>1. /\ todo # << >> /\ Runner(todo).do = "retv"
      /\ UNCHANGED <<order, block, nextLabel, value, jumpOut, breaks, continues>>
  BY DEF ReturnValue, Runs, Runner
<1>2. todo' = Below(todo)
  BY <1>1, Running, Pushes DEF ReturnValue, Then, Below
<1>3. v \in Values /\ stmts' = Add(stmts, block, Ret(v))
  <2>1. Runner(todo).node \in Nat
    BY <1>1, Running DEF Visitors
  <2> QED
    BY <2>1 DEF ReturnValue, Values, Runner
<1>4. mir' \in Seq(Tokens)
  <2>1. "end" \in Tokens
    BY DEF Tokens, Marks
  <2> QED
    BY <2>1, TokenSeq DEF ReturnValue
<1> HIDE DEF v
<1> QED
  BY <1>1, <1>2, <1>3, <1>4, ReturnStep

LEMMA VisitReturnValueStep ==
  ASSUME GenInv, VisitReturnValue
  PROVE  GenInv'
<1> DEFINE t == Below(todo)
           a == Expr(Inits)
           b == [do |-> "retv", node |-> Here]
           w == Waiting(todo, jumpOut, breaks, continues)
           sw == Switches(todo)
<1>1. /\ todo # << >> /\ Runner(todo).do = "block"
      /\ UNCHANGED <<order, stmts, block, nextLabel, value, jumpOut, breaks, continues>>
  BY DEF VisitReturnValue, Runs, Runner
<1>2. value' \in Values /\ mir' \in Seq(Tokens)
  <2>1. "retv" \in Tokens
    BY DEF Tokens
  <2> QED
    BY <1>1, <2>1, TokenSeq DEF VisitReturnValue, GenInv, Typed
<1>3. a \in Visitors /\ b \in Visitors
  BY GenAssumption, HereNatural DEF Visitors, Expr, Kinds
<1>4. todo' = On(a, On(b, t))
  BY <1>1, <1>3, Running, Pushes DEF VisitReturnValue, Then, Below
<1>5. Light(a) /\ Light(b) /\ Held(a) = {} /\ Held(b) = {} /\ a.do = "expr" /\ b.do = "retv"
  BY DEF Light, Held, Expr
<1>6. /\ t # << >> /\ Runner(t).do \in AfterBlock \cup {"finish"}
      /\ Light(Runner(todo)) /\ Held(Runner(todo)) = {} /\ Bare(stmts[block])
  BY <1>1, BlockBelow
<1>7. Fits(b, t)
  BY <1>6 DEF Fits
<1>8. Sits(a, b)
  BY DEF Sits, Fits, Expr, AfterValue
<1>9. /\ t \in Seq(Visitors)
      /\ Stacked(t, jumpOut, breaks, continues) /\ Numbered(t, Live, nextLabel)
      /\ Known(t, Live) = Known(todo, Live) /\ Switches(t) = sw
      /\ w \subseteq Waiting(t, jumpOut, breaks, continues)
  BY <1>1, <1>6, PopIdle
<1>10. /\ stmts' \in Contents /\ stmts'[block] = stmts[block]
       /\ Emitted(stmts', "open", Live, block, Known(todo, Live), w, sw)
  BY <1>1, Running
<1> HIDE DEF a, b, w, sw, t
<1>11. /\ todo' \in Seq(Visitors) /\ todo' # << >> /\ Runner(todo') = a
       /\ Stacked(todo', jumpOut, breaks, continues) /\ Numbered(todo', Live, nextLabel)
       /\ Known(todo', Live) = Known(t, Live) /\ Switches(todo') = Switches(t)
       /\ Waiting(todo', jumpOut, breaks, continues) = Waiting(t, jumpOut, breaks, continues)
  BY <1>3, <1>4, <1>5, <1>7, <1>8, <1>9, PushTwoIdle
<1>12. Ready(todo', stmts'[block])
  BY <1>5, <1>6, <1>10, <1>11, ReadyOpen DEF Openers
<1> QED
  BY <1>1, <1>2, <1>9, <1>10, <1>11, <1>12, Stay

\* A jump out of the body of a loop or to its next round.
LEMMA JumpStep ==
  ASSUME Unbounded, GenInv, todo # << >>, Runner(todo).do = "block",
         NewBlock(nextLabel), todo' = Below(todo), stmts' = Add(stmts, block, Br(UNSET)),
         mir' \in Seq(Tokens), UNCHANGED <<value, jumpOut>>,
         breaks # << >> \/ continues # << >>,
         breaks' \in Tables, Len(breaks') = Len(breaks),
         continues' \in Tables, Len(continues') = Len(continues),
         Collected(breaks) \subseteq Collected(breaks'),
         Collected(continues) \subseteq Collected(continues'),
         Jump(Spot(stmts, block), 1) \in Collected(breaks') \cup Collected(continues')
  PROVE  GenInv'
<1> DEFINE t == Below(todo)
           w == Waiting(todo, jumpOut, breaks, continues)
           ok == Known(todo, Live)
           sw == Switches(todo)
           s == Br(UNSET)
           w1 == Waiting(t, jumpOut', breaks', continues')
           ok1 == Known(t, Plus(Live, nextLabel))
<1>1. /\ t # << >> /\ Runner(t).do \in AfterBlock \cup {"finish"}
      /\ Runner(t).do \in AfterBlock => \A c : Bare(c) => Ready(t, c)
      /\ Light(Runner(todo)) /\ Held(Runner(todo)) = {} /\ Bare(stmts[block])
  BY BlockBelow
<1>2. /\ t \in Seq(Visitors)
      /\ Stacked(t, jumpOut, breaks, continues) /\ Numbered(t, Live, nextLabel)
      /\ Known(t, Live) = ok /\ Switches(t) = sw
      /\ w \subseteq Waiting(t, jumpOut, breaks, continues)
  BY <1>1, PopIdle
<1>3. Stacked(t, jumpOut', breaks', continues')
  BY <1>2 DEF Stacked
<1>4. /\ Waiting(t, jumpOut, breaks, continues) \subseteq w1
      /\ Jump(Spot(stmts, block), 1) \in w1
  BY DEF Waiting
<1>5. Runner(t).do # "finish"
  <2>1. SUFFICES ASSUME Runner(t).do = "finish"
                 PROVE  FALSE
    OBVIOUS
  <2>2. Layer(Runner(t), Below(t), t)
    BY <1>1, <1>2, TopLayer
  <2>3. Below(t) = << >>
    BY <1>2, <2>1, <2>2 DEF Layer, Stacked, Fits
  <2>4. Count(t, Loops) = 0
    BY <2>1, <2>2, <2>3, EmptyStack DEF Layer, Loops
  <2>5. Len(breaks) = 0 /\ Len(continues) = 0
    BY <1>2, <2>4 DEF Stacked
  <2> QED
    BY <2>5 DEF GenInv, Typed
<1>6. \A c : Bare(c) => Ready(t, c)
  BY <1>1, <1>5
<1>7. UNSET \in Labels /\ nextLabel \in Labels /\ Live \subseteq Labels
  BY Running DEF UNSET, Unbounded
<1>8. s \in Stmts /\ s.op \in Terminators
  BY <1>7 DEF Br, Stmts, Ops, Mem, Values, Terminators
<1>9. Leads(s, stmts, block, ok1, w1)
  BY <1>4, LeadsBr
<1>10. /\ Numbered(t, Plus(Live, nextLabel), nextLabel + 1) /\ ok \subseteq ok1
  <2> HIDE DEF t
  <2> QED
    BY <1>2, <1>7, NumberedNew
<1>11. /\ Emitted(stmts, "open", Live, block, ok, w, sw) /\ stmts \in Contents
  BY Running
<1>12. w \subseteq w1
  BY <1>2, <1>4
<1>13. value' \in Values /\ jumpOut' \in Tables
  BY DEF GenInv, Typed, Tables
<1>14. /\ Leads(s, stmts, block, Known(todo', Plus(Live, nextLabel)),
                Waiting(todo', jumpOut', breaks', continues'))
       /\ Known(todo, Live) \subseteq Known(todo', Plus(Live, nextLabel))
       /\ w \subseteq Waiting(todo', jumpOut', breaks', continues')
       /\ Switches(todo') \subseteq Switches(todo)
       /\ Numbered(todo', Plus(Live, nextLabel), nextLabel + 1)
       /\ stmts' = Add(stmts, block, s)
       /\ todo' \in Seq(Visitors) /\ todo' # << >> /\ Stacked(todo', jumpOut', breaks', continues')
       /\ \A c : Bare(c) => Ready(todo', c)
  BY <1>1, <1>2, <1>3, <1>6, <1>9, <1>10, <1>12
<1> HIDE DEF t, s, w1, ok1
<1> QED
  BY <1>1, <1>8, <1>11, <1>13, <1>14, BranchStep DEF w, ok, sw

LEMMA PlaceFree ==
  ASSUME GenInv, todo # << >>
  PROVE  /\ Place(block) = Spot(stmts, block) /\ Place(block) \in Places
         /\ jumpOut \in Tables /\ breaks \in Tables /\ continues \in Tables
         /\ Len(breaks) > 0 <=> breaks # << >>
         /\ Len(continues) > 0 <=> continues # << >>
         /\ Len(jumpOut) > 0 <=> jumpOut # << >>
<1>1. Len(stmts[block]) \in Nat /\ block \in Labels
  BY Running
<1>2. Place(block) = Spot(stmts, block) /\ Place(block) \in Places
  BY <1>1 DEF Place, Spot, Places
<1>3. jumpOut \in Tables /\ breaks \in Tables /\ continues \in Tables
  BY DEF GenInv, Typed, Tables
<1> QED
  BY <1>2, <1>3 DEF Tables

LEMMA VisitBreakStep ==
  ASSUME Unbounded, GenInv, VisitBreak
  PROVE  GenInv'
<1>1. /\ todo # << >> /\ Runner(todo).do = "block" /\ breaks # << >> /\ NewBlock(nextLabel)
      /\ stmts' = Add(stmts, block, Br(UNSET)) /\ breaks' = PushBack(breaks, Place(block))
      /\ UNCHANGED <<value, jumpOut, continues>>
  BY DEF VisitBreak, Runs, Runner
<1>2. todo' = Below(todo)
  BY <1>1, Running, Pushes DEF VisitBreak, Then, Below
<1>3. mir' \in Seq(Tokens)
  <2>1. "break" \in Tokens /\ "end" \in Tokens
    BY DEF Tokens, Marks
  <2> QED
    BY <2>1, TokenSeq DEF VisitBreak
<1>4. /\ breaks' \in Tables /\ Len(breaks') = Len(breaks)
      /\ Collected(breaks) \subseteq Collected(breaks')
      /\ Jump(Place(block), 1) \in Collected(breaks')
  BY <1>1, PlaceFree, TablePush DEF Jump
<1>5. /\ Jump(Spot(stmts, block), 1) \in Collected(breaks') \cup Collected(continues')
      /\ continues' \in Tables /\ Len(continues') = Len(continues)
      /\ Collected(continues) \subseteq Collected(continues')
  BY <1>1, <1>4, PlaceFree
<1> QED
  BY <1>1, <1>2, <1>3, <1>4, <1>5, JumpStep

LEMMA VisitContinueStep ==
  ASSUME Unbounded, GenInv, VisitContinue
  PROVE  GenInv'
<1>1. /\ todo # << >> /\ Runner(todo).do = "block" /\ continues # << >> /\ NewBlock(nextLabel)
      /\ stmts' = Add(stmts, block, Br(UNSET)) /\ continues' = PushBack(continues, Place(block))
      /\ UNCHANGED <<value, jumpOut, breaks>>
  BY DEF VisitContinue, Runs, Runner
<1>2. todo' = Below(todo)
  BY <1>1, Running, Pushes DEF VisitContinue, Then, Below
<1>3. mir' \in Seq(Tokens)
  <2>1. "continue" \in Tokens /\ "end" \in Tokens
    BY DEF Tokens, Marks
  <2> QED
    BY <2>1, TokenSeq DEF VisitContinue
<1>4. /\ continues' \in Tables /\ Len(continues') = Len(continues)
      /\ Collected(continues) \subseteq Collected(continues')
      /\ Jump(Place(block), 1) \in Collected(continues')
  BY <1>1, PlaceFree, TablePush DEF Jump
<1>5. /\ Jump(Spot(stmts, block), 1) \in Collected(breaks') \cup Collected(continues')
      /\ breaks' \in Tables /\ Len(breaks') = Len(breaks)
      /\ Collected(breaks) \subseteq Collected(breaks')
  BY <1>1, <1>4, PlaceFree
<1> QED
  BY <1>1, <1>2, <1>3, <1>4, <1>5, JumpStep

-----------------------------------------------------------------------------
(***************************************************************************)
(* Ifs.                                                                    *)
(***************************************************************************)
\* The visitors of the same statement.
Alter(u, v) ==
  /\ u.do \in Ifs <=> v.do \in Ifs
  /\ u.do \in Loops <=> v.do \in Loops
  /\ u.do = "cases" <=> v.do = "cases"
  /\ u.do = "arms" => u.end = v.end
  /\ u.do \in Loops => u.entry = v.entry
  /\ u.do = "cases" => u.at = v.at

LEMMA Swap ==
  ASSUME NEW s \in Seq(Visitors), s # << >>, NEW v \in Visitors, Fits(v, Below(s)),
         Alter(Runner(s), v),
         NEW j, NEW b, NEW c, Stacked(s, j, b, c), NEW live, NEW n, Numbered(s, live, n),
         NEW r, r = On(v, Below(s))
  PROVE  /\ r \in Seq(Visitors) /\ r # << >> /\ Runner(r) = v
         /\ Stacked(r, j, b, c) /\ Numbered(r, live, n)
         /\ Known(r, live) = Known(s, live) /\ Switches(r) = Switches(s)
         /\ Held(Runner(s)) \subseteq Held(v) => Waiting(s, j, b, c) \subseteq Waiting(r, j, b, c)
<1> DEFINE t == Below(s)
           h == Runner(s)
<1>1. h \in Visitors /\ t \in Seq(Visitors) /\ Layer(h, t, s) /\ Layer(v, t, r)
  BY TopLayer, Layered
<1>2. Alter(h, v) /\ Fits(v, t)
  OBVIOUS
<1> HIDE DEF t, h
<1>3. Ends(r) = Ends(s) /\ Switches(r) = Switches(s)
  BY <1>1, <1>2 DEF Layer, Alter, Ifs
<1>4. Entries(r) = Entries(s)
  BY <1>1, <1>2 DEF Layer, Alter, Loops
<1>5. Count(r, Ifs) = Count(s, Ifs) /\ Count(r, Loops) = Count(s, Loops)
  BY <1>1, <1>2 DEF Layer, Alter
<1>6. /\ r \in Seq(Visitors) /\ r # << >> /\ Runner(r) = v /\ Nested(r)
  BY <1>1, <1>2 DEF Layer, Stacked
<1>7. Held(h) \subseteq Held(v) => HeldBy(s) \subseteq HeldBy(r)
  BY <1>1 DEF Layer
<1>8. Held(h) \subseteq Held(v) => Waiting(s, j, b, c) \subseteq Waiting(r, j, b, c)
  BY <1>7 DEF Waiting
<1> QED
  BY <1>3, <1>4, <1>5, <1>6, <1>8 DEF Stacked, Numbered, Known, h

NewTable(tables) == Append(tables, {})

LEMMA PushArms ==
  ASSUME NEW t \in Seq(Visitors), t # << >>, Runner(t).do = "block",
         NEW live, live \subseteq Labels, ALLOCA \in live, NEW n \in Nat, n \notin live \cup Ends(t),
         Numbered(t, live, n),
         NEW v \in Visitors, v.do = "arms", v.end = n,
         NEW j \in Tables, NEW b, NEW c, Stacked(t, j, b, c),
         NEW s, s = On(v, t), NEW k, k = NewTable(j)
  PROVE  /\ s \in Seq(Visitors) /\ s # << >> /\ Runner(s) = v
         /\ Stacked(s, k, b, c) /\ Numbered(s, live, n + 1)
         /\ Known(t, live) \subseteq Known(s, live) /\ Switches(s) = Switches(t)
         /\ Waiting(t, j, b, c) \subseteq Waiting(s, k, b, c) /\ k \in Tables
<1>1. Layer(v, t, s)
  BY Layered
<1>2. Fits(v, t)
  BY DEF Fits
<1>3. /\ Ends(s) = Ends(t) \cup {n} /\ Entries(s) = Entries(t) /\ Switches(s) = Switches(t)
      /\ HeldBy(t) \subseteq HeldBy(s)
      /\ s \in Seq(Visitors) /\ s # << >> /\ Runner(s) = v /\ Nested(s)
  BY <1>1, <1>2 DEF Layer, Stacked
<1>4. Count(t, Ifs) \in Nat /\ Count(t, Loops) \in Nat
  BY CountType
<1>5. Count(s, Ifs) = Count(t, Ifs) + 1 /\ Count(s, Loops) = Count(t, Loops)
  BY <1>1, <1>4 DEF Layer, Ifs, Loops
<1>6. /\ k \in Tables /\ Len(k) = Len(j) + 1 /\ Collected(j) \subseteq Collected(k)
  BY TableAppend DEF NewTable
<1>7. Stacked(s, k, b, c)
  BY <1>3, <1>5, <1>6 DEF Stacked
<1>8. Numbered(s, live, n + 1)
  <2>1. \A l \in live \cup Ends(t) : l < n
    BY DEF Numbered
  <2>2. Ends(t) \subseteq Nat
    BY EndsLabels, LabelsAssumption
  <2>3. live \subseteq Nat
    BY LabelsAssumption
  <2>4. \A l \in live \cup Ends(s) : l < n + 1
    BY <1>3, <2>1, <2>2, <2>3
  <2>5. live \cap Ends(s) = {}
    BY <1>3 DEF Numbered
  <2> QED
    BY <1>3, <2>4, <2>5 DEF Numbered
<1>9. Known(t, live) \subseteq Known(s, live)
  BY <1>3 DEF Known
<1>10. Waiting(t, j, b, c) \subseteq Waiting(s, k, b, c)
  BY <1>3, <1>6 DEF Waiting
<1> QED
  BY <1>3, <1>6, <1>7, <1>8, <1>9, <1>10

\* The arms left to visit when an if is over or its end is reached.
ArmsLeft(end, left, els) == [do |-> "arms", end |-> end, left |-> left, els |-> els]

LEMMA WithoutElse ==
  ASSUME NEW end, NEW left, NEW els \in BOOLEAN
  PROVE  [ArmsLeft(end, left, els) EXCEPT !.els = FALSE] = ArmsLeft(end, left, FALSE)
<1> DEFINE none == FALSE
<1>1. none = FALSE
  OBVIOUS
<1> HIDE DEF none
<1>2. [ArmsLeft(end, left, els) EXCEPT !.els = none] = ArmsLeft(end, left, none)
  BY DEF ArmsLeft
<1> QED
  BY <1>1, <1>2

LEMMA VisitBranchStep ==
  ASSUME Unbounded, GenInv, VisitBranch
  PROVE  GenInv'
<1>1. PICK arms \in 1..MaxArms, els \in BOOLEAN :
        todo' = <<ArmsLeft(nextLabel, arms, els)>> \o todo
  BY DEF VisitBranch, ArmsLeft
<1> DEFINE v == ArmsLeft(nextLabel, arms, els)
<1>2. /\ todo # << >> /\ Runner(todo).do = "block"
      /\ jumpOut' = NewTable(jumpOut) /\ nextLabel' = nextLabel + 1
      /\ UNCHANGED <<order, stmts, block, value, breaks, continues>>
  BY DEF VisitBranch, Runs, Runner, NewTable
<1>3. arms \in Nat /\ arms # 0
  BY GenAssumption
<1>4. v \in Visitors /\ v.do = "arms" /\ v.end = nextLabel /\ ~Over(v)
  BY <1>2, <1>3, Running DEF Visitors, ArmsLeft, Over, Unbounded
<1>5. todo' = On(v, todo)
  BY <1>1, <1>4, Pushes DEF GenInv, Typed
<1>6. mir' \in Seq(Tokens)
  <2>1. "if" \in Tokens
    BY DEF Tokens
  <2> QED
    BY <2>1, TokenSeq DEF VisitBranch
<1> HIDE DEF v
<1> DEFINE w == Waiting(todo, jumpOut, breaks, continues)
           w1 == Waiting(todo', jumpOut', breaks', continues')
<1>7. /\ todo' \in Seq(Visitors) /\ todo' # << >> /\ Runner(todo') = v
      /\ Stacked(todo', jumpOut', breaks, continues) /\ Numbered(todo', Live, nextLabel + 1)
      /\ Known(todo, Live) \subseteq Known(todo', Live) /\ Switches(todo') = Switches(todo)
      /\ Waiting(todo, jumpOut, breaks, continues) \subseteq Waiting(todo', jumpOut', breaks, continues)
      /\ jumpOut' \in Tables
  <2>1. /\ todo \in Seq(Visitors) /\ Stacked(todo, jumpOut, breaks, continues)
        /\ Numbered(todo, Live, nextLabel) /\ jumpOut \in Tables
    BY DEF GenInv, Typed, Tables
  <2>2. Live \subseteq Labels /\ nextLabel \in Nat /\ nextLabel \notin Live \cup Ends(todo) /\ ALLOCA \in Live
    BY <1>2, Running DEF Unbounded
  <2> QED
    BY <1>2, <1>4, <1>5, <2>1, <2>2, PushArms
<1>8. Live' = Live
  BY <1>2 DEF Live
<1>9. w \subseteq w1
  BY <1>2, <1>7
<1>10. Emitted(stmts', "open", Live, block, Known(todo, Live), w, Switches(todo))
  BY <1>2, Running
<1> HIDE DEF w, w1
<1>11. Emitted(stmts', "open", Live', block', Known(todo', Live'), w1, Switches(todo'))
  <2>1. Emitted(stmts', "open", Live, block, Known(todo', Live), w1, Switches(todo'))
    BY <1>7, <1>9, <1>10, EmitWeaker
  <2> QED
    BY <1>2, <1>8, <2>1
<1>12. Ready(todo', stmts'[block'])
  <2>1. Bare(stmts[block])
    BY <1>2, OpenBlock DEF Openers
  <2> QED
    BY <1>2, <1>4, <1>7, <2>1 DEF Ready, AfterBlock
<1>13. nextLabel' \in Nat
  BY <1>2 DEF GenInv, Typed
<1> QED
  BY <1>2, <1>6, <1>7, <1>8, <1>11, <1>12, <1>13
     DEF GenInv, Typed, FuncTypeOK, Tables, w1

\* The next arm of an if, or its else.
LEMMA ArmStep ==
  ASSUME GenInv, todo # << >>, Runner(todo).do = "arms", ~Over(Runner(todo)),
         UNCHANGED <<order, stmts, block, nextLabel, value, jumpOut, breaks, continues>>,
         mir' \in Seq(Tokens),
         NEW v \in Visitors, v.do = "arms", v.end = Runner(todo).end,
         NEW u \in Visitors, u.do \in {"cond", "leave"}, u.end = v.end, LastArm(u) <=> Over(v),
         NEW a \in Visitors, a.do \in {"expr", "block"}, Sits(a, u), Held(u) = {},
         todo' = On(a, On(u, On(v, Below(todo))))
  PROVE  GenInv'
<1> DEFINE t == Below(todo)
           r == On(v, t)
           w == Waiting(todo, jumpOut, breaks, continues)
<1>1. /\ todo \in Seq(Visitors) /\ Stacked(todo, jumpOut, breaks, continues)
      /\ Numbered(todo, Live, nextLabel) /\ Fits(Runner(todo), t)
  BY Running DEF GenInv, Typed
<1>2. Fits(v, t)
  BY <1>1 DEF Fits
<1>3. Alter(Runner(todo), v) /\ Held(Runner(todo)) \subseteq Held(v)
  BY DEF Alter, Ifs, Loops, Held
<1>4. Light(u) /\ Light(a) /\ Held(a) = {}
  BY DEF Light, Held
<1> HIDE DEF r, w
<1>5. /\ r \in Seq(Visitors) /\ r # << >> /\ Runner(r) = v
      /\ Stacked(r, jumpOut, breaks, continues) /\ Numbered(r, Live, nextLabel)
      /\ Known(r, Live) = Known(todo, Live) /\ Switches(r) = Switches(todo)
      /\ w \subseteq Waiting(r, jumpOut, breaks, continues)
  BY <1>1, <1>2, <1>3, Swap DEF r, w
<1>6. Fits(u, r)
  BY <1>5 DEF Fits
<1>7. todo' = On(a, On(u, r))
  BY DEF r
<1>8. /\ todo' \in Seq(Visitors) /\ todo' # << >> /\ Runner(todo') = a
      /\ Stacked(todo', jumpOut, breaks, continues) /\ Numbered(todo', Live, nextLabel)
      /\ Known(todo', Live) = Known(r, Live) /\ Switches(todo') = Switches(r)
      /\ Waiting(todo', jumpOut, breaks, continues) = Waiting(r, jumpOut, breaks, continues)
  BY <1>4, <1>5, <1>6, <1>7, PushTwoIdle
<1>9. Bare(stmts[block])
  <2>1. Ready(todo, stmts[block])
    BY DEF GenInv
  <2> QED
    BY <2>1 DEF Ready, AfterBlock
<1>10. Ready(todo', stmts'[block])
  BY <1>8, <1>9, ReadyOpen DEF Openers
<1>11. /\ stmts' \in Contents
       /\ Emitted(stmts', "open", Live, block, Known(todo, Live), w, Switches(todo))
  BY Running DEF w
<1>12. value' \in Values
  BY DEF GenInv, Typed
<1> QED
  BY <1>5, <1>8, <1>10, <1>11, <1>12, Stay

LEMMA VisitArmStep ==
  ASSUME GenInv, VisitArm
  PROVE  GenInv'
<1> DEFINE h == Runner(todo)
           last == h.left = 1 /\ ~h.els
           v == [h EXCEPT !.left = @ - 1]
           u == [do |-> "cond", last |-> last, end |-> h.end]
           a == Expr(Conds)
<1>1. /\ todo # << >> /\ h.do = "arms" /\ h.left > 0
      /\ UNCHANGED <<order, stmts, block, nextLabel, value, jumpOut, breaks, continues>>
      /\ todo' = OnThree(a, u, v, Below(todo))
  BY DEF VisitArm, Runs, Runner, Then, Below, OnThree
<1>2. /\ h = ArmsLeft(h.end, h.left, h.els) /\ h.end \in Labels /\ h.left \in Nat /\ h.els \in BOOLEAN
  BY <1>1, Running DEF Visitors, ArmsLeft
<1>3. v = ArmsLeft(h.end, h.left - 1, h.els)
  BY <1>2 DEF ArmsLeft
<1>4. mir' \in Seq(Tokens)
  <2>1. "arm" \in Tokens
    BY DEF Tokens, Marks
  <2> QED
    BY <2>1, TokenSeq DEF VisitArm
<1> HIDE DEF v, h
<1>5. /\ v.do = "arms" /\ v.end = h.end /\ v.left = h.left - 1 /\ v.els = h.els
  BY <1>3 DEF ArmsLeft
<1>6. v \in Visitors
  BY <1>1, <1>2, <1>3 DEF Visitors, ArmsLeft
<1>7. /\ u \in Visitors /\ u.do = "cond" /\ u.end = v.end /\ u.last = last
  BY <1>2, <1>5 DEF Visitors
<1>8. a \in Visitors /\ a.do = "expr"
  BY GenAssumption DEF Visitors, Expr, Kinds
<1>9. last <=> Over(v)
  BY <1>1, <1>2, <1>5 DEF Over
<1> HIDE DEF u, a, last
<1>10. LastArm(u) <=> Over(v)
  BY <1>7, <1>9 DEF LastArm
<1>11. Sits(a, u) /\ Held(u) = {}
  BY <1>7, <1>8 DEF Sits, Fits, AfterValue, Held
<1>12. ~Over(h)
  BY <1>1, <1>2 DEF Over
<1>13. todo' = On(a, On(u, On(v, Below(todo))))
  <2>1. Below(todo) \in Seq(Visitors)
    BY <1>1, Running
  <2> QED
    BY <1>1, <1>6, <1>7, <1>8, <2>1, PushesThree
<1> QED
  BY <1>1, <1>4, <1>5, <1>6, <1>7, <1>8, <1>10, <1>11, <1>12, <1>13, ArmStep DEF h

LEMMA VisitElseStep ==
  ASSUME GenInv, VisitElse
  PROVE  GenInv'
<1> DEFINE h == Runner(todo)
           v == [h EXCEPT !.els = FALSE]
           u == [do |-> "leave", cond |-> {}, last |-> FALSE, end |-> h.end]
<1>1. /\ todo # << >> /\ h.do = "arms" /\ h.left = 0 /\ h.els
      /\ UNCHANGED <<order, stmts, block, nextLabel, value, jumpOut, breaks, continues>>
      /\ todo' = OnThree(Body, u, v, Below(todo))
  BY DEF VisitElse, Runs, Runner, Then, Below, OnThree
<1>2. /\ h = ArmsLeft(h.end, h.left, h.els) /\ h.end \in Labels /\ h.left \in Nat /\ h.els \in BOOLEAN
  BY <1>1, Running DEF Visitors, ArmsLeft
<1>3. v = ArmsLeft(h.end, 0, FALSE)
  BY <1>1, <1>2, WithoutElse
<1>4. mir' \in Seq(Tokens)
  <2>1. "else" \in Tokens
    BY DEF Tokens, Marks
  <2> QED
    BY <2>1, TokenSeq DEF VisitElse
<1> HIDE DEF v, h
<1>5. /\ v.do = "arms" /\ v.end = h.end /\ Over(v)
  BY <1>3 DEF ArmsLeft, Over
<1>6. v \in Visitors
  BY <1>2, <1>3 DEF Visitors, ArmsLeft
<1>7. /\ u \in Visitors /\ u.do = "leave" /\ u.end = v.end /\ u.cond = {}
  BY <1>2, <1>5 DEF Visitors
<1>8. Body \in Visitors /\ Body.do = "block" /\ ~Body.top
  BY DEF Visitors, Body
<1> HIDE DEF u
<1>9. LastArm(u) <=> Over(v)
  BY <1>5, <1>7 DEF LastArm
<1>10. Sits(Body, u) /\ Held(u) = {}
  BY <1>7, <1>8 DEF Sits, Fits, AfterBlock, Held
<1>11. ~Over(h)
  BY <1>1 DEF Over
<1>12. todo' = On(Body, On(u, On(v, Below(todo))))
  <2>1. Below(todo) \in Seq(Visitors)
    BY <1>1, Running
  <2> QED
    BY <1>1, <1>6, <1>7, <1>8, <2>1, PushesThree
<1> QED
  BY <1>1, <1>4, <1>5, <1>6, <1>7, <1>8, <1>9, <1>10, <1>11, <1>12, ArmStep DEF h

LEMMA ArmCondStep ==
  ASSUME Unbounded, GenInv, ArmCond
  PROVE  GenInv'
<1> DEFINE h == Runner(todo)
           t == Below(todo)
           at == Place(block)
           s == BrCond(value, nextLabel, UNSET)
           u == [do |-> "leave", cond |-> {at}, last |-> h.last, end |-> h.end]
           ok == Known(todo, Live)
           w == Waiting(todo, jumpOut, breaks, continues)
           w1 == Waiting(todo', jumpOut, breaks, continues)
           ok1 == Known(todo', Plus(Live, nextLabel))
<1>1. /\ todo # << >> /\ h.do = "cond" /\ NewBlock(nextLabel)
      /\ stmts' = Add(stmts, block, s)
      /\ UNCHANGED <<mir, value, jumpOut, breaks, continues>>
      /\ todo' = <<Body, u>> \o t
  BY DEF ArmCond, Runs, Then, Runner, Below
<1>2. /\ h \in Visitors /\ t \in Seq(Visitors) /\ Fits(h, t)
      /\ Emitted(stmts, "open", Live, block, ok, w, Switches(todo))
      /\ stmts \in Contents /\ Live \subseteq Labels /\ nextLabel \in Labels
  BY <1>1, Running DEF Unbounded
<1>3. h.last \in BOOLEAN /\ h.end \in Labels
  BY <1>1, <1>2 DEF Visitors
<1>4. /\ at \in Places /\ at = Spot(stmts, block)
  BY <1>1, PlaceFree
<1>5. s \in Stmts /\ s.op \in Terminators
  <2>1. value \in Values /\ UNSET \in Labels
    BY DEF GenInv, Typed, UNSET, Unbounded
  <2> QED
    BY <1>2, <2>1, StmtTypes DEF BrCond, Terminators
<1> HIDE DEF h, t, at, s
<1>6. /\ u \in Visitors /\ u.do = "leave" /\ u.cond = {at} /\ u.last = h.last /\ u.end = h.end
  BY <1>3, <1>4 DEF Visitors
<1>7. Body \in Visitors /\ Body.do = "block" /\ ~Body.top
  BY DEF Visitors, Body
<1> HIDE DEF u
<1>8. LastArm(u) <=> LastArm(h)
  <2>1. LastArm(h) <=> h.last
    BY <1>1 DEF LastArm, h
  <2>2. LastArm(u) <=> u.last
    BY <1>6 DEF LastArm
  <2> QED
    BY <1>6, <2>1, <2>2
<1>9. Fits(u, t)
  BY <1>1, <1>2, <1>6, <1>8 DEF Fits
<1>10. /\ Sits(Body, u) /\ Light(Body) /\ Light(u) /\ Light(h) /\ Held(h) = {} /\ Held(Body) = {}
  BY <1>1, <1>6, <1>7 DEF Sits, Fits, AfterBlock, Light, Held
<1>11. Jump(at, 2) \in Held(u)
  BY <1>6 DEF Held, Jump
<1>12. /\ Stacked(t, jumpOut, breaks, continues) /\ Numbered(t, Live, nextLabel)
       /\ Known(t, Live) = ok /\ Switches(t) = Switches(todo)
       /\ w \subseteq Waiting(t, jumpOut, breaks, continues)
  BY <1>1, <1>10, PopIdle DEF h, t
<1>13. todo' = On(Body, On(u, t))
  BY <1>1, <1>2, <1>6, <1>7, Pushes
<1> HIDE DEF w, ok
<1>14. /\ todo' \in Seq(Visitors) /\ todo' # << >> /\ Runner(todo') = Body
       /\ Stacked(todo', jumpOut, breaks, continues) /\ Numbered(todo', Live, nextLabel)
       /\ Known(todo', Live) = ok /\ Switches(todo') = Switches(todo)
  BY <1>2, <1>6, <1>7, <1>9, <1>10, <1>12, <1>13, PushTwo
<1>15. w \subseteq w1 /\ Jump(at, 2) \in w1
  <2>1. Waiting(t, jumpOut, breaks, continues) \cup Held(u) \subseteq w1
    BY <1>2, <1>6, <1>7, <1>9, <1>10, <1>12, <1>13, PushTwo
  <2> QED
    BY <1>11, <1>12, <2>1
<1>16. /\ Numbered(todo', Plus(Live, nextLabel), nextLabel + 1)
       /\ ok \subseteq ok1 /\ nextLabel \in ok1
  BY <1>2, <1>14, NumberedNew
<1>17. Leads(s, stmts, block, ok1, w1)
  <2> HIDE DEF w1, ok1
  <2>1. Jump(Spot(stmts, block), 2) \in w1
    BY <1>4, <1>15
  <2> QED
    BY <1>16, <2>1, LeadsBrCond DEF s
<1>18. \A c : Bare(c) => Ready(todo', c)
  BY <1>7, <1>14, ReadyOpen DEF Openers
<1>19. /\ value' \in Values /\ mir' \in Seq(Tokens) /\ jumpOut' \in Tables
       /\ breaks' \in Tables /\ continues' \in Tables
  BY <1>1 DEF GenInv, Typed, Tables
<1>20. /\ w \subseteq Waiting(todo', jumpOut', breaks', continues')
       /\ Leads(s, stmts, block, ok1, Waiting(todo', jumpOut', breaks', continues'))
       /\ Stacked(todo', jumpOut', breaks', continues')
  BY <1>1, <1>14, <1>15, <1>17
<1>21. Bare(stmts[block])
  BY <1>1, OpenBlock DEF Openers, h
<1> QED
  BY <1>1, <1>2, <1>5, <1>14, <1>16, <1>18, <1>19, <1>20, <1>21, BranchStep DEF ok, w

\* The block a jump behind a block of the source goes to: the current one, or a
\* fresh one behind a ret.
JumpFrom(from, o, n) ==
  \/ Bare(stmts[block]) /\ from = block /\ o = order /\ n = nextLabel
  \/ /\ Returns(stmts[block])
     /\ from = nextLabel /\ o = Append(order, nextLabel) /\ n = nextLabel + 1

LEMMA Fresh ==
  ASSUME Unbounded, GenInv, todo # << >>,
         Bare(stmts[block]) \/ Returns(stmts[block]),
         NEW fresh, fresh = IF RetNeedsBlock(block) THEN <<nextLabel>> ELSE << >>,
         NEW from, from = IF fresh = << >> THEN block ELSE nextLabel,
         NEW o, o = order \o fresh, NEW n, n = nextLabel + Len(fresh)
  PROVE  JumpFrom(from, o, n)
<1>1. order \in Seq(Labels) /\ nextLabel \in Nat /\ stmts[block] \in Seq(Stmts)
  BY Running DEF GenInv, Typed, FuncTypeOK
<1>2. CASE Bare(stmts[block])
  <2>1. ~RetNeedsBlock(block)
    BY <1>1, <1>2 DEF RetNeedsBlock, BackIsRet, Back, Bare, Terminators
  <2>2. fresh = << >>
    BY <2>1
  <2>3. from = block /\ o = order /\ n = nextLabel
    <3>1. from = block
      BY <2>2
    <3>2. order \o << >> = order /\ nextLabel + Len(<< >>) = nextLabel
      BY <1>1
    <3> QED
      BY <2>2, <3>1, <3>2, Zenon
  <2> QED
    BY <1>2, <2>3 DEF JumpFrom
<1>3. CASE Returns(stmts[block])
  <2>1. RetNeedsBlock(block)
    BY <1>1, <1>3 DEF RetNeedsBlock, BackIsRet, Back, Returns, Closed
  <2>2. fresh = <<nextLabel>> /\ fresh # << >>
    BY <2>1
  <2>3. from = nextLabel
    BY <2>2
  <2>4. o = Append(order, nextLabel) /\ n = nextLabel + 1
    <3>1. nextLabel \in Labels
      BY <1>1 DEF Unbounded
    <3>2. order \o <<nextLabel>> = Append(order, nextLabel) /\ Len(<<nextLabel>>) = 1
      BY <1>1, <3>1
    <3> QED
      BY <2>2, <3>2, Zenon
  <2> QED
    BY <1>3, <2>3, <2>4 DEF JumpFrom
<1> QED
  BY <1>2, <1>3

LEMMA FreshFrom ==
  ASSUME Unbounded, GenInv, todo # << >>, NEW from, NEW o, NEW n, JumpFrom(from, o, n)
  PROVE  \E live :
           /\ o \in Seq(Labels) /\ o # << >> /\ o[1] = ALLOCA /\ Range(o) = live
           /\ live \subseteq Labels /\ {ALLOCA, MOVEREG} \subseteq live
           /\ from \in live /\ n \in Nat /\ Numbered(todo, live, n)
           /\ Known(todo, Live) \subseteq Known(todo, live)
           /\ Emitted(stmts, "open", live, from, Known(todo, Live),
                      Waiting(todo, jumpOut, breaks, continues), Switches(todo))
           /\ Bare(stmts[from])
<1> DEFINE ok == Known(todo, Live)
           w == Waiting(todo, jumpOut, breaks, continues)
           sw == Switches(todo)
<1>1. /\ order \in Seq(Labels) /\ order # << >> /\ order[1] = ALLOCA /\ nextLabel \in Nat
      /\ todo \in Seq(Visitors) /\ Numbered(todo, Live, nextLabel)
  BY DEF GenInv, Typed, FuncTypeOK
<1>2. /\ Live \subseteq Labels /\ {ALLOCA, MOVEREG} \subseteq Live /\ block \in Live
      /\ nextLabel \in Labels /\ nextLabel \notin Live /\ stmts \in Contents
      /\ Emitted(stmts, "open", Live, block, ok, w, sw) /\ stmts[block] \in Seq(Stmts)
  BY Running DEF Unbounded
<1> HIDE DEF ok, w, sw
<1>3. CASE Bare(stmts[block]) /\ from = block /\ o = order /\ n = nextLabel
  BY <1>1, <1>2, <1>3 DEF Live, ok, w, sw
<1>4. CASE /\ Returns(stmts[block])
           /\ from = nextLabel /\ o = Append(order, nextLabel) /\ n = nextLabel + 1
  <2>1. Closed(stmts[block])
    BY <1>4 DEF Returns
  <2> DEFINE live == Plus(Live, nextLabel)
  <2>2. /\ o \in Seq(Labels) /\ o # << >> /\ o[1] = ALLOCA
        /\ Range(o) = Range(order) \cup {nextLabel}
    BY <1>1, <1>2, <1>4, AppendOrder
  <2>3. Range(o) = live
    BY <2>2 DEF Live, Plus
  <2>4. /\ Emitted(stmts, "open", live, from, ok, w, sw) /\ Bare(stmts[from])
        /\ live \subseteq Labels
    BY <1>2, <1>4, <2>1, EmitNew
  <2>5. /\ Numbered(todo, live, n) /\ Known(todo, Live) \subseteq Known(todo, live)
    BY <1>1, <1>2, <1>4, NumberedNew
  <2>6. {ALLOCA, MOVEREG} \subseteq live /\ from \in live /\ n \in Nat
    BY <1>1, <1>2, <1>4 DEF Plus
  <2> HIDE DEF live
  <2> QED
    BY <2>2, <2>3, <2>4, <2>5, <2>6 DEF ok, w, sw
<1> QED
  BY <1>3, <1>4 DEF JumpFrom

\* The jump itself.
LEMMA EmitJump ==
  ASSUME Unbounded, GenInv, todo # << >>, NEW from, NEW o, NEW n, JumpFrom(from, o, n),
         NEW s \in Stmts, s.op \in Terminators,
         NEW ok1, Known(todo, Live) \subseteq ok1,
         NEW w1, Waiting(todo, jumpOut, breaks, continues) \subseteq w1,
         Leads(s, stmts, from, ok1, w1), NEW f, f = Add(stmts, from, s)
  PROVE  \E live :
           /\ o \in Seq(Labels) /\ o # << >> /\ o[1] = ALLOCA /\ Range(o) = live
           /\ live \subseteq Labels /\ {ALLOCA, MOVEREG} \subseteq live
           /\ from \in live /\ n \in Nat /\ Numbered(todo, live, n)
           /\ Known(todo, Live) \subseteq Known(todo, live)
           /\ f \in Contents /\ Emitted(f, "open", live, from, ok1, w1, Switches(todo))
           /\ Closed(f[from])
<1> DEFINE ok == Known(todo, Live)
           w == Waiting(todo, jumpOut, breaks, continues)
           sw == Switches(todo)
<1>1. PICK live :
           /\ o \in Seq(Labels) /\ o # << >> /\ o[1] = ALLOCA /\ Range(o) = live
           /\ live \subseteq Labels /\ {ALLOCA, MOVEREG} \subseteq live
           /\ from \in live /\ n \in Nat /\ Numbered(todo, live, n)
           /\ ok \subseteq Known(todo, live)
           /\ Emitted(stmts, "open", live, from, ok, w, sw)
           /\ Bare(stmts[from])
  BY FreshFrom
<1>2. stmts \in Contents /\ sw \subseteq Places /\ ok \subseteq ok1 /\ w \subseteq w1
  BY Running
<1> HIDE DEF ok, w, sw
<1>3. Emitted(stmts, "open", live, from, ok1, w1, sw)
  BY <1>1, <1>2, EmitWeaker
<1>4. f \in Contents /\ Emitted(f, "open", live, from, ok1, w1, sw) /\ Closed(f[from])
  <2>1. live \subseteq Labels /\ Bare(stmts[from]) /\ stmts \in Contents /\ sw \subseteq Places
    BY <1>1, <1>2
  <2> QED
    BY <1>3, <2>1, EmitAdd
<1> QED
  BY <1>1, <1>4 DEF ok, sw

\* The end of an arm: the jump behind it, in the table of its if.
LEMMA LeaveJump ==
  ASSUME Unbounded, GenInv, todo # << >>, Runner(todo).do = "leave",
         NEW from, NEW o, NEW n, JumpFrom(from, o, n),
         NEW f, f = Add(stmts, from, Br(UNSET)),
         NEW j, j = PushBack(jumpOut, Spot(stmts, from))
  PROVE  \E live :
           /\ o \in Seq(Labels) /\ o # << >> /\ o[1] = ALLOCA /\ Range(o) = live
           /\ live \subseteq Labels /\ {ALLOCA, MOVEREG} \subseteq live
           /\ from \in live /\ n \in Nat /\ Numbered(todo, live, n)
           /\ Known(todo, Live) \subseteq Known(todo, live)
           /\ f \in Contents
           /\ Emitted(f, "open", live, from, Known(todo, Live),
                      Waiting(todo, j, breaks, continues), Switches(todo))
           /\ Closed(f[from])
           /\ j \in Tables /\ Stacked(todo, j, breaks, continues)
<1> DEFINE ok == Known(todo, Live)
           w == Waiting(todo, jumpOut, breaks, continues)
           w1 == Waiting(todo, j, breaks, continues)
           s == Br(UNSET)
<1>1. /\ todo \in Seq(Visitors) /\ Stacked(todo, jumpOut, breaks, continues) /\ jumpOut \in Tables
  BY DEF GenInv, Typed, Tables
<1>2. Len(jumpOut) > 0
  <2> DEFINE t == Below(todo)
  <2>1. t \in Seq(Visitors) /\ t # << >> /\ Runner(t).do = "arms" /\ Layer(Runner(todo), t, todo)
    BY Running DEF Fits
  <2>2. Layer(Runner(t), Below(t), t) /\ Below(t) \in Seq(Visitors)
    BY <2>1, TopLayer
  <2>3. Count(Below(t), Ifs) \in Nat /\ Count(t, Ifs) \in Nat
    BY <2>1, <2>2, CountType
  <2> HIDE DEF t
  <2>4. Count(t, Ifs) = Count(Below(t), Ifs) + 1
    BY <2>1, <2>2 DEF Layer, Ifs
  <2>5. Count(todo, Ifs) = Count(t, Ifs)
    BY <2>1, <2>3 DEF Layer, Ifs
  <2> QED
    BY <1>1, <2>3, <2>4, <2>5 DEF Stacked
<1>3. Spot(stmts, from) \in Places
  <2>1. stmts \in Contents /\ block \in Labels /\ nextLabel \in Labels
    BY Running DEF Unbounded
  <2>2. from \in Labels
    BY <2>1 DEF JumpFrom
  <2>3. stmts[from] \in Seq(Stmts)
    BY <2>1, <2>2 DEF Contents
  <2> QED
    BY <2>2, <2>3 DEF Places, Spot
<1>4. /\ j \in Tables /\ Len(j) = Len(jumpOut)
      /\ Collected(jumpOut) \subseteq Collected(j)
      /\ Jump(Spot(stmts, from), 1) \in Collected(j)
  BY <1>1, <1>2, <1>3, TablePush DEF Jump
<1>5. w \subseteq w1 /\ Jump(Spot(stmts, from), 1) \in w1
  BY <1>4 DEF Waiting
<1>6. Stacked(todo, j, breaks, continues)
  BY <1>1, <1>4 DEF Stacked
<1>7. s \in Stmts /\ s.op \in Terminators
  BY DEF Br, Stmts, Ops, Mem, Values, Terminators, UNSET, Unbounded
<1>8. Leads(s, stmts, from, ok, w1)
  BY <1>5, LeadsBr
<1>9. f = Add(stmts, from, s) /\ ok \subseteq ok
  OBVIOUS
<1> HIDE DEF ok, w1, s
<1>10. \E live :
           /\ o \in Seq(Labels) /\ o # << >> /\ o[1] = ALLOCA /\ Range(o) = live
           /\ live \subseteq Labels /\ {ALLOCA, MOVEREG} \subseteq live
           /\ from \in live /\ n \in Nat /\ Numbered(todo, live, n)
           /\ ok \subseteq Known(todo, live)
           /\ f \in Contents
           /\ Emitted(f, "open", live, from, ok, w1, Switches(todo))
           /\ Closed(f[from])
  BY <1>5, <1>7, <1>8, <1>9, EmitJump DEF ok
<1> QED
  BY <1>4, <1>6, <1>10 DEF ok, w1

\* What the if below the end of an arm expects of the current block.
LEMMA ArmsReady ==
  ASSUME NEW t, t # << >>, Runner(t).do = "arms", NEW c
  PROVE  Ready(t, c) <=> IF Over(Runner(t)) THEN Closed(c) ELSE Bare(c)
BY DEF Ready, AfterBlock

LEMMA LeaveElse ==
  ASSUME Unbounded, GenInv, todo # << >>, Runner(todo).do = "leave", Runner(todo).cond = {},
         NEW from, JumpFrom(from, order', nextLabel'),
         stmts' = Add(stmts, from, Br(UNSET)), jumpOut' = PushBack(jumpOut, Spot(stmts, from)),
         block' = from, todo' = Below(todo), UNCHANGED <<mir, value, breaks, continues>>
  PROVE  GenInv'
<1> DEFINE h == Runner(todo)
           t == Below(todo)
           ok == Known(todo, Live)
           w1 == Waiting(todo, jumpOut', breaks, continues)
           sw == Switches(todo)
<1>1. PICK live :
           /\ order' \in Seq(Labels) /\ order' # << >> /\ order'[1] = ALLOCA
           /\ Range(order') = live
           /\ live \subseteq Labels /\ {ALLOCA, MOVEREG} \subseteq live
           /\ from \in live /\ nextLabel' \in Nat /\ Numbered(todo, live, nextLabel')
           /\ ok \subseteq Known(todo, live)
           /\ stmts' \in Contents
           /\ Emitted(stmts', "open", live, from, ok, w1, sw)
           /\ Closed(stmts'[from])
           /\ jumpOut' \in Tables /\ Stacked(todo, jumpOut', breaks, continues)
  BY LeaveJump
<1>2. Live' = live
  BY <1>1 DEF Live
<1>3. Fits(h, t) /\ h.do = "leave" /\ h.cond = {} /\ todo \in Seq(Visitors)
  BY Running DEF GenInv, Typed
<1>4. t # << >> /\ Runner(t).do = "arms" /\ Over(Runner(t))
  BY <1>3 DEF Fits, LastArm
<1>5. Light(h) /\ Held(h) = {}
  BY <1>3 DEF Light, Held
<1>6. /\ t \in Seq(Visitors) /\ Stacked(t, jumpOut', breaks, continues)
      /\ Numbered(t, live, nextLabel')
      /\ Known(t, live) = Known(todo, live) /\ Switches(t) = sw
  BY <1>1, <1>3, <1>5, PopLight
<1>7. w1 \subseteq Waiting(t, jumpOut', breaks, continues)
  BY <1>1, <1>3, <1>5, PopLight
<1> HIDE DEF ok, w1, sw
<1>8. Emitted(stmts', "open", live, from, Known(t, live),
              Waiting(t, jumpOut', breaks, continues), Switches(t))
  BY <1>1, <1>6, <1>7, EmitWeaker
<1>9. Ready(t, stmts'[from])
  BY <1>1, <1>4, ArmsReady
<1> QED
  BY <1>1, <1>2, <1>4, <1>6, <1>8, <1>9 DEF GenInv, Typed, FuncTypeOK, Contents, Tables

\* What LeaveArm does behind an arm with a condition: f with the jump, g with the
\* jump of the false block as well.
LeavesCond(from, o, n, f, g) ==
  LET h == Runner(todo) IN
  /\ JumpFrom(from, o, n) /\ order' = Append(o, n) /\ nextLabel' = n + 1 /\ block' = n
  /\ f = Add(stmts, from, Br(UNSET))
  /\ IF h.last THEN g = Add(f, n, Br(h.end)) ELSE g = f
  /\ stmts' = Patch(g, h.cond, 2, n)
  /\ jumpOut' = PushBack(jumpOut, Spot(stmts, from))
  /\ todo' = Below(todo) /\ UNCHANGED <<mir, value, breaks, continues>>

LEMMA LeaveCond ==
  ASSUME Unbounded, GenInv, todo # << >>, Runner(todo).do = "leave", Runner(todo).cond # {},
         NEW from, NEW o, NEW n, NEW f, NEW g, LeavesCond(from, o, n, f, g)
  PROVE  GenInv'
<1> DEFINE h == Runner(todo)
           t == Below(todo)
           ok == Known(todo, Live)
           w1 == Waiting(todo, jumpOut', breaks, continues)
           w2 == Waiting(t, jumpOut', breaks, continues)
           sw == Switches(todo)
           P == h.cond
<1>1. PICK live :
           /\ o \in Seq(Labels) /\ o # << >> /\ o[1] = ALLOCA
           /\ Range(o) = live
           /\ live \subseteq Labels /\ {ALLOCA, MOVEREG} \subseteq live
           /\ from \in live /\ n \in Nat /\ Numbered(todo, live, n)
           /\ ok \subseteq Known(todo, live)
           /\ f \in Contents
           /\ Emitted(f, "open", live, from, ok, w1, sw)
           /\ Closed(f[from])
           /\ jumpOut' \in Tables /\ Stacked(todo, jumpOut', breaks, continues)
  BY LeaveJump DEF LeavesCond
<1>2. /\ Fits(h, t) /\ h.do = "leave" /\ P # {} /\ todo \in Seq(Visitors)
      /\ Emitted(stmts, "open", Live, block, ok, Waiting(todo, jumpOut, breaks, continues), sw)
      /\ sw \subseteq Places /\ h \in Visitors /\ ALLOCA \in Live /\ Layer(h, t, todo)
  BY Running DEF GenInv, Typed
<1>3. /\ t # << >> /\ Runner(t).do = "arms" /\ Runner(t).end = h.end
      /\ Over(Runner(t)) <=> h.last
  BY <1>2 DEF Fits, LastArm
<1>4. Light(h) /\ Held(h) = P \X {2}
  BY <1>2 DEF Light, Held
<1> DEFINE more == Plus(live, n)
           ok1 == Known(t, more)
<1>5. n \in Labels \ live
  <2>1. n \in Labels
    BY <1>1 DEF Unbounded
  <2>2. n \notin live
    BY <1>1 DEF Numbered
  <2> QED
    BY <2>1, <2>2
<1>6. /\ Numbered(todo, more, n + 1) /\ n \in Known(todo, more)
      /\ Known(todo, live) \subseteq Known(todo, more)
  BY <1>1, <1>2, <1>5, NumberedNew
<1>7. /\ t \in Seq(Visitors) /\ Stacked(t, jumpOut', breaks, continues)
      /\ Numbered(t, more, n + 1) /\ Known(t, more) = Known(todo, more) /\ Switches(t) = sw
  BY <1>1, <1>2, <1>4, <1>6, PopLight
<1>8. w1 \subseteq w2 \cup (P \X {2})
  BY <1>1, <1>2, <1>4, <1>6, PopLight
<1>9. h.end \in ok /\ h.end \in Labels
  <2>1. Layer(Runner(t), Below(t), t)
    BY <1>3, <1>7, TopLayer
  <2>2. h.end \in Ends(t)
    BY <1>3, <2>1 DEF Layer
  <2>3. h.end \in Ends(todo)
    BY <1>2, <2>2 DEF Layer
  <2>4. h.end # ALLOCA
    BY <1>2, <2>3 DEF GenInv, Numbered
  <2> QED
    BY <1>2, <2>3, <2>4, EndsLabels DEF Known
<1>10. ok \subseteq ok1 /\ n \in ok1
  BY <1>1, <1>6, <1>7
<1>11. block' = n /\ UNCHANGED <<mir, value, breaks, continues>>
  BY DEF LeavesCond
<1>12. Live' = more /\ order' \in Seq(Labels) /\ order' # << >> /\ order'[1] = ALLOCA
  BY <1>1, <1>5, AppendOrder DEF Live, Plus, LeavesCond
<1>13. IF h.last THEN g = Add(f, n, Br(h.end)) ELSE g = f
  BY DEF LeavesCond
<1>14. stmts' = Patch(g, P, 2, n)
  BY DEF LeavesCond
<1> HIDE DEF ok, w1, sw, h, t, ok1, w2, P
<1>15. /\ Emitted(f, "open", more, n, ok, w1, sw) /\ Bare(f[n]) /\ more \subseteq Labels
  BY <1>1, <1>5, EmitNew
<1>16. {ALLOCA, MOVEREG} \subseteq more
  BY <1>1 DEF Plus
<1> HIDE DEF more
<1>17. /\ g \in Contents /\ Emitted(g, "open", more, n, ok, w1, sw)
       /\ Ready(t, g[n])
  <2>1. CASE ~h.last
    BY <1>1, <1>3, <1>13, <1>15, <2>1, ArmsReady
  <2>2. CASE h.last
    <3> DEFINE s == Br(h.end)
    <3>1. s \in Stmts /\ s.op \in Terminators
      BY <1>9 DEF Br, Stmts, Ops, Mem, Values, Terminators
    <3>2. Leads(s, f, n, ok, w1)
      BY <1>9, LeadsBr
    <3>3. g = Add(f, n, s)
      BY <1>13, <2>2
    <3> HIDE DEF s
    <3>4. /\ g \in Contents /\ Emitted(g, "open", more, n, ok, w1, sw) /\ Closed(g[n])
      <4>1. f \in Contents /\ sw \subseteq Places
        BY <1>1, <1>2
      <4> QED
        BY <1>15, <3>1, <3>2, <3>3, <4>1, EmitAdd
    <3> QED
      BY <1>3, <2>2, <3>4, ArmsReady
  <2> QED
    BY <2>1, <2>2
<1>18. /\ stmts' \in Contents /\ Emitted(stmts', "open", more, n, ok1, w2, sw)
       /\ Bare(g[n]) <=> Bare(stmts'[n])
       /\ Closed(g[n]) <=> Closed(stmts'[n])
  <2>1. more \subseteq Labels /\ sw \subseteq Places /\ n \in Labels
    BY <1>2, <1>5, <1>15
  <2>2. g \in Contents /\ Emitted(g, "open", more, n, ok, w1, sw)
    BY <1>17
  <2>3. PatchFits(more, sw, ok, ok1, w1, w2, P, 2, n)
    BY <1>8, <1>10, <1>16, <2>1 DEF PatchFits
  <2> QED
    BY <1>14, <2>2, <2>3, EmitPatched
<1>19. Ready(t, stmts'[n])
  BY <1>3, <1>17, <1>18, ArmsReady
<1>20. Emitted(stmts', "open", more, n, Known(t, more),
               Waiting(t, jumpOut', breaks, continues), Switches(t))
  BY <1>7, <1>18 DEF ok1, w2
<1>21. todo' = t /\ nextLabel' = n + 1
  BY DEF t, LeavesCond
<1>22. /\ FuncTypeOK' /\ nextLabel' \in Nat /\ value' \in Values /\ mir' \in Seq(Tokens)
       /\ jumpOut' \in Seq(SUBSET Places)
       /\ breaks' \in Seq(SUBSET Places) /\ continues' \in Seq(SUBSET Places)
  BY <1>1, <1>12, <1>18, <1>21, <1>11 DEF GenInv, Typed, FuncTypeOK, Contents, Tables
<1>23. t \in Seq(Visitors) /\ t # << >> /\ n \in Nat
       /\ Stacked(t, jumpOut', breaks, continues) /\ Numbered(t, more, n + 1)
  BY <1>1, <1>3, <1>7
<1> QED
  BY <1>12, <1>19, <1>20, <1>21, <1>11, <1>22, <1>23 DEF GenInv, Typed
LEMMA LeaveArmStep ==
  ASSUME Unbounded, GenInv, LeaveArm
  PROVE  GenInv'
<1> DEFINE h == Runner(todo)
           fresh == IF RetNeedsBlock(block) THEN <<nextLabel>> ELSE << >>
           from == IF fresh = << >> THEN block ELSE nextLabel
           n == nextLabel + Len(fresh)
           o == order \o fresh
           f == Add(stmts, from, Br(UNSET))
           g == IF h.last THEN Add(f, n, Br(h.end)) ELSE f
<1>1. /\ todo # << >> /\ h.do = "leave"
      /\ jumpOut' = PushBack(jumpOut, Spot(stmts, from))
      /\ IF h.cond = {}
         THEN stmts' = f /\ order' = o /\ block' = from /\ nextLabel' = n
         ELSE /\ stmts' = Patch(g, h.cond, 2, n) /\ order' = o \o <<n>>
              /\ block' = n /\ nextLabel' = n + 1
      /\ todo' = << >> \o Below(todo)
      /\ UNCHANGED <<mir, value, breaks, continues>>
  BY DEF LeaveArm, Runs, Then, Runner, Below, Place, Spot
<1>2. Bare(stmts[block]) \/ Returns(stmts[block])
  BY <1>1 DEF GenInv, Ready, AfterBlock
<1>3. JumpFrom(from, o, n)
  <2> HIDE DEF h
  <2> QED
    BY <1>1, <1>2, Fresh
<1>4. todo' = Below(todo)
  <2>1. Below(todo) \in Seq(Visitors)
    BY <1>1, Running
  <2> QED
    BY <1>1, <2>1
<1>5. o \in Seq(Labels) /\ n \in Nat
  BY <1>1, <1>3, FreshFrom
<1> HIDE DEF fresh, from, n, o
<1>6. o \o <<n>> = Append(o, n)
  BY <1>5
<1>7. CASE h.cond = {}
  BY <1>1, <1>3, <1>4, <1>7, LeaveElse
<1>8. CASE h.cond # {}
  <2>1. LeavesCond(from, o, n, f, g)
    BY <1>1, <1>3, <1>4, <1>6, <1>8 DEF LeavesCond
  <2> HIDE DEF f, g
  <2> QED
    BY <1>1, <1>8, <2>1, LeaveCond
<1> QED
  BY <1>7, <1>8

(***************************************************************************)
(* The block behind an if.                                                 *)
(***************************************************************************)
LEMMA EndBranchStep ==
  ASSUME Unbounded, GenInv, EndBranch
  PROVE  GenInv'
<1> DEFINE h == Runner(todo)
           t == Below(todo)
           l == h.end
           P == Top(jumpOut)
           ok == Known(todo, Live)
           w == Waiting(todo, jumpOut, breaks, continues)
           w1 == Waiting(t, jumpOut', breaks, continues)
           sw == Switches(todo)
           more == Plus(Live, l)
           ok1 == Known(t, more)
<1>1. /\ todo # << >> /\ h.do = "arms" /\ Over(h)
      /\ stmts' = Patch(stmts, P, 1, l) /\ order' = Append(order, l) /\ block' = l
      /\ jumpOut' = Pop(jumpOut) /\ Visited(<<"fi">>) /\ todo' = << >> \o t
      /\ UNCHANGED <<nextLabel, value, breaks, continues>>
  BY DEF EndBranch, Runs, Then, Runner, Below, Over
<1>2. /\ t \in Seq(Visitors) /\ Layer(h, t, todo) /\ Fits(h, t) /\ Nested(t) /\ h \in Visitors
      /\ stmts \in Contents /\ order \in Seq(Labels) /\ Live \subseteq Labels
      /\ {ALLOCA, MOVEREG, ENTRY} \subseteq Live
      /\ Emitted(stmts, "open", Live, block, ok, w, sw) /\ sw \subseteq Places
      /\ stmts[block] \in Seq(Stmts) /\ block \in Live
  BY <1>1, Running
<1>3. todo' = t
  BY <1>1, <1>2
<1>4. Closed(stmts[block])
  BY <1>1 DEF GenInv, Ready, AfterBlock
<1>5. t # << >> /\ Runner(t).do = "block" /\ l \notin Ends(t)
  BY <1>1, <1>2 DEF Fits
<1>6. /\ Ends(todo) = Ends(t) \cup {l} /\ Entries(todo) = Entries(t) /\ sw = Switches(t)
      /\ HeldBy(todo) = HeldBy(t)
      /\ Count(todo, Ifs) = Count(t, Ifs) + 1 /\ Count(todo, Loops) = Count(t, Loops)
  <2>1. Held(h) = {}
    BY <1>1 DEF Held
  <2>2. Count(t, Loops) \in Nat
    BY <1>2, CountType
  <2> QED
    BY <1>1, <1>2, <2>1, <2>2 DEF Layer, Ifs, Loops
<1>7. /\ jumpOut \in Tables /\ Len(jumpOut) = Count(todo, Ifs)
      /\ Len(breaks) = Count(todo, Loops) /\ Len(continues) = Count(todo, Loops)
      /\ Numbered(todo, Live, nextLabel) /\ order # << >> /\ order[1] = ALLOCA
      /\ nextLabel \in Nat
  BY DEF GenInv, Stacked, Typed, Tables
<1>8. /\ Pop(jumpOut) \in Tables /\ Len(Pop(jumpOut)) = Len(jumpOut) - 1
      /\ P \in SUBSET Places
      /\ Collected(jumpOut) = Collected(Pop(jumpOut)) \cup (P \X {1})
  <2>1. Count(t, Ifs) \in Nat
    BY <1>2, CountType
  <2>2. Len(jumpOut) > 0
    BY <1>6, <1>7, <2>1
  <2> QED
    BY <1>7, <2>2, TablePop
<1>9. Stacked(t, jumpOut', breaks, continues)
  <2>1. Count(t, Ifs) \in Nat
    BY <1>2, CountType
  <2> QED
    BY <1>1, <1>2, <1>6, <1>7, <1>8, <2>1 DEF Stacked
<1>10. l \in Labels \ Live /\ l # ALLOCA
  BY <1>1, <1>2, <1>6, <1>7, EndsLabels DEF Numbered, GenInv, Typed
<1>11. Numbered(t, more, nextLabel)
  BY <1>5, <1>6, <1>7, <1>10 DEF Numbered, Plus
<1>12. ok = ok1 /\ l \in ok1
  BY <1>6, <1>10 DEF Known, Plus
<1>13. w \subseteq w1 \cup (P \X {1})
  BY <1>1, <1>6, <1>8 DEF Waiting
<1> HIDE DEF ok, w, w1, sw, P, l, ok1, t, h
<1>14. /\ Emitted(stmts, "open", more, l, ok, w, sw) /\ Bare(stmts[l]) /\ more \subseteq Labels
  <2>1. {ALLOCA, MOVEREG} \subseteq Live
    BY <1>2
  <2> QED
    BY <1>2, <1>4, <1>10, <2>1, EmitNew
<1>15. Live' = more /\ order' \in Seq(Labels) /\ order' # << >> /\ order'[1] = ALLOCA
  BY <1>1, <1>2, <1>7, <1>10, AppendOrder DEF Live, Plus
<1>16. PatchFits(more, sw, ok, ok1, w, w1, P, 1, l)
  BY <1>2, <1>10, <1>12, <1>13, <1>14 DEF PatchFits, Plus
<1> HIDE DEF more
<1>17. /\ stmts' \in Contents /\ Emitted(stmts', "open", more, l, ok1, w1, sw)
       /\ Bare(stmts'[l])
  BY <1>1, <1>2, <1>14, <1>16, EmitPatched
<1>18. Ready(t, stmts'[l])
  BY <1>5, <1>17, ReadyOpen DEF Openers
<1>19. Emitted(stmts', "open", more, l, Known(t, more),
               Waiting(t, jumpOut', breaks, continues), Switches(t))
  BY <1>6, <1>17 DEF ok1, w1
<1>20. mir' \in Seq(Tokens)
  <2>1. "fi" \in Tokens
    BY DEF Tokens, Marks
  <2> QED
    BY <1>1, <2>1, TokenSeq
<1>21. /\ FuncTypeOK' /\ value' \in Values /\ nextLabel' = nextLabel /\ nextLabel' \in Nat
       /\ jumpOut' \in Seq(SUBSET Places)
       /\ breaks' \in Seq(SUBSET Places) /\ continues' \in Seq(SUBSET Places)
  BY <1>1, <1>7, <1>8, <1>15, <1>17 DEF GenInv, Typed, FuncTypeOK, Contents, Tables
<1>22. block' = l /\ UNCHANGED <<breaks, continues>>
  BY <1>1
<1> QED
  BY <1>2, <1>3, <1>5, <1>9, <1>11, <1>15, <1>18, <1>19, <1>20, <1>21, <1>22
     DEF GenInv, Typed

\* A visitor that goes on with stack t in block l: what is left to show of GenInv.
LEMMA Resumes ==
  ASSUME order' \in Seq(Labels), order' # << >>, order'[1] = ALLOCA,
         NEW live, Live' = live, NEW t \in Seq(Visitors), t # << >>, todo' = t,
         NEW n \in Nat, nextLabel' = n, NEW l, block' = l,
         mir' \in Seq(Tokens), value' \in Values,
         jumpOut' \in Tables, breaks' \in Tables, continues' \in Tables,
         Stacked(t, jumpOut', breaks', continues'), Numbered(t, live, n),
         stmts' \in Contents,
         NEW w, w \subseteq Waiting(t, jumpOut', breaks', continues'),
         NEW sw, Switches(t) \subseteq sw,
         Emitted(stmts', "open", live, l, Known(t, live), w, sw),
         Ready(t, stmts'[l])
  PROVE  GenInv'
<1>1. Emitted(stmts', "open", live, l, Known(t, live),
              Waiting(t, jumpOut', breaks', continues'), Switches(t))
  BY EmitWeaker
<1>2. Typed'
  BY DEF Typed, FuncTypeOK, Contents, Tables
<1> QED
  BY <1>1, <1>2 DEF GenInv

\* The branches in P that wait with arm k arrive in a new block n, behind a block
\* that is closed.
Joins(live, n, sw, ok, ok1, w, w1, P, k) ==
  /\ live \subseteq Labels /\ {ALLOCA, MOVEREG} \subseteq live /\ n \in Labels \ live
  /\ sw \subseteq Places /\ ok \subseteq ok1 /\ n \in ok1 /\ w \subseteq w1 \cup (P \X {k})

LEMMA EmitJoin ==
  ASSUME NEW f \in Contents, NEW live, NEW now, NEW ok, NEW w, NEW sw,
         Emitted(f, "open", live, now, ok, w, sw), Closed(f[now]),
         NEW n, NEW P, NEW k, NEW ok1, NEW w1, Joins(live, n, sw, ok, ok1, w, w1, P, k),
         NEW g, g = Patch(f, P, k, n)
  PROVE  /\ g \in Contents
         /\ Emitted(g, "open", Plus(live, n), n, ok1, w1, sw)
         /\ Bare(g[n]) /\ Plus(live, n) \subseteq Labels /\ {ALLOCA, MOVEREG} \subseteq Plus(live, n)
<1>1. live \subseteq Labels /\ {ALLOCA, MOVEREG} \subseteq live /\ n \in Labels \ live
  BY DEF Joins
<1>2. /\ Emitted(f, "open", Plus(live, n), n, ok, w, sw)
      /\ Bare(f[n]) /\ Plus(live, n) \subseteq Labels
  BY <1>1, EmitNew
<1>3. {ALLOCA, MOVEREG} \subseteq Plus(live, n)
  BY <1>1 DEF Plus
<1> DEFINE more == Plus(live, n)
<1> HIDE DEF more
<1>4. PatchFits(more, sw, ok, ok1, w, w1, P, k, n)
  BY <1>1, <1>2, <1>3 DEF PatchFits, Joins, more
<1>5. g \in Contents /\ Emitted(g, "open", more, n, ok1, w1, sw) /\ (Bare(f[n]) <=> Bare(g[n]))
  BY <1>2, <1>4, EmitPatched DEF more
<1> QED
  BY <1>2, <1>3, <1>5 DEF more

LEMMA ShortCircuitRightStep ==
  ASSUME Unbounded, GenInv, ShortCircuitRight
  PROVE  GenInv'
<1> DEFINE h == Runner(todo)
           t == Below(todo)
           n == nextLabel
           P == {h.at}
           k == h.arm
           ok == Known(todo, Live)
           w == Waiting(todo, jumpOut, breaks, continues)
           w1 == Waiting(t, jumpOut, breaks, continues)
           sw == Switches(todo)
           more == Plus(Live, n)
           ok1 == Known(t, more)
           e == Add(stmts, block, Inst(Mem))
           s == Br(n)
           f == Add(e, block, s)
           g == Patch(f, P, k, n)
<1>1. /\ todo # << >> /\ h.do = "right"
      /\ stmts' = Add(g, n, Inst(Mem)) /\ value' = <<"var", h.node>>
      /\ NewBlock(n) /\ todo' = << >> \o t
      /\ UNCHANGED <<mir, jumpOut, breaks, continues>>
  BY DEF ShortCircuitRight, Runs, Then, Runner, Below
<1>2. /\ stmts \in Contents /\ Live \subseteq Labels /\ {ALLOCA, MOVEREG, ENTRY} \subseteq Live
      /\ Emitted(stmts, "open", Live, block, ok, w, sw) /\ sw \subseteq Places
      /\ h \in Visitors /\ n \in Nat
  BY <1>1, Running
<1>3. /\ t \in Seq(Visitors) /\ t # << >> /\ Runner(t).do \in Openers
      /\ Stacked(t, jumpOut, breaks, continues) /\ Numbered(t, Live, n)
      /\ Known(t, Live) = ok /\ Switches(t) = sw /\ w = w1 \cup Held(h)
      /\ Bare(stmts[block]) /\ \A c : Ready(t, c) <=> Bare(c)
  BY <1>1, ValueDone
<1>4. /\ order' \in Seq(Labels) /\ order' # << >> /\ order'[1] = ALLOCA
      /\ Live' = more /\ block' = n /\ nextLabel' = n + 1 /\ n + 1 \in Nat
      /\ n \in Labels \ Live
  BY <1>1, <1>2, NewBlockFacts
<1>5. Numbered(t, more, n + 1) /\ n \in ok1 /\ ok \subseteq ok1
  BY <1>2, <1>3, <1>4, NumberedNew
<1>6. w \subseteq w1 \cup (P \X {k})
  BY <1>1, <1>3 DEF Held
<1>7. todo' = t /\ value' \in Values /\ mir' \in Seq(Tokens)
  <2>1. h.node \in Nat
    BY <1>1, <1>2 DEF Visitors
  <2> QED
    BY <1>1, <1>3, <2>1 DEF Values, GenInv, Typed
<1>8. {ALLOCA, MOVEREG} \subseteq Live /\ Mem \in Values
  BY <1>2 DEF Mem, Values
<1> HIDE DEF ok, w, w1, sw, P, k, ok1, t, h
<1>9. Emitted(stmts, "open", Live, block, ok1, w, sw)
  BY <1>2, <1>5, EmitWeaker
<1>10. e \in Contents /\ Emitted(e, "open", Live, block, ok1, w, sw) /\ Bare(e[block])
  BY <1>2, <1>3, <1>8, <1>9, EmitInst
<1> HIDE DEF e
<1>11. f \in Contents /\ Emitted(f, "open", Live, block, ok1, w, sw) /\ Closed(f[block])
  <2>1. s \in Stmts /\ s.op \in Terminators
    BY <1>4, <1>8, StmtTypes DEF Br, Terminators
  <2>2. Leads(s, e, block, ok1, w)
    BY <1>5, LeadsBr
  <2> HIDE DEF s
  <2> QED
    BY <1>2, <1>10, <2>1, <2>2, EmitAdd
<1> HIDE DEF f
<1>12. Joins(Live, n, sw, ok1, ok1, w, w1, P, k)
  BY <1>2, <1>4, <1>5, <1>6, <1>8 DEF Joins
<1>13. /\ g \in Contents /\ Emitted(g, "open", more, n, ok1, w1, sw) /\ Bare(g[n])
       /\ more \subseteq Labels
  BY <1>11, <1>12, EmitJoin
<1> HIDE DEF g, more
<1>14. stmts' \in Contents /\ Emitted(stmts', "open", more, n, ok1, w1, sw) /\ Bare(stmts'[n])
  BY <1>1, <1>2, <1>8, <1>13, EmitInst
<1>15. jumpOut' \in Tables /\ breaks' \in Tables /\ continues' \in Tables
  BY <1>1, PlaceFree
<1>16. /\ Emitted(stmts', "open", more, n, Known(t, more), w1, sw)
       /\ w1 \subseteq Waiting(t, jumpOut', breaks', continues') /\ Switches(t) \subseteq sw
       /\ Stacked(t, jumpOut', breaks', continues')
  BY <1>1, <1>3, <1>14 DEF ok1, w1
<1> HIDE DEF n
<1> QED
  BY <1>3, <1>4, <1>5, <1>7, <1>14, <1>15, <1>16, Resumes

(***************************************************************************)
(* match.                                                                  *)
(***************************************************************************)
LEMMA VisitSwitchStep ==
  ASSUME GenInv, VisitSwitch
  PROVE  GenInv'
<1>1. PICK cases \in 1..MaxArms, dflt \in BOOLEAN :
        todo' = <<Expr({"load", "call"}),
                  [do |-> "switch", left |-> cases, dflt |-> dflt]>> \o todo
  BY DEF VisitSwitch
<1> DEFINE a == Expr({"load", "call"})
           b == [do |-> "switch", left |-> cases, dflt |-> dflt]
           w == Waiting(todo, jumpOut, breaks, continues)
<1>2. /\ todo # << >> /\ Runner(todo).do = "block"
      /\ UNCHANGED <<order, stmts, block, nextLabel, value, jumpOut, breaks, continues>>
  BY DEF VisitSwitch, Runs, Runner
<1>3. value' \in Values /\ mir' \in Seq(Tokens)
  <2>1. "match" \in Tokens
    BY DEF Tokens
  <2> QED
    BY <1>2, <2>1, TokenSeq DEF VisitSwitch, GenInv, Typed
<1>4. a \in Visitors /\ b \in Visitors
  BY GenAssumption DEF Visitors, Expr, Kinds, ExprKinds
<1>5. todo' = On(a, On(b, todo))
  BY <1>1, <1>4, Pushes DEF GenInv, Typed
<1>6. Light(a) /\ Light(b) /\ Held(a) = {} /\ Held(b) = {} /\ a.do = "expr"
  BY DEF Light, Held, Expr
<1>7. Fits(b, todo)
  BY <1>2 DEF Fits
<1>8. Sits(a, b)
  BY DEF Sits, Fits, Expr, AfterValue
<1>9. /\ todo \in Seq(Visitors) /\ Stacked(todo, jumpOut, breaks, continues)
      /\ Numbered(todo, Live, nextLabel)
  BY DEF GenInv, Typed
<1> HIDE DEF a, b, w
<1>10. /\ todo' \in Seq(Visitors) /\ todo' # << >> /\ Runner(todo') = a
       /\ Stacked(todo', jumpOut, breaks, continues) /\ Numbered(todo', Live, nextLabel)
       /\ Known(todo', Live) = Known(todo, Live) /\ Switches(todo') = Switches(todo)
       /\ Waiting(todo', jumpOut, breaks, continues) = w
  BY <1>4, <1>5, <1>6, <1>7, <1>8, <1>9, PushTwoIdle DEF w
<1>11. /\ stmts' \in Contents
       /\ Emitted(stmts', "open", Live, block, Known(todo, Live), w, Switches(todo))
  BY <1>2, Running DEF w
<1>12. Ready(todo', stmts'[block])
  <2>1. Bare(stmts[block])
    BY <1>2, OpenBlock DEF Openers
  <2> QED
    BY <1>2, <1>6, <1>10, <2>1, ReadyOpen DEF Openers
<1> QED
  BY <1>2, <1>3, <1>10, <1>11, <1>12, Stay

LEMMA PushCases ==
  ASSUME NEW t \in Seq(Visitors), NEW v \in Visitors, v.do = "cases", Fits(v, t),
         NEW j, NEW b, NEW c, Stacked(t, j, b, c), NEW live, NEW n, Numbered(t, live, n),
         NEW s, s = On(v, t)
  PROVE  /\ s \in Seq(Visitors) /\ s # << >> /\ Runner(s) = v
         /\ Stacked(s, j, b, c) /\ Numbered(s, live, n)
         /\ Known(s, live) = Known(t, live) /\ Switches(s) = Plus(Switches(t), v.at)
         /\ Waiting(s, j, b, c) = Waiting(t, j, b, c) \cup Held(v)
<1>1. Layer(v, t, s)
  BY Layered
<1>2. Count(t, Ifs) \in Nat /\ Count(t, Loops) \in Nat
  BY CountType
<1>3. /\ Ends(t) = Ends(s) /\ Entries(t) = Entries(s) /\ Switches(s) = Plus(Switches(t), v.at)
      /\ HeldBy(s) = HeldBy(t) \cup Held(v)
  BY <1>1 DEF Layer, Plus
<1>4. Count(t, Ifs) = Count(s, Ifs) /\ Count(t, Loops) = Count(s, Loops)
  BY <1>1, <1>2 DEF Layer, Ifs, Loops
<1>5. Nested(s) /\ s \in Seq(Visitors) /\ s # << >> /\ Runner(s) = v
  BY <1>1 DEF Layer, Stacked
<1> QED
  BY <1>3, <1>4, <1>5 DEF Stacked, Numbered, Known, Waiting

\* A switch that was just added can be remembered as one.
LEMMA EmitSwitch ==
  ASSUME NEW f \in Contents, NEW live, NEW now \in Labels, NEW ok, NEW w, NEW sw,
         NEW s \in Stmts, s.op = "switch", NEW g, g = Add(f, now, s),
         Emitted(g, "open", live, now, ok, w, sw)
  PROVE  Emitted(g, "open", live, now, ok, w, Plus(sw, Spot(f, now)))
<1>1. f[now] \in Seq(Stmts) /\ g[now] = Append(f[now], s)
  BY AddFacts DEF Contents
<1>2. Spot(f, now)[1] = now /\ Spot(f, now)[2] = Len(f[now]) + 1
  BY DEF Spot
<1> DEFINE p == Spot(f, now)
<1> HIDE DEF p
<1>3. p[2] \in DOMAIN g[p[1]] /\ g[p[1]][p[2]].op = "switch"
  BY <1>1, <1>2 DEF p
<1>4. Emitted(g, "open", live, now, ok, w, Plus(sw, p))
  BY <1>3 DEF Emitted, Plus
<1> QED
  BY <1>4 DEF p

\* The visitor of the cases of a switch at place at.
Cases(at, left, dflt, exits) ==
  [do |-> "cases", at |-> at, left |-> left, dflt |-> dflt, exits |-> exits]

LEMMA SwitchOnStep ==
  ASSUME Unbounded, GenInv, SwitchOn
  PROVE  GenInv'
<1> DEFINE h == Runner(todo)
           t == Below(todo)
           at == Spot(stmts, block)
           none == {}
           u == Cases(at, h.left, h.dflt, none)
           s == Switch(value, <<UNSET>>)
           ok == Known(todo, Live)
           w == Waiting(todo, jumpOut, breaks, continues)
           w1 == Waiting(todo', jumpOut, breaks, continues)
           sw == Switches(todo)
<1>1. /\ todo # << >> /\ h.do = "switch" /\ stmts' = Add(stmts, block, s)
      /\ todo' = <<u>> \o t
      /\ UNCHANGED <<order, mir, block, nextLabel, value, jumpOut, breaks, continues>>
  BY DEF SwitchOn, Runs, Then, Runner, Below, Place, Spot, Cases
<1>2. /\ h \in Visitors /\ t \in Seq(Visitors) /\ Fits(h, t)
      /\ Emitted(stmts, "open", Live, block, ok, w, sw) /\ sw \subseteq Places
      /\ stmts \in Contents /\ Live \subseteq Labels /\ block \in Labels
  BY <1>1, Running
<1>3. h.left \in Nat /\ h.dflt \in BOOLEAN /\ at \in Places
  BY <1>1, <1>2, PlaceFree DEF Visitors
<1>4. Bare(stmts[block])
  BY <1>1, OpenBlock DEF Openers
<1>5. s \in Stmts /\ s.op = "switch" /\ s.op \in Terminators
  <2>1. value \in Values /\ UNSET \in Labels
    BY DEF GenInv, Typed, UNSET, Unbounded
  <2> QED
    BY <2>1, StmtTypes DEF Switch, Terminators
<1>6. Light(h) /\ Held(h) = {}
  BY <1>1 DEF Light, Held
<1>7. /\ Stacked(t, jumpOut, breaks, continues) /\ Numbered(t, Live, nextLabel)
      /\ Known(t, Live) = ok /\ Switches(t) = sw
      /\ w \subseteq Waiting(t, jumpOut, breaks, continues)
  BY <1>1, <1>6, PopIdle
<1> HIDE DEF at, s, h, t, none
<1>8. u \in Visitors /\ u.do = "cases" /\ u.at = at
  BY <1>3 DEF Visitors, Cases, none
<1>9. Fits(u, t)
  BY <1>1, <1>2, <1>8 DEF Fits
<1>10. Jump(at, 1) \in Held(u)
  BY <1>8 DEF Held, Jump
<1> HIDE DEF u
<1>11. todo' = On(u, t)
  BY <1>1, <1>2, <1>8, Pushes
<1>12. /\ todo' \in Seq(Visitors) /\ todo' # << >> /\ Runner(todo') = u
       /\ Stacked(todo', jumpOut, breaks, continues) /\ Numbered(todo', Live, nextLabel)
       /\ Known(todo', Live) = ok /\ Switches(todo') = Plus(sw, at)
       /\ w1 = Waiting(t, jumpOut, breaks, continues) \cup Held(u)
  BY <1>2, <1>7, <1>8, <1>9, <1>11, PushCases
<1>13. w \subseteq w1 /\ Jump(at, 1) \in w1
  BY <1>7, <1>10, <1>12
<1> HIDE DEF ok, w, w1, sw
<1>14. Emitted(stmts, "open", Live, block, ok, w1, sw)
  BY <1>2, <1>13, EmitWeaker
<1>15. Leads(s, stmts, block, ok, w1)
  BY <1>13 DEF Leads, s, Switch, Jump, at
<1>16. /\ stmts' \in Contents /\ Emitted(stmts', "open", Live, block, ok, w1, sw)
       /\ Closed(stmts'[block])
  BY <1>1, <1>2, <1>4, <1>5, <1>14, <1>15, EmitAdd
<1>17. Emitted(stmts', "open", Live, block, ok, w1, Plus(sw, at))
  BY <1>1, <1>2, <1>5, <1>16, EmitSwitch DEF at
<1>18. Ready(todo', stmts'[block])
  BY <1>8, <1>12, <1>16 DEF Ready, AfterBlock
<1>19. value' \in Values /\ mir' \in Seq(Tokens)
  BY <1>1 DEF GenInv, Typed
<1>20. /\ Emitted(stmts', "open", Live, block, Known(todo, Live), w1, Plus(sw, at))
       /\ w1 \subseteq Waiting(todo', jumpOut, breaks, continues)
       /\ Switches(todo') \subseteq Plus(sw, at)
       /\ Known(todo, Live) \subseteq Known(todo', Live)
  BY <1>12, <1>17 DEF ok, w1
<1> QED
  BY <1>1, <1>12, <1>16, <1>18, <1>19, <1>20, Stay

\* One more case of the switch at place p, which leads to l.
AddCase(f, p, l) == [f EXCEPT ![p[1]][p[2]].to = Append(@, l)]
Extended(s, l) == [s EXCEPT !.to = Append(@, l)]

LEMMA ExtendedSwitch ==
  ASSUME NEW s \in Stmts, s.op = "switch", NEW l \in Labels
  PROVE  /\ Extended(s, l) \in Stmts /\ Extended(s, l).op = "switch"
         /\ Extended(s, l).to = Append(s.to, l) /\ s.to \in Seq(Labels)
<1>1. s.to \in Seq(Labels) /\ s.val \in Values /\ s.op \in Ops
  BY DEF Stmts
<1> DEFINE u == Append(s.to, l)
<1>2. u \in Seq(Labels)
  BY <1>1
<1>3. Extended(s, l) = [op |-> s.op, val |-> s.val, to |-> u]
  BY DEF Extended, Stmts
<1> HIDE DEF u
<1> QED
  BY <1>1, <1>2, <1>3 DEF Stmts, u

LEMMA CaseAdded ==
  ASSUME NEW f \in Contents, NEW p \in Places, NEW l \in Labels,
         p[2] \in DOMAIN f[p[1]], f[p[1]][p[2]].op = "switch",
         NEW g, g = AddCase(f, p, l)
  PROVE  /\ g \in Contents /\ Alike(f, g)
         /\ \A b \in Labels : \A i \in DOMAIN f[b] :
              g[b][i] = IF b = p[1] /\ i = p[2] THEN Extended(f[b][i], l) ELSE f[b][i]
<1> DEFINE a == p[1]
           k == p[2]
           c == f[a]
           x == Extended(c[k], l)
           d == [c EXCEPT ![k] = x]
<1>1. a \in Labels /\ c \in Seq(Stmts) /\ k \in DOMAIN c
  BY DEF Places, Contents
<1>2. c[k] \in Stmts /\ c[k].op = "switch"
  BY <1>1
<1>3. x \in Stmts /\ x.op = "switch"
  BY <1>2, ExtendedSwitch
<1>4. g = [f EXCEPT ![a] = d]
  BY DEF AddCase, Extended
<1> HIDE DEF a, k, x, c
<1>5. /\ d \in Seq(Stmts) /\ Len(d) = Len(c) /\ DOMAIN d = DOMAIN c
      /\ \A i \in DOMAIN d : d[i] = IF i = k THEN x ELSE c[i]
  BY <1>1, <1>3, SeqExcept
<1> HIDE DEF d
<1>6. g \in Contents /\ \A b \in Labels : g[b] = IF b = a THEN d ELSE f[b]
  BY <1>1, <1>4, <1>5 DEF Contents
<1>7. \A b \in Labels : \A i \in DOMAIN f[b] :
        g[b][i] = IF b = a /\ i = k THEN Extended(f[b][i], l) ELSE f[b][i]
  <2> SUFFICES ASSUME NEW b \in Labels, NEW i \in DOMAIN f[b]
               PROVE  g[b][i] = IF b = a /\ i = k THEN Extended(f[b][i], l) ELSE f[b][i]
    OBVIOUS
  <2>1. CASE b = a
    <3>1. g[b] = d /\ f[b] = c
      BY <1>6, <2>1 DEF c, a
    <3>2. d[i] = IF i = k THEN x ELSE c[i]
      BY <1>5, <3>1
    <3> QED
      BY <2>1, <3>1, <3>2 DEF x
  <2>2. CASE b # a
    BY <1>6, <2>2
  <2> QED
    BY <2>1, <2>2
<1>8. Alike(f, g)
  <2> SUFFICES ASSUME NEW b \in Labels
               PROVE  /\ Len(g[b]) = Len(f[b]) /\ DOMAIN g[b] = DOMAIN f[b]
                      /\ \A i \in DOMAIN f[b] : g[b][i].op = f[b][i].op
    BY DEF Alike
  <2>1. CASE b = a
    <3>1. g[b] = d /\ f[b] = c
      BY <1>6, <2>1 DEF c, a
    <3> QED
      BY <1>2, <1>3, <1>5, <3>1
  <2>2. CASE b # a
    BY <1>6, <2>2
  <2> QED
    BY <2>1, <2>2
<1> QED
  BY <1>6, <1>7, <1>8 DEF a, k

LEMMA EmitCase ==
  ASSUME NEW f \in Contents, NEW live, live \subseteq Labels, {ALLOCA, MOVEREG} \subseteq live,
         NEW now, NEW ok, NEW w, NEW sw, sw \subseteq Places,
         Emitted(f, "open", live, now, ok, w, sw),
         NEW p \in sw, NEW l \in Labels, l \in ok, NEW g, g = AddCase(f, p, l)
  PROVE  /\ g \in Contents /\ Emitted(g, "open", live, now, ok, w, sw)
         /\ Bare(f[now]) <=> Bare(g[now])
<1>1. p \in Places /\ p[2] \in DOMAIN f[p[1]] /\ f[p[1]][p[2]].op = "switch"
  BY DEF Emitted
<1>2. /\ g \in Contents /\ Alike(f, g) /\ Keeps(f, g)
      /\ \A b \in Labels : \A i \in DOMAIN f[b] :
           g[b][i] = IF b = p[1] /\ i = p[2] THEN Extended(f[b][i], l) ELSE f[b][i]
  BY <1>1, CaseAdded, AlikeKeeps
<1>3. Aimed(g, ok, w)
  <2> SUFFICES ASSUME NEW b \in Labels, NEW i \in DOMAIN g[b], NEW m \in DOMAIN g[b][i].to
               PROVE  \/ g[b][i].to[m] \in ok
                      \/ g[b][i].to[m] = UNSET /\ <<<<b, i>>, m>> \in w
    BY DEF Aimed
  <2>1. i \in DOMAIN f[b] /\ f[b][i] \in Stmts
    BY <1>2 DEF Alike, Contents
  <2>2. Aimed(f, ok, w)
    BY DEF Emitted
  <2>3. CASE b = p[1] /\ i = p[2]
    <3> DEFINE s == f[b][i]
    <3>1. g[b][i].to = Append(s.to, l) /\ s.to \in Seq(Labels)
      <4>1. s \in Stmts /\ s.op = "switch" /\ g[b][i] = Extended(s, l)
        BY <1>1, <1>2, <2>1, <2>3
      <4> HIDE DEF s
      <4> QED
        BY <4>1, ExtendedSwitch
    <3>2. \A q \in DOMAIN s.to : s.to[q] \in ok \/ (s.to[q] = UNSET /\ <<<<b, i>>, q>> \in w)
      BY <2>1, <2>2 DEF Aimed
    <3> HIDE DEF s
    <3>3. CASE m \in DOMAIN s.to
      <4>1. g[b][i].to[m] = s.to[m]
        BY <3>1, <3>3
      <4> QED
        BY <3>2, <3>3, <4>1
    <3>4. CASE m \notin DOMAIN s.to
      BY <3>1, <3>4
    <3> QED
      BY <3>3, <3>4
  <2>4. CASE ~(b = p[1] /\ i = p[2])
    <3>1. g[b][i] = f[b][i]
      BY <1>2, <2>1, <2>4
    <3> QED
      BY <2>1, <2>2, <3>1 DEF Aimed
  <2> QED
    BY <2>3, <2>4
<1>4. \A b \in Labels : /\ Bare(f[b]) <=> Bare(g[b])
                        /\ Closed(f[b]) <=> Closed(g[b])
                        /\ f[b] = << >> => g[b] = << >>
  BY <1>2, AlikeContent
<1>5. \A q \in sw : q[2] \in DOMAIN g[q[1]] /\ g[q[1]][q[2]].op = "switch"
  BY <1>2 DEF Emitted, Keeps, Places
<1>6. now \in Labels
  BY DEF Emitted
<1>7. Emitted(g, "open", live, now, ok, w, sw)
  BY <1>3, <1>4, <1>5 DEF Emitted
<1> QED
  BY <1>2, <1>4, <1>6, <1>7

LEMMA VisitCaseStep ==
  ASSUME Unbounded, GenInv, VisitCase
  PROVE  GenInv'
<1> DEFINE h == Runner(todo)
           t == Below(todo)
           n == nextLabel
           v == [h EXCEPT !.left = @ - 1]
           u == [do |-> "leavecase"]
           r == On(v, t)
           ok == Known(todo, Live)
           w == Waiting(todo, jumpOut, breaks, continues)
           w1 == Waiting(todo', jumpOut, breaks, continues)
           sw == Switches(todo)
           more == Plus(Live, n)
           ok1 == Known(todo', more)
<1>1. /\ todo # << >> /\ h.do = "cases" /\ h.left > 0
      /\ stmts' = AddCase(stmts, h.at, n)
      /\ todo' = OnThree(Body, u, v, t)
      /\ NewBlock(n) /\ Visited(<<"case">>)
      /\ UNCHANGED <<value, jumpOut, breaks, continues>>
  BY DEF VisitCase, Runs, Then, Runner, Below, OnThree, AddCase
<1>2. /\ h \in Visitors /\ t \in Seq(Visitors) /\ Fits(h, t) /\ Layer(h, t, todo)
      /\ Emitted(stmts, "open", Live, block, ok, w, sw) /\ sw \subseteq Places
      /\ stmts \in Contents /\ Live \subseteq Labels /\ {ALLOCA, MOVEREG, ENTRY} \subseteq Live
      /\ block \in Labels
  BY <1>1, Running
<1>3. /\ h = Cases(h.at, h.left, h.dflt, h.exits) /\ h.at \in Places /\ h.left \in Nat
      /\ h.dflt \in BOOLEAN /\ h.exits \in SUBSET Places
  BY <1>1, <1>2 DEF Visitors, Cases
<1>4. Closed(stmts[block])
  <2>1. Ready(todo, stmts[block])
    BY DEF GenInv
  <2> QED
    BY <1>1, <2>1 DEF Ready, AfterBlock
<1>5. h.at \in sw
  BY <1>1, <1>2 DEF Layer
<1>6. v = Cases(h.at, h.left - 1, h.dflt, h.exits)
  BY <1>3 DEF Cases
<1> HIDE DEF v
<1>7. v \in Visitors /\ v.do = "cases" /\ v.at = h.at /\ v.exits = h.exits
  BY <1>1, <1>3, <1>6 DEF Visitors, Cases
<1>8. Fits(v, t)
  BY <1>1, <1>2, <1>7 DEF Fits
<1>9. Alter(h, v) /\ Held(h) \subseteq Held(v)
  BY <1>1, <1>7 DEF Alter, Held, Ifs, Loops
<1>10. /\ u \in Visitors /\ Body \in Visitors /\ Body.do = "block" /\ ~Body.top
       /\ Light(u) /\ Light(Body) /\ Held(u) = {} /\ Held(Body) = {} /\ u.do = "leavecase"
  BY DEF Visitors, Body, Light, Held
<1> HIDE DEF u, r, h, t
<1>11. Sits(Body, u)
  BY <1>10 DEF Sits, Fits, AfterBlock
<1>12. /\ todo \in Seq(Visitors) /\ Stacked(todo, jumpOut, breaks, continues)
       /\ Numbered(todo, Live, n) /\ n \in Nat
  BY DEF GenInv, Typed
<1>13. /\ r \in Seq(Visitors) /\ r # << >> /\ Runner(r) = v
       /\ Stacked(r, jumpOut, breaks, continues) /\ Numbered(r, Live, n)
       /\ Known(r, Live) = ok /\ Switches(r) = sw
       /\ w \subseteq Waiting(r, jumpOut, breaks, continues)
  BY <1>1, <1>7, <1>8, <1>9, <1>12, Swap DEF r, h, t
<1>14. Fits(u, r)
  BY <1>7, <1>10, <1>13 DEF Fits
<1>15. todo' = On(Body, On(u, r))
  BY <1>1, <1>2, <1>7, <1>10, PushesThree DEF r
<1>16. /\ todo' \in Seq(Visitors) /\ todo' # << >> /\ Runner(todo') = Body
       /\ Stacked(todo', jumpOut, breaks, continues) /\ Numbered(todo', Live, n)
       /\ Known(todo', Live) = Known(r, Live) /\ Switches(todo') = Switches(r)
       /\ w1 = Waiting(r, jumpOut, breaks, continues)
  BY <1>10, <1>11, <1>13, <1>14, <1>15, PushTwoIdle
<1>17. /\ order' \in Seq(Labels) /\ order' # << >> /\ order'[1] = ALLOCA
       /\ Live' = more /\ block' = n /\ nextLabel' = n + 1 /\ n + 1 \in Nat
       /\ n \in Labels \ Live
  BY <1>1, <1>12, NewBlockFacts
<1>18. Numbered(todo', more, n + 1) /\ n \in ok1 /\ ok \subseteq ok1
  <2>1. Known(todo', Live) = ok
    BY <1>13, <1>16
  <2>2. n \in Labels /\ Live \subseteq Labels
    BY <1>2, <1>17
  <2> HIDE DEF ok
  <2> QED
    BY <1>16, <2>1, <2>2, NumberedNew
<1>19. {ALLOCA, MOVEREG} \subseteq Live /\ n \in Labels
  BY <1>2, <1>17
<1> HIDE DEF ok, w, w1, sw, ok1
<1>20. Emitted(stmts, "open", Live, block, ok1, w1, sw)
  <2>1. w \subseteq w1
    BY <1>13, <1>16
  <2> QED
    BY <1>2, <1>18, <2>1, EmitWeaker
<1>21. /\ Emitted(stmts, "open", more, n, ok1, w1, sw) /\ Bare(stmts[n]) /\ more \subseteq Labels
       /\ {ALLOCA, MOVEREG} \subseteq more
  <2>1. {ALLOCA, MOVEREG} \subseteq more
    BY <1>19 DEF Plus
  <2> QED
    BY <1>2, <1>4, <1>17, <1>19, <1>20, <2>1, EmitNew
<1> HIDE DEF more
<1>22. /\ stmts' \in Contents /\ Emitted(stmts', "open", more, n, ok1, w1, sw)
       /\ Bare(stmts'[n])
  BY <1>1, <1>2, <1>5, <1>18, <1>19, <1>21, EmitCase
<1>23. Ready(todo', stmts'[n])
  BY <1>10, <1>16, <1>22, ReadyOpen DEF Openers
<1>24. /\ jumpOut' \in Tables /\ breaks' \in Tables /\ continues' \in Tables
       /\ value' \in Values
  BY <1>1, PlaceFree DEF GenInv, Typed
<1>25. mir' \in Seq(Tokens)
  <2>1. "case" \in Tokens
    BY DEF Tokens, Marks
  <2> QED
    BY <1>1, <2>1, TokenSeq
<1>26. /\ Emitted(stmts', "open", more, n, Known(todo', more), w1, sw)
       /\ w1 \subseteq Waiting(todo', jumpOut', breaks', continues')
       /\ Switches(todo') \subseteq sw
       /\ Stacked(todo', jumpOut', breaks', continues')
  BY <1>1, <1>13, <1>16, <1>22 DEF ok1, w1
<1> HIDE DEF n
<1> QED
  BY <1>16, <1>17, <1>18, <1>22, <1>23, <1>24, <1>25, <1>26, Resumes

LEMMA LeaveCaseStep ==
  ASSUME Unbounded, GenInv, LeaveCase
  PROVE  GenInv'
<1> DEFINE h == Runner(todo)
           t == Below(todo)
           w == Waiting(todo, jumpOut, breaks, continues)
           sw == Switches(todo)
           ok == Known(todo, Live)
<1>1. /\ todo # << >> /\ h.do = "leavecase"
      /\ UNCHANGED <<order, mir, block, nextLabel, value, jumpOut, breaks, continues>>
  BY DEF LeaveCase, Runs, Runner
<1>2. /\ todo \in Seq(Visitors) /\ h \in Visitors /\ t \in Seq(Visitors) /\ Fits(h, t)
      /\ Emitted(stmts, "open", Live, block, ok, w, sw) /\ sw \subseteq Places
      /\ stmts \in Contents /\ stmts[block] \in Seq(Stmts) /\ Live \subseteq Labels
      /\ block \in Labels
  BY <1>1, Running DEF GenInv, Typed
<1>3. Light(h) /\ Held(h) = {}
  BY <1>1 DEF Light, Held
<1>4. /\ Stacked(t, jumpOut, breaks, continues) /\ Numbered(t, Live, nextLabel)
      /\ Known(t, Live) = ok /\ Switches(t) = sw
      /\ w \subseteq Waiting(t, jumpOut, breaks, continues)
  BY <1>1, <1>3, PopIdle
<1>5. t # << >> /\ Runner(t).do \in {"cases", "endswitch"}
  BY <1>1, <1>2 DEF Fits
<1>6. Bare(stmts[block]) \/ Returns(stmts[block])
  <2>1. Ready(todo, stmts[block])
    BY DEF GenInv
  <2> QED
    BY <1>1, <2>1 DEF Ready, AfterBlock
<1>7. BackIsRet(block) <=> Returns(stmts[block])
  BY <1>2, <1>6 DEF BackIsRet, Back, Returns, Closed, Bare, Terminators
<1>8. value' \in Values /\ mir' \in Seq(Tokens)
  BY <1>1 DEF GenInv, Typed
<1>9. CASE BackIsRet(block)
  <2>1. stmts' = stmts /\ todo' = << >> \o t
    BY <1>9 DEF LeaveCase, Then, Below
  <2>2. todo' = t
    BY <1>2, <2>1
  <2> HIDE DEF h, t, w, sw, ok
  <2>3. Ready(t, stmts[block])
    BY <1>5, <1>7, <1>9 DEF Ready, Returns, AfterBlock
  <2>4. /\ Emitted(stmts', "open", Live, block, Known(todo, Live), w, sw)
        /\ w \subseteq Waiting(todo', jumpOut, breaks, continues)
        /\ Switches(todo') \subseteq sw
        /\ Known(todo, Live) \subseteq Known(todo', Live)
        /\ stmts' \in Contents /\ Ready(todo', stmts'[block])
    BY <1>2, <1>4, <2>1, <2>2, <2>3 DEF ok
  <2>5. /\ todo' \in Seq(Visitors) /\ todo' # << >>
        /\ Stacked(todo', jumpOut, breaks, continues) /\ Numbered(todo', Live, nextLabel)
    BY <1>2, <1>4, <1>5, <2>2
  <2> QED
    BY <1>1, <1>8, <2>4, <2>5, Stay
<1>10. CASE ~BackIsRet(block)
  <2> DEFINE at == Place(block)
             x == Runner(t)
             q == Below(t)
             v == [x EXCEPT !.exits = @ \cup {at}]
             r == On(v, q)
             s == Br(UNSET)
             w1 == Waiting(r, jumpOut, breaks, continues)
  <2>1. stmts' = Add(stmts, block, s)
    BY <1>10 DEF LeaveCase
  <2>2. Len(todo) > 1 /\ todo[2] = x /\ Tail(Tail(todo)) = q
    BY <1>1, <1>2, <1>5 DEF Runner, Below
  <2>3. todo' = r
    BY <1>10, <2>2 DEF LeaveCase, On
  <2>4. /\ at = Spot(stmts, block) /\ at \in Places
    BY <1>1, PlaceFree
  <2>5. x \in Visitors /\ q \in Seq(Visitors) /\ Fits(x, q)
    BY <1>2, <1>4, <1>5, TopLayer, EmptyIff DEF Stacked
  <2> HIDE DEF at, q
  <2>6. /\ v \in Visitors /\ v.do = x.do /\ v.exits = x.exits \cup {at}
        /\ x.do = "cases" => v.at = x.at
    <3>1. CASE x.do = "cases"
      <4>1. /\ x = Cases(x.at, x.left, x.dflt, x.exits) /\ x.at \in Places /\ x.left \in Nat
            /\ x.dflt \in BOOLEAN /\ x.exits \in SUBSET Places
        BY <2>5, <3>1 DEF Visitors, Cases
      <4> DEFINE e == x.exits \cup {at}
      <4>2. e \in SUBSET Places
        BY <2>4, <4>1
      <4>3. v = [x EXCEPT !.exits = e]
        OBVIOUS
      <4> HIDE DEF e, v, x
      <4>4. v = Cases(x.at, x.left, x.dflt, e)
        BY <4>1, <4>3 DEF Cases
      <4>5. v \in Visitors /\ v.do = "cases" /\ v.exits = e /\ v.at = x.at
        BY <4>1, <4>2, <4>4 DEF Visitors, Cases
      <4> QED
        BY <3>1, <4>5 DEF e
    <3>2. CASE x.do = "endswitch"
      <4>1. x = [do |-> "endswitch", exits |-> x.exits] /\ x.exits \in SUBSET Places
        BY <2>5, <3>2 DEF Visitors
      <4> DEFINE e == x.exits \cup {at}
      <4>2. e \in SUBSET Places
        BY <2>4, <4>1
      <4>3. v = [x EXCEPT !.exits = e]
        OBVIOUS
      <4> HIDE DEF e, v, x
      <4>4. v = [do |-> "endswitch", exits |-> e]
        BY <4>1, <4>3
      <4>5. v \in Visitors /\ v.do = "endswitch" /\ v.exits = e
        BY <4>2, <4>4 DEF Visitors
      <4> QED
        BY <3>2, <4>5 DEF e
    <3> QED
      BY <1>5, <3>1, <3>2
  <2> HIDE DEF v, x
  <2>7. x.do \in {"cases", "endswitch"}
    BY <1>5 DEF x
  <2>8. Fits(v, q)
    <3>1. CASE x.do = "cases"
      BY <2>5, <2>6, <3>1 DEF Fits
    <3>2. CASE x.do = "endswitch"
      BY <2>5, <2>6, <3>2 DEF Fits
    <3> QED
      BY <2>7, <3>1, <3>2
  <2>9. Alter(x, v)
    BY <2>6, <2>7 DEF Alter, Ifs, Loops
  <2>10. Held(x) \subseteq Held(v) /\ Jump(at, 1) \in Held(v)
    <3>1. CASE x.do = "cases"
      BY <2>6, <3>1 DEF Held, Jump
    <3>2. CASE x.do = "endswitch"
      BY <2>6, <3>2 DEF Held, Jump
    <3> QED
      BY <2>7, <3>1, <3>2
  <2> HIDE DEF h, t, r, w, sw, ok
  <2>11. /\ r \in Seq(Visitors) /\ r # << >> /\ Runner(r) = v
         /\ Stacked(r, jumpOut, breaks, continues) /\ Numbered(r, Live, nextLabel)
         /\ Known(r, Live) = ok /\ Switches(r) = sw /\ w \subseteq w1
    BY <1>2, <1>4, <1>5, <2>6, <2>8, <2>9, <2>10, Swap DEF r, q, x
  <2>12. Jump(at, 1) \in w1
    <3>1. r \in Seq(Visitors) /\ r # << >>
      BY <2>11
    <3>2. HeldBy(r) = HeldBy(Below(r)) \cup Held(v)
      BY <2>11, <3>1, TopLayer DEF Layer
    <3> QED
      BY <2>10, <3>2 DEF Waiting
  <2> HIDE DEF w1
  <2>13. /\ stmts' \in Contents /\ Emitted(stmts', "open", Live, block, ok, w1, sw)
         /\ Closed(stmts'[block])
    <3>1. s \in Stmts /\ s.op \in Terminators
      <4>1. UNSET \in Labels
        BY DEF Unbounded, UNSET
      <4> QED
        BY <4>1, StmtTypes DEF Br, Terminators, Mem, Values
    <3>2. Leads(s, stmts, block, ok, w1)
      BY <2>4, <2>12, LeadsBr
    <3>3. Emitted(stmts, "open", Live, block, ok, w1, sw)
      BY <1>2, <2>11, EmitWeaker
    <3>4. Bare(stmts[block])
      BY <1>6, <1>7, <1>10
    <3> HIDE DEF s
    <3> QED
      BY <1>2, <2>1, <3>1, <3>2, <3>3, <3>4, EmitAdd
  <2>14. Ready(r, stmts'[block])
    BY <2>6, <2>7, <2>11, <2>13 DEF Ready, AfterBlock
  <2>15. /\ Emitted(stmts', "open", Live, block, Known(todo, Live), w1, sw)
         /\ w1 \subseteq Waiting(todo', jumpOut, breaks, continues)
         /\ Switches(todo') \subseteq sw
         /\ Known(todo, Live) \subseteq Known(todo', Live)
         /\ Ready(todo', stmts'[block])
         /\ todo' \in Seq(Visitors) /\ todo' # << >>
         /\ Stacked(todo', jumpOut, breaks, continues) /\ Numbered(todo', Live, nextLabel)
    BY <2>3, <2>11, <2>13, <2>14 DEF ok, w1
  <2> QED
    BY <1>1, <1>8, <2>13, <2>15, Stay
<1> QED
  BY <1>9, <1>10

LEMMA PopCases ==
  ASSUME NEW s \in Seq(Visitors), s # << >>, Runner(s).do = "cases",
         NEW j, NEW b, NEW c, Stacked(s, j, b, c), NEW live, NEW n, Numbered(s, live, n),
         NEW t, t = Below(s)
  PROVE  /\ t \in Seq(Visitors) /\ Stacked(t, j, b, c) /\ Numbered(t, live, n)
         /\ Known(t, live) = Known(s, live) /\ Switches(t) \subseteq Switches(s)
         /\ Waiting(s, j, b, c) = Waiting(t, j, b, c) \cup Held(Runner(s))
<1>1. Layer(Runner(s), t, s) /\ t \in Seq(Visitors)
  BY TopLayer
<1>2. Count(t, Ifs) \in Nat /\ Count(t, Loops) \in Nat
  BY <1>1, CountType
<1>3. /\ Ends(t) = Ends(s) /\ Entries(t) = Entries(s) /\ Switches(t) \subseteq Switches(s)
      /\ HeldBy(s) = HeldBy(t) \cup Held(Runner(s)) /\ Nested(t)
  BY <1>1 DEF Layer, Stacked
<1>4. Count(t, Ifs) = Count(s, Ifs) /\ Count(t, Loops) = Count(s, Loops)
  BY <1>1, <1>2 DEF Layer, Ifs, Loops
<1> QED
  BY <1>1, <1>3, <1>4 DEF Stacked, Numbered, Known, Waiting

\* What waits in a stack t, and the exits of cases.
AndExits(t, exits) == Waiting(t, jumpOut, breaks, continues) \cup (exits \X {1})

LEMMA VisitDefaultStep ==
  ASSUME Unbounded, GenInv, VisitDefault
  PROVE  GenInv'
<1> DEFINE h == Runner(todo)
           t == Below(todo)
           n == nextLabel
           P == {h.at}
           Q == h.exits
           ok == Known(todo, Live)
           w == Waiting(todo, jumpOut, breaks, continues)
           w1 == AndExits(t, Q)
           w2 == Waiting(t, jumpOut, breaks, continues)
           sw == Switches(todo)
           more == Plus(Live, n)
           ok1 == Known(t, more)
           f == Patch(stmts, P, 1, n)
<1>1. /\ todo # << >> /\ h.do = "cases" /\ NewBlock(n)
      /\ UNCHANGED <<value, jumpOut, breaks, continues>>
  BY DEF VisitDefault, Runs, Runner
<1>2. /\ todo \in Seq(Visitors) /\ h \in Visitors /\ t \in Seq(Visitors) /\ Fits(h, t)
      /\ Emitted(stmts, "open", Live, block, ok, w, sw) /\ sw \subseteq Places
      /\ stmts \in Contents /\ Live \subseteq Labels /\ {ALLOCA, MOVEREG, ENTRY} \subseteq Live
      /\ n \in Nat
  BY <1>1, Running DEF GenInv, Typed
<1>3. t # << >> /\ Runner(t).do = "block"
  BY <1>1, <1>2 DEF Fits
<1>4. Closed(stmts[block])
  <2>1. Ready(todo, stmts[block])
    BY DEF GenInv
  <2> QED
    BY <1>1, <2>1 DEF Ready, AfterBlock
<1>5. /\ Stacked(t, jumpOut, breaks, continues) /\ Numbered(t, Live, n)
      /\ Known(t, Live) = ok /\ Switches(t) \subseteq sw
      /\ w = w2 \cup Held(h)
  BY <1>1, <1>2, PopCases DEF GenInv
<1>6. w \subseteq w1 \cup (P \X {1})
  BY <1>1, <1>5 DEF Held, AndExits
<1>7. /\ order' \in Seq(Labels) /\ order' # << >> /\ order'[1] = ALLOCA
      /\ Live' = more /\ block' = n /\ nextLabel' = n + 1 /\ n + 1 \in Nat
      /\ n \in Labels \ Live
  BY <1>1, <1>2, NewBlockFacts
<1>8. Numbered(t, more, n + 1) /\ n \in ok1 /\ ok \subseteq ok1
  BY <1>2, <1>5, <1>7, NumberedNew
<1>9. {ALLOCA, MOVEREG} \subseteq Live
  BY <1>2
<1>10. /\ jumpOut' \in Tables /\ breaks' \in Tables /\ continues' \in Tables
       /\ value' \in Values
  BY <1>1, PlaceFree DEF GenInv, Typed
<1>11. Q \in SUBSET Places
  BY <1>1, <1>2 DEF Visitors
<1>12. IF h.dflt
       THEN /\ stmts' = f /\ Visited(<<"default">>)
            /\ todo' = OnThree(Body, [do |-> "leavecase"], [do |-> "endswitch", exits |-> Q], t)
       ELSE /\ stmts' = Patch(f, Q, 1, n) /\ Visited(<<"hctam">>) /\ todo' = << >> \o t
  BY DEF VisitDefault, Then, Runner, Below, OnThree
<1>13. "default" \in Tokens /\ "hctam" \in Tokens
  BY DEF Tokens, Marks
<1> HIDE DEF ok, w, w1, w2, sw, P, Q, ok1, t, h
<1>14. Joins(Live, n, sw, ok, ok1, w, w1, P, 1)
  BY <1>2, <1>6, <1>7, <1>8, <1>9 DEF Joins
<1>15. /\ f \in Contents /\ Emitted(f, "open", more, n, ok1, w1, sw) /\ Bare(f[n])
       /\ more \subseteq Labels /\ {ALLOCA, MOVEREG} \subseteq more
  BY <1>2, <1>4, <1>14, EmitJoin
<1> HIDE DEF f, more
<1>16. CASE h.dflt
  <2> DEFINE u == [do |-> "leavecase"]
             z == [do |-> "endswitch", exits |-> Q]
             r == On(z, t)
  <2>1. stmts' = f /\ todo' = OnThree(Body, u, z, t) /\ mir' \in Seq(Tokens)
    BY <1>12, <1>13, <1>16, TokenSeq
  <2>2. /\ z \in Visitors /\ z.do = "endswitch" /\ z.exits = Q /\ Light(z)
        /\ u \in Visitors /\ Body \in Visitors /\ Body.do = "block" /\ ~Body.top
        /\ Light(u) /\ Light(Body) /\ Held(u) = {} /\ Held(Body) = {} /\ u.do = "leavecase"
    BY <1>11 DEF Visitors, Body, Light, Held
  <2>3. Held(z) = Q \X {1}
    BY DEF Held
  <2> HIDE DEF u, z, r
  <2>4. Fits(z, t)
    BY <1>3, <2>2 DEF Fits
  <2>5. /\ r \in Seq(Visitors) /\ r # << >> /\ Runner(r) = z
        /\ Stacked(r, jumpOut, breaks, continues) /\ Numbered(r, more, n + 1)
        /\ Known(r, more) = ok1 /\ Switches(r) = Switches(t)
        /\ Waiting(r, jumpOut, breaks, continues) = w2 \cup Held(z)
    BY <1>2, <1>5, <1>8, <2>2, <2>4, PushLight DEF r, ok1, w2
  <2>6. Fits(u, r) /\ Sits(Body, u)
    BY <2>2, <2>5 DEF Sits, Fits, AfterBlock
  <2>7. todo' = On(Body, On(u, r))
    BY <1>2, <2>1, <2>2, PushesThree DEF r
  <2>8. /\ todo' \in Seq(Visitors) /\ todo' # << >> /\ Runner(todo') = Body
        /\ Stacked(todo', jumpOut, breaks, continues) /\ Numbered(todo', more, n + 1)
        /\ Known(todo', more) = Known(r, more) /\ Switches(todo') = Switches(r)
        /\ Waiting(todo', jumpOut, breaks, continues) = Waiting(r, jumpOut, breaks, continues)
    BY <2>2, <2>5, <2>6, <2>7, PushTwoIdle
  <2>9. Ready(todo', stmts'[n])
    BY <1>15, <2>1, <2>2, <2>8, ReadyOpen DEF Openers
  <2>10. w1 \subseteq Waiting(todo', jumpOut, breaks, continues)
    BY <2>3, <2>5, <2>8 DEF w1, w2, AndExits
  <2>11. Emitted(stmts', "open", more, n, Known(todo', more), w1, sw)
    BY <1>15, <2>1, <2>5, <2>8
  <2>12. /\ w1 \subseteq Waiting(todo', jumpOut', breaks', continues')
         /\ Switches(todo') \subseteq sw
         /\ Stacked(todo', jumpOut', breaks', continues') /\ stmts' \in Contents
    BY <1>1, <1>5, <1>15, <2>1, <2>5, <2>8, <2>10
  <2> HIDE DEF n
  <2> QED
    BY <1>7, <1>10, <2>1, <2>8, <2>9, <2>11, <2>12, Resumes
<1>17. CASE ~h.dflt
  <2>1. stmts' = Patch(f, Q, 1, n) /\ todo' = t /\ mir' \in Seq(Tokens)
    <3>1. stmts' = Patch(f, Q, 1, n) /\ todo' = t /\ Visited(<<"hctam">>)
      BY <1>2, <1>12, <1>17
    <3>2. mir' \in Seq(Tokens)
      <4>1. Visited(<<"hctam">>)
        BY <3>1
      <4> QED
        BY <1>13, <4>1, TokenSeq
    <3> QED
      BY <3>1, <3>2
  <2>2. PatchFits(more, sw, ok1, ok1, w1, w2, Q, 1, n)
    BY <1>2, <1>7, <1>8, <1>15 DEF PatchFits, w1, w2, AndExits
  <2>3. /\ stmts' \in Contents /\ Emitted(stmts', "open", more, n, ok1, w2, sw)
        /\ Bare(stmts'[n])
    BY <1>15, <2>1, <2>2, EmitPatched
  <2>4. Ready(t, stmts'[n])
    BY <1>3, <2>3, ReadyOpen DEF Openers
  <2>5. /\ Emitted(stmts', "open", more, n, Known(t, more), w2, sw)
        /\ w2 \subseteq Waiting(t, jumpOut', breaks', continues')
        /\ Switches(t) \subseteq sw
        /\ Stacked(t, jumpOut', breaks', continues')
    BY <1>1, <1>5, <2>3 DEF ok1, w2
  <2> HIDE DEF n
  <2> QED
    BY <1>2, <1>3, <1>7, <1>8, <1>10, <2>1, <2>3, <2>4, <2>5, Resumes
<1> QED
  BY <1>16, <1>17

LEMMA EndSwitchStep ==
  ASSUME Unbounded, GenInv, EndSwitch
  PROVE  GenInv'
<1> DEFINE h == Runner(todo)
           t == Below(todo)
           n == nextLabel
           P == h.exits
           ok == Known(todo, Live)
           w == Waiting(todo, jumpOut, breaks, continues)
           w1 == Waiting(t, jumpOut, breaks, continues)
           sw == Switches(todo)
           more == Plus(Live, n)
           ok1 == Known(t, more)
<1>1. /\ todo # << >> /\ h.do = "endswitch" /\ NewBlock(n) /\ Visited(<<"hctam">>)
      /\ stmts' = Patch(stmts, P, 1, n) /\ todo' = << >> \o t
      /\ UNCHANGED <<value, jumpOut, breaks, continues>>
  BY DEF EndSwitch, Runs, Then, Runner, Below
<1>2. /\ todo \in Seq(Visitors) /\ h \in Visitors /\ t \in Seq(Visitors) /\ Fits(h, t)
      /\ Emitted(stmts, "open", Live, block, ok, w, sw) /\ sw \subseteq Places
      /\ stmts \in Contents /\ Live \subseteq Labels /\ {ALLOCA, MOVEREG, ENTRY} \subseteq Live
      /\ n \in Nat
  BY <1>1, Running DEF GenInv, Typed
<1>3. t # << >> /\ Runner(t).do = "block"
  BY <1>1, <1>2 DEF Fits
<1>4. Closed(stmts[block])
  <2>1. Ready(todo, stmts[block])
    BY DEF GenInv
  <2> QED
    BY <1>1, <2>1 DEF Ready, AfterBlock
<1>5. Light(h) /\ Held(h) = P \X {1}
  BY <1>1 DEF Light, Held
<1>6. /\ Stacked(t, jumpOut, breaks, continues) /\ Numbered(t, Live, n)
      /\ Known(t, Live) = ok /\ Switches(t) = sw /\ w = w1 \cup Held(h)
  BY <1>1, <1>2, <1>5, PopLight DEF GenInv
<1>7. w \subseteq w1 \cup (P \X {1})
  BY <1>5, <1>6
<1>8. /\ order' \in Seq(Labels) /\ order' # << >> /\ order'[1] = ALLOCA
      /\ Live' = more /\ block' = n /\ nextLabel' = n + 1 /\ n + 1 \in Nat
      /\ n \in Labels \ Live
  BY <1>1, <1>2, NewBlockFacts
<1>9. Numbered(t, more, n + 1) /\ n \in ok1 /\ ok \subseteq ok1
  BY <1>2, <1>6, <1>8, NumberedNew
<1>10. {ALLOCA, MOVEREG} \subseteq Live
  BY <1>2
<1>11. /\ jumpOut' \in Tables /\ breaks' \in Tables /\ continues' \in Tables
       /\ value' \in Values
  BY <1>1, PlaceFree DEF GenInv, Typed
<1>12. mir' \in Seq(Tokens)
  <2>1. "hctam" \in Tokens
    BY DEF Tokens, Marks
  <2> QED
    BY <1>1, <2>1, TokenSeq
<1>13. todo' = t
  BY <1>1, <1>2
<1> HIDE DEF ok, w, w1, sw, P, ok1, t, h
<1>14. Joins(Live, n, sw, ok, ok1, w, w1, P, 1)
  BY <1>2, <1>7, <1>8, <1>9, <1>10 DEF Joins
<1>15. /\ stmts' \in Contents /\ Emitted(stmts', "open", more, n, ok1, w1, sw)
       /\ Bare(stmts'[n])
  BY <1>1, <1>2, <1>4, <1>14, EmitJoin
<1>16. Ready(t, stmts'[n])
  BY <1>3, <1>15, ReadyOpen DEF Openers
<1>17. /\ Emitted(stmts', "open", more, n, Known(t, more), w1, sw)
       /\ w1 \subseteq Waiting(t, jumpOut', breaks', continues')
       /\ Switches(t) \subseteq sw
       /\ Stacked(t, jumpOut', breaks', continues')
  BY <1>1, <1>6, <1>15 DEF ok1, w1
<1> HIDE DEF n, more
<1> QED
  BY <1>2, <1>3, <1>8, <1>9, <1>11, <1>12, <1>13, <1>15, <1>16, <1>17, Resumes

(***************************************************************************)
(* Loops.                                                                  *)
(***************************************************************************)
\* The visitor v of a loop goes on top of t, with new tables for the two kinds of jumps.
Enters(v, t, live, n, j, b, c) ==
  /\ t \in Seq(Visitors) /\ t # << >> /\ Runner(t).do = "block" /\ Numbered(t, live, n)
  /\ v \in Visitors /\ v.do = "loop" /\ v.entry \in live \ {ALLOCA}
  /\ b \in Tables /\ c \in Tables /\ Stacked(t, j, b, c)

LEMMA PushLoop ==
  ASSUME NEW v, NEW t, NEW live, NEW n, NEW j, NEW b, NEW c, Enters(v, t, live, n, j, b, c),
         NEW s, s = On(v, t), NEW b1, b1 = NewTable(b), NEW c1, c1 = NewTable(c)
  PROVE  /\ s \in Seq(Visitors) /\ s # << >> /\ Runner(s) = v
         /\ Stacked(s, j, b1, c1) /\ Numbered(s, live, n)
         /\ Known(s, live) = Known(t, live) /\ Switches(s) = Switches(t)
         /\ Waiting(t, j, b, c) \subseteq Waiting(s, j, b1, c1)
         /\ b1 \in Tables /\ c1 \in Tables
<1> USE DEF Enters
<1>1. Layer(v, t, s)
  BY Layered
<1>2. Count(t, Ifs) \in Nat /\ Count(t, Loops) \in Nat
  BY CountType
<1>3. Held(v) = {}
  BY DEF Held
<1>4. Fits(v, t)
  BY DEF Fits
<1>5. /\ Ends(s) = Ends(t) /\ Entries(s) = Entries(t) \cup {v.entry} /\ Switches(s) = Switches(t)
      /\ HeldBy(s) = HeldBy(t)
  BY <1>1, <1>3 DEF Layer
<1>6. Count(s, Ifs) = Count(t, Ifs) /\ Count(s, Loops) = Count(t, Loops) + 1
  BY <1>1, <1>2 DEF Layer, Ifs, Loops
<1>7. /\ b1 \in Tables /\ Len(b1) = Len(b) + 1 /\ Collected(b) \subseteq Collected(b1)
      /\ c1 \in Tables /\ Len(c1) = Len(c) + 1 /\ Collected(c) \subseteq Collected(c1)
  BY TableAppend DEF NewTable
<1>8. Nested(s) /\ s \in Seq(Visitors) /\ s # << >> /\ Runner(s) = v
  BY <1>1, <1>4 DEF Layer, Stacked
<1>9. Stacked(s, j, b1, c1)
  BY <1>2, <1>6, <1>7, <1>8 DEF Stacked
<1>10. Numbered(s, live, n)
  BY <1>5 DEF Numbered
<1>11. Waiting(t, j, b, c) \subseteq Waiting(s, j, b1, c1)
  BY <1>5, <1>7 DEF Waiting
<1> QED
  BY <1>5, <1>7, <1>8, <1>9, <1>10, <1>11 DEF Known

LoopFrom(entry, kind, node) == [do |-> "loop", entry |-> entry, kind |-> kind, node |-> node]

LEMMA VisitLoopStep ==
  ASSUME Unbounded, GenInv, VisitLoop
  PROVE  GenInv'
<1> DEFINE n == nextLabel
           a == Expr(Conds)
           s == Br(n)
           ok == Known(todo, Live)
           w == Waiting(todo, jumpOut, breaks, continues)
           w1 == Waiting(todo', jumpOut', breaks', continues')
           more == Plus(Live, n)
           ok1 == Known(todo', more)
<1>1. PICK kind \in {"while", "for"} :
        Visited(<<kind>>) /\ todo' = <<a, LoopFrom(n, kind, Here)>> \o todo
  BY DEF VisitLoop, LoopFrom
<1> DEFINE v == LoopFrom(n, kind, Here)
           r == On(v, todo)
<1>2. /\ todo # << >> /\ Runner(todo).do = "block" /\ NewBlock(n)
      /\ breaks' = NewTable(breaks) /\ continues' = NewTable(continues)
      /\ stmts' = Add(stmts, block, s) /\ UNCHANGED <<value, jumpOut>>
  BY DEF VisitLoop, Runs, Runner, NewTable
<1>3. /\ todo \in Seq(Visitors) /\ Stacked(todo, jumpOut, breaks, continues)
      /\ Numbered(todo, Live, n) /\ breaks \in Tables /\ continues \in Tables
      /\ Emitted(stmts, "open", Live, block, ok, w, Switches(todo))
      /\ stmts \in Contents /\ Live \subseteq Labels /\ ALLOCA \in Live
  BY <1>2, Running DEF GenInv, Typed, Tables
<1>4. n \in Labels /\ n \notin Live /\ n # ALLOCA
  BY <1>2, <1>3, NewBlockFacts
<1>5. v \in Visitors /\ v.do = "loop" /\ v.entry = n
  BY <1>1, <1>4, HereNatural DEF Visitors, LoopFrom
<1>6. a \in Visitors /\ a.do = "expr" /\ Light(a) /\ Held(a) = {}
  BY GenAssumption DEF Visitors, Expr, Kinds, Light, Held
<1>7. todo' = On(a, r)
  BY <1>1, <1>3, <1>5, <1>6, Pushes
<1>8. mir' \in Seq(Tokens)
  <2>1. kind \in Tokens
    BY <1>1 DEF Tokens
  <2> QED
    BY <1>1, <2>1, TokenSeq
<1> HIDE DEF a, v, r
<1>9. Numbered(todo, more, n + 1) /\ n \in Known(todo, more) /\ ok \subseteq Known(todo, more)
  BY <1>3, <1>4, NumberedNew
<1>10. v.entry \in more \ {ALLOCA}
  BY <1>4, <1>5 DEF Plus
<1> HIDE DEF more
<1>11. /\ r \in Seq(Visitors) /\ r # << >> /\ Runner(r) = v
       /\ Stacked(r, jumpOut, breaks', continues') /\ Numbered(r, more, n + 1)
       /\ Known(r, more) = Known(todo, more) /\ Switches(r) = Switches(todo)
       /\ w \subseteq Waiting(r, jumpOut, breaks', continues')
       /\ breaks' \in Tables /\ continues' \in Tables
  <2>1. Enters(v, todo, more, n + 1, jumpOut, breaks, continues)
    BY <1>2, <1>3, <1>5, <1>9, <1>10 DEF Enters
  <2>2. breaks' = NewTable(breaks) /\ continues' = NewTable(continues)
    BY <1>2
  <2> HIDE DEF n, w
  <2> QED
    BY <2>1, <2>2, PushLoop DEF r, w
<1>12. Fits(a, r)
  BY <1>5, <1>6, <1>11 DEF Fits, AfterValue
<1>13. /\ todo' \in Seq(Visitors) /\ todo' # << >> /\ Runner(todo') = a
       /\ Stacked(todo', jumpOut, breaks', continues') /\ Numbered(todo', more, n + 1)
       /\ Known(todo', more) = Known(r, more) /\ Switches(todo') = Switches(r)
       /\ Waiting(r, jumpOut, breaks', continues')
            \subseteq Waiting(todo', jumpOut, breaks', continues')
  BY <1>6, <1>7, <1>11, <1>12, PushLight
<1>14. n \in ok1 /\ ok \subseteq ok1 /\ w \subseteq w1
  BY <1>2, <1>9, <1>11, <1>13
<1>15. s \in Stmts /\ s.op \in Terminators
  <2>1. Mem \in Values
    BY DEF Mem, Values
  <2> QED
    BY <1>4, <2>1, StmtTypes DEF Br, Terminators
<1>16. Leads(s, stmts, block, ok1, w1)
  BY <1>14, LeadsBr
<1>17. \A c : Bare(c) => Ready(todo', c)
  BY <1>6, <1>13, ReadyOpen DEF Openers
<1>18. Bare(stmts[block])
  BY <1>2, OpenBlock DEF Openers
<1>19. value' \in Values /\ jumpOut' \in Tables
  BY <1>2 DEF GenInv, Typed, Tables
<1>20. /\ Numbered(todo', Plus(Live, nextLabel), nextLabel + 1)
       /\ Known(todo, Live) \subseteq Known(todo', Plus(Live, nextLabel))
       /\ Waiting(todo, jumpOut, breaks, continues)
            \subseteq Waiting(todo', jumpOut', breaks', continues')
       /\ Leads(s, stmts, block, Known(todo', Plus(Live, nextLabel)),
                Waiting(todo', jumpOut', breaks', continues'))
       /\ Stacked(todo', jumpOut', breaks', continues')
       /\ Switches(todo') \subseteq Switches(todo)
  BY <1>2, <1>11, <1>13, <1>14, <1>16 DEF more
<1> HIDE DEF s
<1> QED
  BY <1>2, <1>3, <1>8, <1>11, <1>13, <1>15, <1>17, <1>18, <1>19, <1>20, BranchStep

Again(at, entry, kind, node) ==
  [do |-> "again", at |-> at, entry |-> entry, kind |-> kind, node |-> node]

LEMMA LoopCondStep ==
  ASSUME Unbounded, GenInv, LoopCond
  PROVE  GenInv'
<1> DEFINE h == Runner(todo)
           t == Below(todo)
           at == Place(block)
           s == BrCond(value, nextLabel, UNSET)
           u == Again(at, h.entry, h.kind, h.node)
           r == On(u, t)
           ok == Known(todo, Live)
           w == Waiting(todo, jumpOut, breaks, continues)
           w1 == Waiting(todo', jumpOut, breaks, continues)
           ok1 == Known(todo', Plus(Live, nextLabel))
<1>1. /\ todo # << >> /\ h.do = "loop" /\ NewBlock(nextLabel)
      /\ stmts' = Add(stmts, block, s)
      /\ UNCHANGED <<mir, value, jumpOut, breaks, continues>>
      /\ todo' = <<Body, u>> \o t
  BY DEF LoopCond, Runs, Then, Runner, Below, Again
<1>2. /\ h \in Visitors /\ t \in Seq(Visitors) /\ Fits(h, t)
      /\ Emitted(stmts, "open", Live, block, ok, w, Switches(todo))
      /\ stmts \in Contents /\ Live \subseteq Labels /\ nextLabel \in Labels
      /\ todo \in Seq(Visitors) /\ Stacked(todo, jumpOut, breaks, continues)
      /\ Numbered(todo, Live, nextLabel)
  BY <1>1, Running DEF Unbounded, GenInv, Typed
<1>3. h.entry \in Labels /\ h.kind \in {"while", "for"} /\ h.node \in Nat
  BY <1>1, <1>2 DEF Visitors
<1>4. /\ at \in Places /\ at = Spot(stmts, block)
  BY <1>1, PlaceFree
<1>5. s \in Stmts /\ s.op \in Terminators
  <2>1. value \in Values /\ UNSET \in Labels
    BY DEF GenInv, Typed, UNSET, Unbounded
  <2> QED
    BY <1>2, <2>1, StmtTypes DEF BrCond, Terminators
<1>6. Bare(stmts[block])
  BY <1>1, OpenBlock DEF Openers
<1> HIDE DEF h, t, at, s
<1>7. /\ u \in Visitors /\ u.do = "again" /\ u.entry = h.entry
  BY <1>3, <1>4 DEF Visitors, Again
<1>8. Jump(at, 2) \in Held(u)
  BY DEF Held, Jump, Again
<1>9. Body \in Visitors /\ Body.do = "block" /\ ~Body.top /\ Light(Body) /\ Held(Body) = {}
  BY DEF Visitors, Body, Light, Held
<1> HIDE DEF u
<1>10. Fits(u, t)
  BY <1>1, <1>2, <1>7 DEF Fits
<1>11. Alter(h, u) /\ Held(h) \subseteq Held(u)
  BY <1>1, <1>7 DEF Alter, Ifs, Loops, Held
<1> HIDE DEF r, w, ok
<1>12. /\ r \in Seq(Visitors) /\ r # << >> /\ Runner(r) = u
       /\ Stacked(r, jumpOut, breaks, continues) /\ Numbered(r, Live, nextLabel)
       /\ Known(r, Live) = ok /\ Switches(r) = Switches(todo)
       /\ w \subseteq Waiting(r, jumpOut, breaks, continues)
  BY <1>1, <1>2, <1>7, <1>10, <1>11, Swap DEF r, h, t, w, ok
<1>13. Fits(Body, r)
  BY <1>7, <1>9, <1>12 DEF Fits, AfterBlock
<1>14. todo' = On(Body, r)
  BY <1>1, <1>2, <1>7, <1>9, Pushes DEF r
<1>15. /\ todo' \in Seq(Visitors) /\ todo' # << >> /\ Runner(todo') = Body
       /\ Stacked(todo', jumpOut, breaks, continues) /\ Numbered(todo', Live, nextLabel)
       /\ Known(todo', Live) = Known(r, Live) /\ Switches(todo') = Switches(r)
       /\ Waiting(r, jumpOut, breaks, continues) \subseteq w1
  BY <1>9, <1>12, <1>13, <1>14, PushLight
<1>16. w \subseteq w1 /\ Jump(at, 2) \in w1
  <2>1. HeldBy(r) = HeldBy(Below(r)) \cup Held(u)
    BY <1>12, TopLayer DEF Layer
  <2> QED
    BY <1>8, <1>12, <1>15, <2>1 DEF Waiting
<1>17. /\ Numbered(todo', Plus(Live, nextLabel), nextLabel + 1)
       /\ ok \subseteq ok1 /\ nextLabel \in ok1
  <2>1. Known(todo', Live) = ok
    BY <1>12, <1>15
  <2> QED
    BY <1>2, <1>15, <2>1, NumberedNew
<1>18. Leads(s, stmts, block, ok1, w1)
  <2> HIDE DEF w1, ok1
  <2>1. Jump(Spot(stmts, block), 2) \in w1
    BY <1>4, <1>16
  <2> QED
    BY <1>17, <2>1, LeadsBrCond DEF s
<1>19. \A c : Bare(c) => Ready(todo', c)
  BY <1>9, <1>15, ReadyOpen DEF Openers
<1>20. /\ value' \in Values /\ mir' \in Seq(Tokens) /\ jumpOut' \in Tables
       /\ breaks' \in Tables /\ continues' \in Tables
  BY <1>1 DEF GenInv, Typed, Tables
<1>21. /\ w \subseteq Waiting(todo', jumpOut', breaks', continues')
       /\ Leads(s, stmts, block, ok1, Waiting(todo', jumpOut', breaks', continues'))
       /\ Stacked(todo', jumpOut', breaks', continues')
       /\ Switches(todo') \subseteq Switches(todo)
  BY <1>1, <1>12, <1>15, <1>16, <1>18
<1> QED
  BY <1>1, <1>2, <1>5, <1>6, <1>15, <1>17, <1>19, <1>20, <1>21, BranchStep DEF ok, w

\* Block n of f gets the update of a loop, if there is one, and the way back.
Updates(f, n, entry, g) ==
  \/ g = Add(f, n, Br(entry))
  \/ \E v \in Values : g = Add(Add(f, n, Inst(v)), n, Br(entry))

\* What LoopAgain does: f with the jump to the update block n, g with that block
\* as well.
LoopsBack(from, o, n, exit, f, g) ==
  LET h == Runner(todo) IN
  /\ JumpFrom(from, o, n) /\ exit = n + 1
  /\ order' = Append(Append(o, n), exit) /\ nextLabel' = exit + 1 /\ block' = exit
  /\ f = Add(stmts, from, Br(n))
  /\ Updates(f, n, h.entry, g)
  /\ stmts' = Patch(Patch(Patch(g, Top(continues), 1, n), {h.at}, 2, exit), Top(breaks), 1, exit)
  /\ breaks' = Pop(breaks) /\ continues' = Pop(continues)
  /\ todo' = Below(todo) /\ UNCHANGED <<mir, value, jumpOut>>

\* The block of the update, and the one behind the loop.
LEMMA EmitUpdate ==
  ASSUME NEW f \in Contents, NEW live, live \subseteq Labels, {ALLOCA, MOVEREG} \subseteq live,
         NEW now, NEW ok, NEW w, NEW sw, sw \subseteq Places,
         Emitted(f, "open", live, now, ok, w, sw), Closed(f[now]),
         NEW n \in Labels \ live, NEW entry \in Labels, entry \in ok,
         NEW g, Updates(f, n, entry, g),
         NEW exit \in Labels \ Plus(live, n)
  PROVE  LET most == Plus(Plus(live, n), exit) IN
         /\ g \in Contents /\ Emitted(g, "open", most, exit, ok, w, sw) /\ Bare(g[exit])
         /\ most \subseteq Labels /\ {ALLOCA, MOVEREG} \subseteq most
<1> DEFINE more == Plus(live, n)
           s == Br(entry)
<1>1. /\ Emitted(f, "open", more, n, ok, w, sw) /\ Bare(f[n]) /\ more \subseteq Labels
      /\ {ALLOCA, MOVEREG} \subseteq more
  <2>1. {ALLOCA, MOVEREG} \subseteq more
    BY DEF Plus
  <2> QED
    BY <2>1, EmitNew
<1>2. s \in Stmts /\ s.op \in Terminators
  <2>1. Mem \in Values
    BY DEF Mem, Values
  <2> QED
    BY <2>1, StmtTypes DEF Br, Terminators
<1>3. \A e : Leads(s, e, n, ok, w)
  BY LeadsBr
<1> HIDE DEF s, more
<1>4. g \in Contents /\ Emitted(g, "open", more, n, ok, w, sw) /\ Closed(g[n])
  <2>1. CASE g = Add(f, n, s)
    <3>1. Leads(s, f, n, ok, w) /\ n \in Labels
      BY <1>3
    <3> QED
      BY <1>1, <1>2, <2>1, <3>1, EmitAdd
  <2>2. ASSUME NEW v \in Values, g = Add(Add(f, n, Inst(v)), n, s)
        PROVE  g \in Contents /\ Emitted(g, "open", more, n, ok, w, sw) /\ Closed(g[n])
    <3> DEFINE e == Add(f, n, Inst(v))
    <3>1. e \in Contents /\ Emitted(e, "open", more, n, ok, w, sw) /\ Bare(e[n])
      BY <1>1, EmitInst
    <3>2. g = Add(e, n, s)
      BY <2>2
    <3> HIDE DEF e
    <3>3. Leads(s, e, n, ok, w)
      BY <1>3
    <3>4. more \subseteq Labels
      BY <1>1
    <3> QED
      BY <1>2, <3>1, <3>2, <3>3, <3>4, EmitAdd
  <2> QED
    BY <2>1, <2>2 DEF Updates, s
<1>5. exit \in Labels \ more
  BY DEF more
<1>6. /\ Emitted(g, "open", Plus(more, exit), exit, ok, w, sw) /\ Bare(g[exit])
      /\ Plus(more, exit) \subseteq Labels
  BY <1>1, <1>4, <1>5, EmitNew
<1>7. {ALLOCA, MOVEREG} \subseteq Plus(more, exit)
  BY <1>1 DEF Plus
<1> QED
  BY <1>4, <1>6, <1>7 DEF more

\* Popping the visitor of a loop, with its two tables.
Exiting(s, live, n, j, b, c) ==
  /\ s \in Seq(Visitors) /\ s # << >> /\ Runner(s).do = "again" /\ Numbered(s, live, n)
  /\ b \in Tables /\ c \in Tables /\ Stacked(s, j, b, c)

LEMMA PopLoop ==
  ASSUME NEW s, NEW live, NEW n, NEW j, NEW b, NEW c, Exiting(s, live, n, j, b, c),
         NEW t, t = Below(s)
  PROVE  /\ t \in Seq(Visitors) /\ Stacked(t, j, Pop(b), Pop(c)) /\ Numbered(t, live, n)
         /\ Known(t, live) = Known(s, live) /\ Switches(t) = Switches(s)
         /\ Pop(b) \in Tables /\ Pop(c) \in Tables
         /\ Runner(s).entry \in Entries(s)
         /\ HeldBy(s) \subseteq HeldBy(t) \cup Held(Runner(s))
         /\ Collected(b) \subseteq Collected(Pop(b)) \cup (Top(b) \X {1})
         /\ Collected(c) \subseteq Collected(Pop(c)) \cup (Top(c) \X {1})
<1> USE DEF Exiting
<1>1. Layer(Runner(s), t, s) /\ t \in Seq(Visitors)
  BY TopLayer
<1>2. Count(t, Ifs) \in Nat /\ Count(t, Loops) \in Nat
  BY <1>1, CountType
<1>3. /\ Ends(t) = Ends(s) /\ Entries(t) \subseteq Entries(s) /\ Switches(t) = Switches(s)
      /\ Runner(s).entry \in Entries(s)
      /\ HeldBy(s) = HeldBy(t) \cup Held(Runner(s)) /\ Nested(t)
  BY <1>1 DEF Layer, Stacked
<1>4. Count(s, Ifs) = Count(t, Ifs) /\ Count(s, Loops) = Count(t, Loops) + 1
  BY <1>1, <1>2 DEF Layer, Ifs, Loops
<1>5. Len(b) = Count(t, Loops) + 1 /\ Len(c) = Count(t, Loops) + 1
  BY <1>4 DEF Stacked
<1>6. /\ Pop(b) \in Tables /\ Len(Pop(b)) = Count(t, Loops)
      /\ Collected(b) = Collected(Pop(b)) \cup (Top(b) \X {1})
  BY <1>2, <1>5, TablePop
<1>7. /\ Pop(c) \in Tables /\ Len(Pop(c)) = Count(t, Loops)
      /\ Collected(c) = Collected(Pop(c)) \cup (Top(c) \X {1})
  BY <1>2, <1>5, TablePop
<1>8. Stacked(t, j, Pop(b), Pop(c))
  BY <1>3, <1>4, <1>6, <1>7 DEF Stacked
<1>9. Numbered(t, live, n)
  BY <1>3 DEF Numbered
<1> QED
  BY <1>1, <1>3, <1>6, <1>7, <1>8, <1>9 DEF Known

LEMMA LoopBack ==
  ASSUME Unbounded, GenInv, todo # << >>, Runner(todo).do = "again",
         NEW from, NEW o, NEW n, NEW exit, NEW f, NEW g, LoopsBack(from, o, n, exit, f, g)
  PROVE  GenInv'
<1> DEFINE h == Runner(todo)
           t == Below(todo)
           ok == Known(todo, Live)
           okn == Plus(ok, n)
           sw == Switches(todo)
           w == Waiting(todo, jumpOut, breaks, continues)
           w1 == Waiting(t, jumpOut', breaks', continues')
           P == Top(continues)
           Q == {h.at}
           R == Top(breaks)
           wb == w1 \cup (R \X {1})
           wa == wb \cup (Q \X {2})
           s == Br(n)
<1>1. JumpFrom(from, o, n) /\ f = Add(stmts, from, s)
  BY DEF LoopsBack
<1>2. /\ Fits(h, t) /\ h \in Visitors /\ todo \in Seq(Visitors) /\ sw \subseteq Places
      /\ Entries(todo) \subseteq Labels /\ Ends(todo) \subseteq Labels
      /\ Stacked(todo, jumpOut, breaks, continues) /\ Numbered(todo, Live, nextLabel)
      /\ breaks \in Tables /\ continues \in Tables
  BY Running, EndsLabels DEF GenInv, Typed, Tables
<1>3. t # << >> /\ Runner(t).do = "block"
  BY <1>2 DEF Fits
<1>4. n \in Labels
  BY <1>1, FreshFrom DEF Unbounded
<1>5. PICK live :
           /\ o \in Seq(Labels) /\ o # << >> /\ o[1] = ALLOCA /\ Range(o) = live
           /\ live \subseteq Labels /\ {ALLOCA, MOVEREG} \subseteq live
           /\ from \in live /\ n \in Nat /\ Numbered(todo, live, n)
           /\ ok \subseteq Known(todo, live)
           /\ f \in Contents /\ Emitted(f, "open", live, from, okn, w, sw)
           /\ Closed(f[from])
  <2>1. s \in Stmts /\ s.op \in Terminators
    <3>1. Mem \in Values
      BY DEF Mem, Values
    <3> QED
      BY <1>4, <3>1, StmtTypes DEF Br, Terminators
  <2>2. ok \subseteq okn /\ n \in okn
    BY DEF Plus
  <2> HIDE DEF okn, w
  <2>3. Leads(s, stmts, from, okn, w)
    BY <2>2, LeadsBr
  <2>4. w \subseteq w
    OBVIOUS
  <2> HIDE DEF s
  <2> QED
    BY <1>1, <2>1, <2>2, <2>3, <2>4, EmitJump DEF w
<1> DEFINE more == Plus(live, n)
           most == Plus(more, exit)
           ok1 == Known(t, most)
<1>6. exit = n + 1 /\ exit \in Labels
  BY <1>5 DEF LoopsBack, Unbounded
<1>7. n \in Labels \ live /\ exit \in Labels \ more
  <2>1. \A l \in live : l < n
    BY <1>5 DEF Numbered
  <2>2. live \subseteq Nat
    BY <1>5 DEF Unbounded
  <2> QED
    BY <1>4, <1>5, <1>6, <2>1, <2>2 DEF Plus
<1>8. /\ Numbered(todo, more, exit) /\ n \in Known(todo, more)
      /\ Known(todo, live) \subseteq Known(todo, more) /\ more \subseteq Labels
  <2>1. more \subseteq Labels
    BY <1>4, <1>5 DEF Plus
  <2> QED
    BY <1>2, <1>4, <1>5, <1>6, <2>1, NumberedNew
<1>9. /\ Numbered(todo, most, exit + 1) /\ exit \in Known(todo, most)
      /\ Known(todo, more) \subseteq Known(todo, most)
  <2> HIDE DEF more
  <2> QED
    BY <1>2, <1>6, <1>8, NumberedNew
<1>10. /\ t \in Seq(Visitors) /\ Stacked(t, jumpOut, Pop(breaks), Pop(continues))
       /\ Numbered(t, most, exit + 1)
       /\ Known(t, most) = Known(todo, most) /\ Switches(t) = sw
       /\ Pop(breaks) \in Tables /\ Pop(continues) \in Tables
       /\ h.entry \in Entries(todo)
       /\ HeldBy(todo) \subseteq HeldBy(t) \cup Held(h)
       /\ Collected(breaks) \subseteq Collected(Pop(breaks)) \cup (R \X {1})
       /\ Collected(continues) \subseteq Collected(Pop(continues)) \cup (P \X {1})
  <2>1. Exiting(todo, most, exit + 1, jumpOut, breaks, continues)
    BY <1>2, <1>9 DEF Exiting
  <2> HIDE DEF most
  <2> QED
    BY <2>1, PopLoop
<1>11. okn \subseteq ok1 /\ n \in ok1 /\ exit \in ok1
  BY <1>5, <1>8, <1>9, <1>10 DEF Plus
<1>12. h.entry \in okn /\ h.entry \in Labels
  BY <1>2, <1>10 DEF Numbered, Known, Plus
<1>13. /\ breaks' = Pop(breaks) /\ continues' = Pop(continues) /\ todo' = t
       /\ UNCHANGED <<mir, value, jumpOut>>
       /\ block' = exit /\ nextLabel' = exit + 1
       /\ order' = Append(Append(o, n), exit)
  BY DEF LoopsBack
<1>14. w \subseteq wa \cup (P \X {1})
  BY <1>10, <1>13 DEF Held, Waiting
<1>15. Live' = most /\ order' \in Seq(Labels) /\ order' # << >> /\ order'[1] = ALLOCA
  <2> DEFINE q == Append(o, n)
  <2>1. q \in Seq(Labels) /\ q # << >> /\ q[1] = ALLOCA /\ Range(q) = more
    BY <1>4, <1>5, AppendOrder DEF Plus
  <2> HIDE DEF q, more
  <2>2. Append(q, exit) \in Seq(Labels) /\ Append(q, exit) # << >> /\ Append(q, exit)[1] = ALLOCA
        /\ Range(Append(q, exit)) = most
    BY <1>6, <2>1, AppendOrder DEF Plus
  <2> QED
    BY <1>13, <2>2 DEF Live, q
<1>16. /\ Updates(f, n, h.entry, g)
       /\ stmts' = Patch(Patch(Patch(g, P, 1, n), Q, 2, exit), R, 1, exit)
  BY DEF LoopsBack
<1> HIDE DEF h, t, okn, sw, w, ok, P, Q, R
<1>17. /\ g \in Contents /\ Emitted(g, "open", most, exit, okn, w, sw) /\ Bare(g[exit])
       /\ most \subseteq Labels /\ {ALLOCA, MOVEREG} \subseteq most
  <2>1. Updates(f, n, h.entry, g) /\ h.entry \in okn /\ h.entry \in Labels
    BY <1>12, <1>16
  <2>2. /\ live \subseteq Labels /\ {ALLOCA, MOVEREG} \subseteq live /\ sw \subseteq Places
        /\ f \in Contents /\ Emitted(f, "open", live, from, okn, w, sw) /\ Closed(f[from])
    BY <1>2, <1>5
  <2>3. n \in Labels \ live /\ exit \in Labels \ Plus(live, n)
    BY <1>7
  <2> QED
    BY <2>1, <2>2, <2>3, EmitUpdate
<1> HIDE DEF more, most, ok1, w1, wb, wa
<1>18. PatchFits(most, sw, okn, ok1, w, wa, P, 1, n)
  BY <1>2, <1>4, <1>11, <1>14, <1>17 DEF PatchFits
<1>19. PatchFits(most, sw, ok1, ok1, wa, wb, Q, 2, exit)
  BY <1>2, <1>6, <1>11, <1>17 DEF PatchFits, wa
<1>20. PatchFits(most, sw, ok1, ok1, wb, w1, R, 1, exit)
  BY <1>2, <1>6, <1>11, <1>17 DEF PatchFits, wb
<1> DEFINE x == Patch(g, P, 1, n)
           y == Patch(x, Q, 2, exit)
<1>21. x \in Contents /\ Emitted(x, "open", most, exit, ok1, wa, sw) /\ Bare(x[exit])
  BY <1>17, <1>18, EmitPatched
<1>22. stmts' = Patch(y, R, 1, exit)
  BY <1>16
<1> HIDE DEF x
<1>23. y \in Contents /\ Emitted(y, "open", most, exit, ok1, wb, sw) /\ Bare(y[exit])
  BY <1>19, <1>21, EmitPatched
<1> HIDE DEF y
<1>24. /\ stmts' \in Contents /\ Emitted(stmts', "open", most, exit, ok1, w1, sw)
       /\ Bare(stmts'[exit])
  BY <1>20, <1>22, <1>23, EmitPatched
<1>25. Ready(t, stmts'[exit])
  BY <1>3, <1>24, ReadyOpen DEF Openers
<1>26. /\ jumpOut' \in Tables /\ breaks' \in Tables /\ continues' \in Tables
       /\ value' \in Values /\ mir' \in Seq(Tokens)
  BY <1>10, <1>13 DEF GenInv, Typed, Tables
<1>27. /\ Emitted(stmts', "open", most, exit, Known(t, most), w1, sw)
       /\ w1 \subseteq Waiting(t, jumpOut', breaks', continues')
       /\ Switches(t) \subseteq sw
       /\ Stacked(t, jumpOut', breaks', continues')
  BY <1>10, <1>13, <1>24 DEF ok1, w1
<1>28. exit + 1 \in Nat
  BY <1>5, <1>6
<1> QED
  BY <1>3, <1>10, <1>13, <1>15, <1>24, <1>25, <1>26, <1>27, <1>28, Resumes

LEMMA Appends ==
  ASSUME NEW f \in Contents, NEW n \in Labels, NEW a \in Stmts, NEW b \in Stmts
  PROVE  /\ [f EXCEPT ![n] = (@ \o << >>) \o <<b>>] = Add(f, n, b)
         /\ [f EXCEPT ![n] = (@ \o <<a>>) \o <<b>>] = Add(Add(f, n, a), n, b)
<1> DEFINE c == f[n]
           d == Append(c, a)
<1>1. c \in Seq(Stmts) /\ d \in Seq(Stmts)
  BY DEF Contents
<1>2. (c \o << >>) \o <<b>> = Append(c, b)
  BY <1>1
<1>3. c \o <<a>> = d
  BY <1>1
<1>4. d \o <<b>> = Append(d, b)
  BY <1>1
<1> DEFINE e == [f EXCEPT ![n] = d]
<1>5. Add(f, n, a) = e
  BY DEF Add
<1>6. e[n] = d /\ e \in Contents /\ \A m \in Labels : m # n => e[m] = f[m]
  BY <1>1 DEF Contents
<1> HIDE DEF c, d
<1> DEFINE x == Append(d, b)
<1> HIDE DEF x
<1>7. [e EXCEPT ![n] = x] = [f EXCEPT ![n] = x]
  BY <1>6 DEF Contents
<1> HIDE DEF e
<1>8. Add(Add(f, n, a), n, b) = [e EXCEPT ![n] = x]
  BY <1>5, <1>6 DEF Add, x
<1>9. [f EXCEPT ![n] = (@ \o <<a>>) \o <<b>>] = [f EXCEPT ![n] = x]
  BY <1>3, <1>4 DEF c, x
<1>10. [f EXCEPT ![n] = (@ \o << >>) \o <<b>>] = Add(f, n, b)
  BY <1>2 DEF Add, c
<1> QED
  BY <1>7, <1>8, <1>9, <1>10

LEMMA LoopAgainStep ==
  ASSUME Unbounded, GenInv, LoopAgain
  PROVE  GenInv'
<1> DEFINE h == Runner(todo)
           fresh == IF RetNeedsBlock(block) THEN <<nextLabel>> ELSE << >>
           from == IF fresh = << >> THEN block ELSE nextLabel
           n == nextLabel + Len(fresh)
           exit == n + 1
           o == order \o fresh
           update == IF h.kind = "for" THEN <<Inst(<<"inst", h.node>>)>> ELSE << >>
           f == Add(stmts, from, Br(n))
           g == [f EXCEPT ![n] = (@ \o update) \o <<Br(h.entry)>>]
<1>1. /\ todo # << >> /\ h.do = "again"
      /\ stmts' = Patch(Patch(Patch(g, Top(continues), 1, n), {h.at}, 2, exit), Top(breaks), 1, exit)
      /\ order' = o \o <<n, exit>> /\ block' = exit /\ nextLabel' = exit + 1
      /\ breaks' = Pop(breaks) /\ continues' = Pop(continues)
      /\ todo' = << >> \o Below(todo)
      /\ UNCHANGED <<mir, value, jumpOut>>
  BY DEF LoopAgain, Runs, Then, Runner, Below
<1>2. Bare(stmts[block]) \/ Returns(stmts[block])
  <2>1. Ready(todo, stmts[block])
    BY DEF GenInv
  <2> QED
    BY <1>1, <2>1 DEF Ready, AfterBlock
<1>3. JumpFrom(from, o, n)
  <2> HIDE DEF h
  <2> QED
    BY <1>1, <1>2, Fresh
<1>4. todo' = Below(todo)
  <2>1. Below(todo) \in Seq(Visitors)
    BY <1>1, Running
  <2> QED
    BY <1>1, <2>1
<1> HIDE DEF fresh, from, n, o
<1>5. o \in Seq(Labels) /\ n \in Nat /\ from \in Labels /\ stmts \in Contents /\ h \in Visitors
  BY <1>1, <1>3, FreshFrom, Running
<1>6. n \in Labels /\ h.entry \in Labels /\ h.node \in Nat
  BY <1>1, <1>5 DEF Unbounded, Visitors
<1>7. o \o <<n, exit>> = Append(Append(o, n), exit)
  BY <1>5
<1>8. Mem \in Values /\ <<"inst", h.node>> \in Values
  BY <1>6 DEF Mem, Values
<1>9. /\ Br(n) \in Stmts /\ Br(h.entry) \in Stmts
      /\ \A v \in Values : Inst(v) \in Stmts
  BY <1>6, <1>8, StmtTypes
<1>10. f \in Contents
  BY <1>5, <1>9, AddFacts
<1>11. Updates(f, n, h.entry, g)
  <2> DEFINE v == <<"inst", h.node>>
             a == Inst(v)
             b == Br(h.entry)
  <2>1. a \in Stmts /\ b \in Stmts
    BY <1>8, <1>9
  <2> HIDE DEF a, b
  <2>2. CASE h.kind = "for"
    <3>1. g = [f EXCEPT ![n] = (@ \o <<a>>) \o <<b>>]
      BY <2>2 DEF a, b
    <3> HIDE DEF f, g
    <3>2. g = Add(Add(f, n, a), n, b)
      BY <1>6, <1>10, <2>1, <3>1, Appends
    <3> HIDE DEF v
    <3>3. v \in Values
      BY <1>8 DEF v
    <3> QED
      BY <3>2, <3>3 DEF Updates, a, b
  <2>3. CASE h.kind # "for"
    <3>1. g = [f EXCEPT ![n] = (@ \o << >>) \o <<b>>]
      BY <2>3 DEF b
    <3> HIDE DEF f, g
    <3>2. g = Add(f, n, b)
      BY <1>6, <1>10, <2>1, <3>1, Appends
    <3> QED
      BY <3>2 DEF Updates, b
  <2> QED
    BY <2>2, <2>3
<1>12. LoopsBack(from, o, n, exit, f, g)
  <2> HIDE DEF exit, g
  <2>1. exit = n + 1 /\ h = Runner(todo)
    BY DEF exit
  <2> QED
    BY <1>1, <1>3, <1>4, <1>7, <1>11, <2>1 DEF LoopsBack
<1> HIDE DEF exit, f, g
<1> QED
  BY <1>1, <1>12, LoopBack

(***************************************************************************)
(* The end of the function.                                                *)
(***************************************************************************)
LEMMA FinishStep ==
  ASSUME Unbounded, GenInv, Finish
  PROVE  GenInv'
<1> DEFINE f == Add(stmts, ALLOCA, Br(MOVEREG))
           w == Waiting(todo, jumpOut, breaks, continues)
           ok == Known(todo, Live)
           sw == Switches(todo)
           h == Runner(todo)
           t == Below(todo)
           a == Br(MOVEREG)
           b == Br(ENTRY)
<1>1. /\ todo # << >> /\ h.do = "finish" /\ stmts' = Add(f, MOVEREG, b)
      /\ todo' = << >> \o t
      /\ UNCHANGED <<order, mir, block, nextLabel, value, jumpOut, breaks, continues>>
  BY DEF Finish, Runs, Then, Runner, Below
<1>2. /\ todo \in Seq(Visitors) /\ t \in Seq(Visitors) /\ Fits(h, t) /\ stmts \in Contents
      /\ Live \subseteq Labels /\ {ALLOCA, MOVEREG, ENTRY} \subseteq Live /\ block \in Labels
      /\ Emitted(stmts, "open", Live, block, ok, w, sw) /\ sw \subseteq Places
  BY <1>1, Running DEF GenInv, Typed
<1>3. t = << >>
  BY <1>1, <1>2 DEF Fits
<1>4. todo' = t /\ todo' = << >>
  BY <1>1, <1>3
<1>5. Light(h) /\ Held(h) = {}
  BY <1>1 DEF Light, Held
<1>6. /\ Stacked(t, jumpOut, breaks, continues) /\ Numbered(t, Live, nextLabel)
      /\ Known(t, Live) = ok /\ Switches(t) = sw
      /\ w \subseteq Waiting(t, jumpOut, breaks, continues)
  BY <1>1, <1>5, PopIdle
<1>7. Returns(stmts[block])
  <2>1. Ready(todo, stmts[block])
    BY DEF GenInv
  <2> QED
    BY <1>1, <2>1 DEF Ready, AfterBlock
<1>8. MOVEREG \in ok /\ ENTRY \in ok
  BY <1>2 DEF Known, ALLOCA, MOVEREG, ENTRY
<1>9. a \in Stmts /\ b \in Stmts /\ a.op \in Terminators /\ b.op \in Terminators
  <2>1. Mem \in Values /\ MOVEREG \in Labels /\ ENTRY \in Labels
    BY <1>2 DEF Mem, Values
  <2> QED
    BY <2>1, StmtTypes DEF Br, Terminators
<1>10. ALLOCA \in Labels /\ MOVEREG \in Labels /\ ALLOCA # MOVEREG /\ block \notin {ALLOCA, MOVEREG}
  BY <1>2 DEF ALLOCA, MOVEREG, Emitted
<1>11. \A k \in DOMAIN a.to : a.to[k] \in ok
  BY <1>8 DEF Br
<1>12. \A k \in DOMAIN b.to : b.to[k] \in ok
  BY <1>8 DEF Br
<1>13. f = Add(stmts, ALLOCA, a)
  OBVIOUS
<1> HIDE DEF a, b, f, ok, w, sw, h, t
<1>14. /\ f \in Contents /\ f[ALLOCA] = Append(stmts[ALLOCA], a)
       /\ \A c \in Labels \ {ALLOCA} : f[c] = stmts[c]
       /\ Keeps(stmts, f)
  BY <1>2, <1>9, <1>10, <1>13, AddFacts
<1>15. /\ stmts' \in Contents /\ stmts'[MOVEREG] = Append(f[MOVEREG], b)
       /\ \A c \in Labels \ {MOVEREG} : stmts'[c] = f[c]
       /\ Keeps(f, stmts')
  BY <1>1, <1>9, <1>10, <1>14, AddFacts
<1>16. Aimed(stmts, ok, w)
  BY <1>2 DEF Emitted
<1>17. Aimed(f, ok, w)
  BY <1>2, <1>9, <1>10, <1>11, <1>13, <1>16, AddAimed
<1>18. Aimed(stmts', ok, w)
  BY <1>1, <1>9, <1>10, <1>12, <1>14, <1>17, AddAimed
<1>19. Closed(stmts'[ALLOCA]) /\ Closed(stmts'[MOVEREG])
  <2>1. /\ stmts[ALLOCA] \in Seq(Stmts) /\ Bare(stmts[ALLOCA])
        /\ stmts[MOVEREG] \in Seq(Stmts) /\ Bare(stmts[MOVEREG])
    BY <1>2, <1>10 DEF Emitted, Contents
  <2>2. Closed(Append(stmts[ALLOCA], a)) /\ Closed(Append(stmts[MOVEREG], b))
    BY <1>9, <2>1, AppendContent
  <2> QED
    BY <1>10, <1>14, <1>15, <2>2
<1>20. \A p \in sw : p[2] \in DOMAIN stmts'[p[1]] /\ stmts'[p[1]][p[2]].op = "switch"
  <2>1. Keeps(stmts, stmts')
    BY <1>14, <1>15, KeepsKeeps
  <2> QED
    BY <1>2, <2>1 DEF Emitted, Keeps, Places
<1>21. \A c \in Labels \ {ALLOCA, MOVEREG} : stmts'[c] = stmts[c]
  BY <1>14, <1>15
<1>22. Emitted(stmts', "closed", Live, block, ok, w, sw)
  <2>1. /\ block \in Live \ {ALLOCA, MOVEREG}
        /\ \A c \in Live \ {block, ALLOCA, MOVEREG} : Closed(stmts'[c])
        /\ \A c \in Labels \ Live : stmts'[c] = << >>
    BY <1>2, <1>21 DEF Emitted
  <2> QED
    BY <1>18, <1>19, <1>20, <2>1 DEF Emitted
<1>23. Emitted(stmts', "closed", Live, block, Known(t, Live),
               Waiting(t, jumpOut, breaks, continues), Switches(t))
  <2>1. ok \subseteq Known(t, Live) /\ Switches(t) \subseteq sw
    BY <1>6
  <2> QED
    BY <1>6, <1>22, <2>1, EmitWeaker
<1>24. Closed(stmts'[block])
  BY <1>7, <1>10, <1>2, <1>21 DEF Returns
<1>25. Live' = Live
  BY <1>1 DEF Live
<1>26. Ready(todo', stmts'[block'])
  BY <1>1, <1>4, <1>24 DEF Ready
<1>27. Typed'
  BY <1>1, <1>2, <1>4, <1>15 DEF GenInv, Typed, FuncTypeOK, Contents
<1>28. /\ Stacked(todo', jumpOut', breaks', continues') /\ Numbered(todo', Live', nextLabel')
       /\ Emitted(stmts', "closed", Live', block', Known(todo', Live'),
                  Waiting(todo', jumpOut', breaks', continues'), Switches(todo'))
  BY <1>1, <1>4, <1>6, <1>23, <1>25
<1>29. order' # << >> /\ order'[1] = ALLOCA
  BY <1>1 DEF GenInv
<1> QED
  BY <1>4, <1>26, <1>27, <1>28, <1>29 DEF GenInv

(***************************************************************************)
(* The start of the function.                                              *)
(***************************************************************************)
LEMMA InitInv ==
  ASSUME Unbounded, GenInit
  PROVE  GenInv
<1> DEFINE z == [do |-> "finish"]
           v == [do |-> "block", top |-> TRUE]
           live == {ALLOCA, MOVEREG, ENTRY}
           none == << >>
           bottom == On(z, none)
           move == [p \in 1..Params |-> Inst(Mem)]
<1>1. /\ order = <<ALLOCA, MOVEREG, ENTRY>>
      /\ stmts = [b \in Labels |-> IF b \in {ALLOCA, ENTRY} THEN move ELSE << >>]
      /\ mir = << >> /\ block = ENTRY /\ nextLabel = ENTRY + 1 /\ value = Mem
      /\ jumpOut = << >> /\ breaks = << >> /\ continues = << >>
  BY DEF GenInit
<1>2. z \in Visitors /\ v \in Visitors /\ none \in Seq(Visitors)
  BY DEF Visitors
<1>3. todo = On(v, bottom)
  <2>1. todo = <<v, z>>
    BY DEF GenInit
  <2> HIDE DEF v, z
  <2>2. <<v, z>> \o none = On(v, On(z, none))
    BY <1>2, Pushes
  <2> DEFINE s == <<v, z>>
  <2>3. s \in Seq(Visitors)
    BY <1>2
  <2> HIDE DEF s
  <2>4. s \o << >> = s
    BY <2>3
  <2> QED
    BY <2>1, <2>2, <2>4 DEF s
<1>4. Light(z) /\ Light(v) /\ Held(z) = {} /\ Held(v) = {} /\ z.do = "finish"
      /\ v.do = "block" /\ v.top
  BY DEF Light, Held
<1>5. Fits(z, none)
  BY DEF Fits
<1>6. {ALLOCA, MOVEREG, ENTRY} \subseteq Labels /\ Mem \in Values
  BY DEF Unbounded, ALLOCA, MOVEREG, ENTRY, Mem, Values
<1>7. Stacked(none, << >>, << >>, << >>)
  BY EmptyStack DEF Stacked
<1>8. Numbered(none, live, 3)
  BY EmptyStack DEF Numbered, ALLOCA, MOVEREG, ENTRY
<1>9. order \in Seq(Labels) /\ order # << >> /\ order[1] = ALLOCA
  BY <1>1, <1>6
<1>10. Live = live
  <2>1. DOMAIN order = {1, 2, 3} /\ order[1] = ALLOCA /\ order[2] = MOVEREG /\ order[3] = ENTRY
    BY <1>1
  <2> QED
    BY <2>1 DEF Live, Range
<1> HIDE DEF z, v, none, bottom, live
<1>11. /\ bottom \in Seq(Visitors) /\ bottom # << >> /\ Runner(bottom) = z
       /\ Stacked(bottom, << >>, << >>, << >>) /\ Numbered(bottom, live, 3)
       /\ Switches(bottom) = Switches(none)
  BY <1>2, <1>4, <1>5, <1>7, <1>8, PushLight DEF bottom
<1>12. Fits(v, bottom)
  BY <1>4, <1>11 DEF Fits
<1>13. /\ todo \in Seq(Visitors) /\ todo # << >> /\ Runner(todo) = v
       /\ Stacked(todo, << >>, << >>, << >>) /\ Numbered(todo, live, 3)
       /\ Switches(todo) = Switches(bottom)
  BY <1>2, <1>3, <1>4, <1>11, <1>12, PushLight
<1>14. Switches(todo) = {}
  BY <1>11, <1>13, EmptyStack DEF none
<1>15. /\ move \in Seq(Stmts) /\ Bare(move)
       /\ \A i \in DOMAIN move : move[i].to = << >>
  <2>1. Inst(Mem) \in Stmts /\ Inst(Mem).op \notin Terminators /\ Inst(Mem).to = << >>
    <3>1. Mem \in Values
      BY DEF Mem, Values
    <3> QED
      BY <1>6, <3>1, StmtTypes DEF Inst, Terminators
  <2>2. Params \in Nat
    BY GenAssumption
  <2>3. \A i \in DOMAIN move : move[i] = Inst(Mem)
    OBVIOUS
  <2>4. move \in Seq(Stmts)
    BY <2>1, <2>2
  <2> HIDE DEF move
  <2> QED
    BY <2>1, <2>3, <2>4 DEF Bare
<1> HIDE DEF move
<1>16. stmts \in Contents
  BY <1>1, <1>15 DEF Contents
<1>17. \A b \in Labels : stmts[b] = move \/ stmts[b] = << >>
  BY <1>1
<1>18. \A b \in Labels : Bare(stmts[b])
  BY <1>15, <1>17, EmptyContent
<1>19. ASSUME NEW ok, NEW w PROVE Aimed(stmts, ok, w)
  <2> SUFFICES ASSUME NEW b \in Labels, NEW i \in DOMAIN stmts[b] PROVE stmts[b][i].to = << >>
    BY DEF Aimed
  <2> QED
    BY <1>15, <1>17
<1>20. ENTRY \notin {ALLOCA, MOVEREG}
  BY DEF ALLOCA, MOVEREG, ENTRY
<1>21. \A b \in Labels \ live : stmts[b] = << >>
  BY <1>1 DEF live
<1>22. Emitted(stmts, "open", live, ENTRY, Known(todo, live),
               Waiting(todo, jumpOut, breaks, continues), Switches(todo))
  <2>1. ENTRY \in live \ {ALLOCA, MOVEREG}
    BY <1>20 DEF live
  <2>2. \A b \in live \ {ENTRY, ALLOCA, MOVEREG} : Closed(stmts[b])
    BY DEF live
  <2>3. \A b \in {ALLOCA, MOVEREG} : Bare(stmts[b])
    BY <1>6, <1>18
  <2> QED
    BY <1>14, <1>19, <1>21, <2>1, <2>2, <2>3 DEF Emitted
<1>23. Ready(todo, stmts[block])
  <2>1. Bare(stmts[block])
    BY <1>1, <1>6, <1>18
  <2> QED
    BY <1>4, <1>13, <2>1, ReadyOpen DEF Openers
<1>24. nextLabel = 3
  BY <1>1 DEF ENTRY
<1>25. Typed
  <2>1. mir \in Seq(Tokens) /\ value \in Values
    BY <1>1, <1>6
  <2>2. jumpOut \in Seq(SUBSET Places) /\ breaks \in Seq(SUBSET Places)
        /\ continues \in Seq(SUBSET Places)
    BY <1>1
  <2> QED
    BY <1>9, <1>13, <1>16, <1>24, <2>1, <2>2 DEF Typed, FuncTypeOK, Contents
<1>26. Emitted(stmts, "open", Live, block, Known(todo, Live),
               Waiting(todo, jumpOut, breaks, continues), Switches(todo))
  BY <1>1, <1>10, <1>22
<1>27. Stacked(todo, jumpOut, breaks, continues) /\ Numbered(todo, Live, nextLabel)
  BY <1>1, <1>10, <1>13, <1>24
<1> QED
  BY <1>9, <1>13, <1>23, <1>25, <1>26, <1>27 DEF GenInv

-----------------------------------------------------------------------------
(***************************************************************************)
(* Every visitor keeps the invariant.                                      *)
(***************************************************************************)
LEMMA VisitExprStep ==
  ASSUME Unbounded, GenInv, VisitExpr
  PROVE  GenInv'
BY VisitLiteralStep, VisitSimpleExprStep, VisitCallValueStep, VisitShortCircuitStep,
   ShortCircuitLeftStep, ShortCircuitRightStep DEF VisitExpr

LEMMA VisitSimpleStep ==
  ASSUME Unbounded, GenInv, VisitSimple
  PROVE  GenInv'
BY EndBlockStep, VisitCallStep, VisitDefineStep, StoreInitialValueStep, VisitReturnStep,
   VisitReturnValueStep, ReturnValueStep, VisitBreakStep, VisitContinueStep DEF VisitSimple

LEMMA VisitIfStep ==
  ASSUME Unbounded, GenInv, VisitIf
  PROVE  GenInv'
BY VisitBranchStep, VisitArmStep, ArmCondStep, VisitElseStep, LeaveArmStep, EndBranchStep
   DEF VisitIf

LEMMA VisitMatchStep ==
  ASSUME Unbounded, GenInv, VisitMatch
  PROVE  GenInv'
BY VisitSwitchStep, SwitchOnStep, VisitCaseStep, LeaveCaseStep, VisitDefaultStep, EndSwitchStep
   DEF VisitMatch

LEMMA VisitWhileStep ==
  ASSUME Unbounded, GenInv, VisitWhile
  PROVE  GenInv'
BY VisitLoopStep, LoopCondStep, LoopAgainStep DEF VisitWhile

LEMMA GenStep ==
  ASSUME Unbounded, GenInv, [GenNext]_genVars
  PROVE  GenInv'
<1>1. CASE UNCHANGED genVars
  BY <1>1 DEF genVars, GenInv, Typed, FuncTypeOK, Live
<1>2. CASE Generate
  BY <1>2, VisitExprStep, VisitSimpleStep, VisitIfStep, VisitMatchStep, VisitWhileStep, FinishStep
     DEF Generate
<1> QED
  BY <1>1, <1>2 DEF GenNext, Terminating

\* Whatever runs next, the current block ends with its only terminator or has none.
LEMMA ReadyContent ==
  ASSUME NEW s, NEW c, Ready(s, c)
  PROVE  Bare(c) \/ Closed(c)
BY DEF Ready, Returns

LEMMA EveryBlock ==
  ASSUME GenInv, NEW b \in Live
  PROVE  Bare(stmts[b]) \/ Closed(stmts[b])
<1> DEFINE first == IF todo = << >> THEN "closed" ELSE "open"
<1>1. /\ \A c \in Live \ {block, ALLOCA, MOVEREG} : Closed(stmts[c])
      /\ \A c \in {ALLOCA, MOVEREG} : IF first = "closed" THEN Closed(stmts[c]) ELSE Bare(stmts[c])
  BY DEF GenInv, Emitted
<1>2. Bare(stmts[block]) \/ Closed(stmts[block])
  BY ReadyContent DEF GenInv
<1> QED
  BY <1>1, <1>2

LEMMA OneTerminator ==
  ASSUME GenInv
  PROVE  NothingAfterTerminator
<1> SUFFICES ASSUME NEW b \in Live PROVE TerminatorsLast(b)
  BY DEF NothingAfterTerminator
<1>1. Bare(stmts[b]) \/ Closed(stmts[b])
  BY EveryBlock
<1> QED
  BY <1>1 DEF Bare, Closed, TerminatorsLast

\* Nothing waits once the stack is empty: there is no table left.
LEMMA NothingWaits ==
  ASSUME NEW j \in Tables, NEW b \in Tables, NEW c \in Tables, Stacked(<< >>, j, b, c)
  PROVE  Waiting(<< >>, j, b, c) = {}
<1>1. Len(j) = 0 /\ Len(b) = 0 /\ Len(c) = 0
  BY EmptyStack DEF Stacked
<1>2. j = << >> /\ b = << >> /\ c = << >>
  BY <1>1 DEF Tables
<1> QED
  BY <1>2, EmptyStack, TableEmpty DEF Waiting

LEMMA WellFormed ==
  ASSUME GenInv
  PROVE  FinishedWellFormed
<1> SUFFICES ASSUME todo = << >>
             PROVE  /\ \A b \in Live : Terminated(b) /\ TargetsLive(b)
                    /\ Preds(ControlFlow, Entry) = {}
  BY DEF FinishedWellFormed, Generated
<1> DEFINE ok == Known(<< >>, Live)
<1>1. /\ stmts \in Contents /\ Live \subseteq Labels /\ Entry = ALLOCA
      /\ Stacked(<< >>, jumpOut, breaks, continues)
      /\ jumpOut \in Tables /\ breaks \in Tables /\ continues \in Tables
      /\ Ready(<< >>, stmts[block])
  BY DEF GenInv, Typed, FuncTypeOK, Contents, Tables, Entry, Live, Range
<1>2. Emitted(stmts, "closed", Live, block, ok, Waiting(<< >>, jumpOut, breaks, continues),
              Switches(<< >>))
  BY DEF GenInv
<1>3. Waiting(<< >>, jumpOut, breaks, continues) = {}
  BY <1>1, NothingWaits
<1>4. ok = Live \ {ALLOCA}
  BY EmptyStack DEF Known
<1>5. \A b \in Labels : \A i \in DOMAIN stmts[b] : \A k \in DOMAIN stmts[b][i].to :
        stmts[b][i].to[k] \in Live /\ stmts[b][i].to[k] # ALLOCA
  BY <1>2, <1>3, <1>4 DEF Emitted, Aimed
<1>6. Closed(stmts[block])
  BY <1>1 DEF Ready
<1>7. \A b \in Live : Closed(stmts[b])
  <2> HIDE DEF ok
  <2>1. /\ \A b \in Live \ {block, ALLOCA, MOVEREG} : Closed(stmts[b])
        /\ \A b \in {ALLOCA, MOVEREG} : Closed(stmts[b])
    BY <1>2 DEF Emitted
  <2> QED
    BY <1>6, <2>1
<1>8. \A b \in Live : Terminated(b)
  BY <1>7 DEF Closed, Terminated, Back, TerminatorsLast
<1>9. \A b \in Live : TargetsLive(b)
  <2> SUFFICES ASSUME NEW b \in Live, NEW i \in DOMAIN stmts[b]
               PROVE  Range(stmts[b][i].to) \subseteq Live
    BY DEF TargetsLive
  <2> QED
    BY <1>1, <1>5 DEF Range
<1>10. Preds(ControlFlow, Entry) = {}
  <2> SUFFICES ASSUME NEW e \in ControlFlow, e.to = ALLOCA PROVE FALSE
    BY <1>1 DEF Preds
  <2>1. PICK b \in Live : e \in BlockEdges(b)
    BY DEF ControlFlow
  <2>2. PICK i \in DOMAIN stmts[b] : e \in StmtEdges(b, i)
    BY <2>1 DEF BlockEdges
  <2>3. PICK k \in DOMAIN stmts[b][i].to : e.to = stmts[b][i].to[k]
    BY <2>2 DEF StmtEdges
  <2> QED
    BY <1>1, <1>5, <2>3
<1> QED
  BY <1>8, <1>9, <1>10

-----------------------------------------------------------------------------
\* "ret instruction is the terminator instruction" (visit_mir_if): whatever
\* statements the function has, and however deep they are nested, no visitor adds
\* a statement behind a terminator.  label_gen never runs out of labels.
THEOREM NothingBehindRet ==
  ASSUME Labels = Nat
  PROVE  GenSpec => []NothingAfterTerminator
<1>1. GenInit => GenInv
  BY InitInv DEF Unbounded
<1>2. GenInv /\ [GenNext]_genVars => GenInv'
  BY GenStep DEF Unbounded
<1>3. GenInv => NothingAfterTerminator
  BY OneTerminator
<1> QED
  BY <1>1, <1>2, <1>3, PTL DEF GenSpec

\* The finished function is well formed: every block is closed, no br is left
\* without a target, and none leads back into the block that allocates.
THEOREM AllBranchesPatched ==
  ASSUME Labels = Nat
  PROVE  GenSpec => []FinishedWellFormed
<1>1. GenInit => GenInv
  BY InitInv DEF Unbounded
<1>2. GenInv /\ [GenNext]_genVars => GenInv'
  BY GenStep DEF Unbounded
<1>3. GenInv => FinishedWellFormed
  BY WellFormed
<1> QED
  BY <1>1, <1>2, <1>3, PTL DEF GenSpec
=============================================================================
