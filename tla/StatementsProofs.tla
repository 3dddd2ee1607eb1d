-------------------------- MODULE StatementsProofs --------------------------
(***************************************************************************)
(* Proofs about Statements, for functions of any size and nesting.         *)
(*                                                                         *)
(* Three counters and two tables follow the open statements: each pass     *)
(* counts up where it enters a statement and down where it leaves it, and  *)
(* what it entered depends on the errors and jumps there were at that      *)
(* moment, not on those there are when it leaves.  The invariant says that *)
(* every frame accounts for what it entered.                               *)
(***************************************************************************)
EXTENDS Statements, FiniteSetTheorems, SequenceTheorems, WellFoundedInduction, TLAPS

Loops == {"while", "for", "forindex", "foreach"}
Twofold == {"for", "forindex", "foreach"}
Arms == {"arm", "else", "case"}
Kinds == {"impl", "func", "cond", "match"} \cup Arms \cup Loops
Frames ==
  [kind: Kinds, sema: BOOLEAN, mir: BOOLEAN, over: BOOLEAN, shut: BOOLEAN,
   ret: BOOLEAN, void: BOOLEAN, cases: Seq(Labels \cup {Default, Unknown})]
Table == UNION {[D -> Int] : D \in SUBSET Names}

\* The type of every variable the invariant is about.
Typed ==
  /\ open \in Seq(Frames)
  /\ scopes \in Seq(Table) /\ locals \in Seq(Table)
  /\ inLoop \in Int /\ loops \in Int /\ tokens \in Nat
  /\ errors \in BOOLEAN

\* How many frames of s are in the set S.
Count(s, S) == Cardinality({i \in DOMAIN s : s[i] \in S})

\* The frames for which the analysis opened a scope, a second one, and entered
\* a loop; then those of the generator.
SemaOne == {f \in Frames : f.sema /\ f.kind \in {"func"} \cup Arms \cup Loops}
SemaTwo == {f \in Frames : f.sema /\ f.kind \in Twofold}
SemaLoop == {f \in Frames : f.sema /\ f.kind \in Loops}
GenOne == {f \in Frames : f.mir /\ f.kind \in {"func"} \cup Arms \cup Loops}
GenTwo == {f \in Frames : f.mir /\ f.kind \in {"func"} \cup Twofold}
GenLoop == {f \in Frames : f.mir /\ f.kind \in Loops}

\* The counters sc, lo, il, lp are accounted for by the frames of o.
Balanced(o, sc, lo, il, lp) ==
  /\ sc = Count(o, SemaOne) + Count(o, SemaTwo)
  /\ lo = Count(o, GenOne) + Count(o, GenTwo)
  /\ il = Count(o, SemaLoop)
  /\ lp = Count(o, GenLoop)

LoopIn(o, n) == \E j \in 1..n : o[j].mir /\ o[j].kind \in Loops

\* How frames can stand on one another: while there is no error the generator
\* has entered all that the analysis has, and what it has entered alone is in a
\* loop it has entered.
Nested(o, err) ==
  \A i \in DOMAIN o :
    /\ o[i].kind = "else" => i > 1 /\ o[i - 1].kind = "cond"
    /\ o[i].kind = "impl" => i = 1
    /\ o[i].kind = "func" => o[i].sema
    /\ ~err /\ o[i].sema => o[i].mir
    /\ ~err /\ o[i].mir /\ ~o[i].sema => LoopIn(o, i)

IInv ==
  /\ Typed
  /\ Balanced(open, Len(scopes), Len(locals), inLoop, loops)
  /\ Nested(open, errors)
  /\ JumpsHaveLoops

-----------------------------------------------------------------------------
(***************************************************************************)
(* Counting frames.                                                        *)
(***************************************************************************)
LEMMA CountType ==
  ASSUME NEW F, NEW s \in Seq(F), NEW S
  PROVE  Count(s, S) \in Nat /\ IsFiniteSet({i \in DOMAIN s : s[i] \in S})
<1>1. IsFiniteSet(1..Len(s)) /\ DOMAIN s = 1..Len(s)
  BY FS_Interval
<1>2. IsFiniteSet({i \in DOMAIN s : s[i] \in S})
  BY <1>1, FS_Subset
<1> QED
  BY <1>2, FS_CardinalityType DEF Count

LEMMA CountNone ==
  ASSUME NEW S
  PROVE  Count(<< >>, S) = 0
<1>1. {i \in DOMAIN << >> : << >>[i] \in S} = {}
  OBVIOUS
<1> QED
  BY <1>1, FS_EmptySet DEF Count

\* A frame more.
LEMMA CountAppend ==
  ASSUME NEW F, NEW s \in Seq(F), NEW f \in F, NEW S
  PROVE  Count(Append(s, f), S) = Count(s, S) + (IF f \in S THEN 1 ELSE 0)
<1> DEFINE I == {i \in DOMAIN s : s[i] \in S}
           t == Append(s, f)
           J == {i \in DOMAIN t : t[i] \in S}
<1>1. /\ DOMAIN s = 1..Len(s) /\ Len(s) \in Nat /\ DOMAIN t = 1..(Len(s) + 1)
      /\ \A i \in 1..Len(s) : t[i] = s[i]
      /\ t[Len(s) + 1] = f
  OBVIOUS
<1>2. IsFiniteSet(I) /\ Count(s, S) = Cardinality(I)
  BY CountType DEF Count
<1>3. Count(t, S) = Cardinality(J)
  BY DEF Count
<1> HIDE DEF t
<1>4. CASE f \in S
  <2>1. J = I \cup {Len(s) + 1} /\ Len(s) + 1 \notin I
    BY <1>1, <1>4
  <2> HIDE DEF I, J
  <2>2. Cardinality(J) = Cardinality(I) + 1
    BY <1>2, <2>1, FS_AddElement
  <2> QED
    BY <1>2, <1>3, <1>4, <2>2 DEF t
<1>5. CASE f \notin S
  <2>1. J = I
    BY <1>1, <1>5
  <2>2. Count(s, S) \in Nat
    BY CountType
  <2>3. Count(t, S) = Count(s, S)
    BY <1>2, <1>3, <2>1
  <2> HIDE DEF I, J
  <2> QED
    BY <1>5, <2>2, <2>3 DEF t
<1> QED
  BY <1>4, <1>5

\* The beginning of a sequence.
LEMMA Prefix ==
  ASSUME NEW F, NEW s \in Seq(F), NEW n \in 0..Len(s)
  PROVE  /\ SubSeq(s, 1, n) \in Seq(F) /\ Len(SubSeq(s, 1, n)) = n
         /\ \A i \in 1..n : SubSeq(s, 1, n)[i] = s[i]
<1>1. n \in Int /\ \A i \in 1..n : s[i] \in F
  OBVIOUS
<1>2. /\ SubSeq(s, 1, n) \in Seq(F)
      /\ Len(SubSeq(s, 1, n)) = IF 1 <= n THEN n - 1 + 1 ELSE 0
      /\ \A i \in 1..n - 1 + 1 : SubSeq(s, 1, n)[i] = s[1 + i - 1]
  BY <1>1, SubSeqProperties
<1> QED
  BY <1>1, <1>2

\* The last frame fewer.
LEMMA FrontAppend ==
  ASSUME NEW F, NEW s \in Seq(F), s # << >>
  PROVE  /\ Front(s) \in Seq(F) /\ Last(s) \in F /\ s = Append(Front(s), Last(s))
         /\ Len(Front(s)) = Len(s) - 1 /\ Len(s) \in Nat /\ Len(s) > 0
         /\ \A i \in 1..Len(s) - 1 : Front(s)[i] = s[i]
         /\ Last(s) = s[Len(s)]
<1>1. Len(s) \in Nat /\ Len(s) > 0 /\ Len(s) - 1 \in 0..Len(s)
  BY EmptySeq
<1>2. Front(s) = SubSeq(s, 1, Len(s) - 1)
  BY DEF Front
<1>3. Front(s) \in Seq(F) /\ Len(Front(s)) = Len(s) - 1
  BY <1>1, <1>2, Prefix
<1>4. \A i \in 1..Len(s) - 1 : Front(s)[i] = s[i]
  BY <1>1, <1>2, Prefix
<1>5. Last(s) = s[Len(s)] /\ Last(s) \in F
  BY <1>1 DEF Last
<1> DEFINE t == Append(Front(s), Last(s))
<1>6. t \in Seq(F) /\ Len(t) = Len(s) /\ \A i \in 1..Len(s) : t[i] = s[i]
  BY <1>1, <1>3, <1>4, <1>5
<1>7. s = t
  BY <1>6, SeqEqual
<1> QED
  BY <1>1, <1>3, <1>4, <1>5, <1>7

LEMMA CountFront ==
  ASSUME NEW F, NEW s \in Seq(F), s # << >>, NEW S
  PROVE  Count(s, S) = Count(Front(s), S) + (IF Last(s) \in S THEN 1 ELSE 0)
<1>1. /\ Front(s) \in Seq(F) /\ Last(s) \in F
      /\ s = Append(Front(s), Last(s))
  BY FrontAppend
<1>2. Count(Append(Front(s), Last(s)), S)
        = Count(Front(s), S) + (IF Last(s) \in S THEN 1 ELSE 0)
  BY <1>1, CountAppend
<1> QED
  BY <1>1, <1>2

\* A change that keeps every frame inside or outside S.
LEMMA CountSame ==
  ASSUME NEW s, NEW t, NEW S, DOMAIN s = DOMAIN t,
         \A i \in DOMAIN s : s[i] \in S <=> t[i] \in S
  PROVE  Count(s, S) = Count(t, S)
<1>1. {i \in DOMAIN s : s[i] \in S} = {i \in DOMAIN t : t[i] \in S}
  OBVIOUS
<1> QED
  BY <1>1 DEF Count

LEMMA CountSome ==
  ASSUME NEW F, NEW s \in Seq(F), NEW S
  PROVE  Count(s, S) > 0 <=> \E i \in DOMAIN s : s[i] \in S
<1> DEFINE I == {i \in DOMAIN s : s[i] \in S}
<1>1. IsFiniteSet(I) /\ Count(s, S) = Cardinality(I) /\ Count(s, S) \in Nat
  BY CountType DEF Count
<1>2. Cardinality(I) = 0 <=> I = {}
  BY <1>1, FS_EmptySet
<1> QED
  BY <1>1, <1>2

-----------------------------------------------------------------------------
(***************************************************************************)
(* What opening and closing a statement does to the counters.              *)
(***************************************************************************)
SemaLevels(kind) ==
  IF kind \in Twofold THEN 2 ELSE IF kind \in {"func", "while"} \cup Arms THEN 1 ELSE 0
GenLevels(kind) ==
  IF kind \in {"func"} \cup Twofold THEN 2 ELSE IF kind \in {"while"} \cup Arms THEN 1 ELSE 0
LoopLevels(kind) == IF kind \in Loops THEN 1 ELSE 0
If(entered, n) == IF entered THEN n ELSE 0
Weight(f, S) == IF f \in S THEN 1 ELSE 0

LEMMA Weights ==
  ASSUME NEW f \in Frames
  PROVE  /\ Weight(f, SemaOne) + Weight(f, SemaTwo) = If(f.sema, SemaLevels(f.kind))
         /\ Weight(f, GenOne) + Weight(f, GenTwo) = If(f.mir, GenLevels(f.kind))
         /\ Weight(f, SemaLoop) = If(f.sema, LoopLevels(f.kind))
         /\ Weight(f, GenLoop) = If(f.mir, LoopLevels(f.kind))
<1>1. /\ f \in SemaOne <=> f.sema /\ f.kind \in {"func"} \cup Arms \cup Loops
      /\ f \in SemaTwo <=> f.sema /\ f.kind \in Twofold
      /\ f \in SemaLoop <=> f.sema /\ f.kind \in Loops
      /\ f \in GenOne <=> f.mir /\ f.kind \in {"func"} \cup Arms \cup Loops
      /\ f \in GenTwo <=> f.mir /\ f.kind \in {"func"} \cup Twofold
      /\ f \in GenLoop <=> f.mir /\ f.kind \in Loops
  BY DEF SemaOne, SemaTwo, SemaLoop, GenOne, GenTwo, GenLoop
<1> QED
  BY <1>1 DEF Weight, If, SemaLevels, GenLevels, LoopLevels, Twofold, Loops, Arms

\* Two counts and what is added to them, in the order of Balanced.
LEMMA Rearrange ==
  ASSUME NEW a \in Nat, NEW b \in Nat, NEW v \in Nat, NEW w \in Nat
  PROVE  (a + v) + (b + w) = (a + b) + (v + w)
  OBVIOUS

\* A frame more adds its weight to each of two counts.
LEMMA TwoCounts ==
  ASSUME NEW o \in Seq(Frames), NEW f \in Frames, NEW S, NEW T
  PROVE  Count(Append(o, f), S) + Count(Append(o, f), T)
           = (Count(o, S) + Count(o, T)) + (Weight(f, S) + Weight(f, T))
<1>1. /\ Count(Append(o, f), S) = Count(o, S) + Weight(f, S)
      /\ Count(Append(o, f), T) = Count(o, T) + Weight(f, T)
  BY CountAppend DEF Weight
<1>2. Count(o, S) \in Nat /\ Count(o, T) \in Nat
  BY CountType
<1>3. Weight(f, S) \in Nat /\ Weight(f, T) \in Nat
  BY DEF Weight
<1>4. (Count(o, S) + Weight(f, S)) + (Count(o, T) + Weight(f, T))
        = (Count(o, S) + Count(o, T)) + (Weight(f, S) + Weight(f, T))
  BY <1>2, <1>3, Rearrange
<1> QED
  BY <1>1, <1>4

LEMMA PushBalanced ==
  ASSUME NEW o \in Seq(Frames), NEW f \in Frames, NEW sc, NEW lo, NEW il, NEW lp,
         Balanced(o, sc, lo, il, lp)
  PROVE  Balanced(Append(o, f),
                  sc + If(f.sema, SemaLevels(f.kind)), lo + If(f.mir, GenLevels(f.kind)),
                  il + If(f.sema, LoopLevels(f.kind)), lp + If(f.mir, LoopLevels(f.kind)))
<1>1. /\ Count(Append(o, f), SemaOne) + Count(Append(o, f), SemaTwo)
           = sc + (Weight(f, SemaOne) + Weight(f, SemaTwo))
      /\ Count(Append(o, f), GenOne) + Count(Append(o, f), GenTwo)
           = lo + (Weight(f, GenOne) + Weight(f, GenTwo))
  BY TwoCounts DEF Balanced
<1>2. /\ Count(Append(o, f), SemaLoop) = il + Weight(f, SemaLoop)
      /\ Count(Append(o, f), GenLoop) = lp + Weight(f, GenLoop)
  BY CountAppend DEF Weight, Balanced
<1> QED
  BY <1>1, <1>2, Weights DEF Balanced

\* What was added can be taken away.
LEMMA Subtract ==
  ASSUME NEW a \in Nat, NEW b \in Nat
  PROVE  (a + b) - b = a
  OBVIOUS

\* The last frame away takes its weight from each of two counts.
LEMMA TwoCountsLess ==
  ASSUME NEW o \in Seq(Frames), o # << >>, NEW S, NEW T
  PROVE  LET f == Last(o) IN
         /\ (Count(o, S) + Count(o, T)) - (Weight(f, S) + Weight(f, T))
              = Count(Front(o), S) + Count(Front(o), T)
         /\ Count(Front(o), S) + Count(Front(o), T) \in Nat
<1> DEFINE f == Last(o)
           a == Count(Front(o), S)
           b == Count(Front(o), T)
           v == Weight(f, S)
           w == Weight(f, T)
<1>1. f \in Frames /\ Front(o) \in Seq(Frames)
  BY FrontAppend
<1>2. Count(o, S) = a + v /\ Count(o, T) = b + w
  BY CountFront DEF Weight
<1>3. a \in Nat /\ b \in Nat
  BY <1>1, CountType
<1>4. v \in Nat /\ w \in Nat
  BY DEF Weight
<1> HIDE DEF a, b, v, w
<1>5. (a + v) + (b + w) = (a + b) + (v + w)
  BY <1>3, <1>4, Rearrange
<1>6. a + b \in Nat /\ v + w \in Nat
  BY <1>3, <1>4
<1>7. ((a + b) + (v + w)) - (v + w) = a + b
  BY <1>6, Subtract
<1> QED
  BY <1>2, <1>5, <1>6, <1>7 DEF a, b, v, w

LEMMA OneCountLess ==
  ASSUME NEW o \in Seq(Frames), o # << >>, NEW S
  PROVE  Count(o, S) - Weight(Last(o), S) = Count(Front(o), S)
<1>1. Last(o) \in Frames /\ Front(o) \in Seq(Frames)
  BY FrontAppend
<1>2. Count(o, S) = Count(Front(o), S) + Weight(Last(o), S)
  BY CountFront DEF Weight
<1>3. Count(Front(o), S) \in Nat
  BY <1>1, CountType
<1>4. Weight(Last(o), S) \in Nat
  BY DEF Weight
<1>5. (Count(Front(o), S) + Weight(Last(o), S)) - Weight(Last(o), S) = Count(Front(o), S)
  BY <1>3, <1>4, Subtract
<1> QED
  BY <1>2, <1>5

LEMMA PopBalanced ==
  ASSUME NEW o \in Seq(Frames), o # << >>, NEW f, f = Last(o),
         NEW sc, NEW lo, NEW il, NEW lp, Balanced(o, sc, lo, il, lp)
  PROVE  /\ sc - If(f.sema, SemaLevels(f.kind)) \in Nat
         /\ lo - If(f.mir, GenLevels(f.kind)) \in Nat
         /\ Balanced(Front(o),
                     sc - If(f.sema, SemaLevels(f.kind)), lo - If(f.mir, GenLevels(f.kind)),
                     il - If(f.sema, LoopLevels(f.kind)), lp - If(f.mir, LoopLevels(f.kind)))
<1>1. f \in Frames
  BY FrontAppend
<1>2. /\ Weight(f, SemaOne) + Weight(f, SemaTwo) = If(f.sema, SemaLevels(f.kind))
      /\ Weight(f, GenOne) + Weight(f, GenTwo) = If(f.mir, GenLevels(f.kind))
      /\ Weight(f, SemaLoop) = If(f.sema, LoopLevels(f.kind))
      /\ Weight(f, GenLoop) = If(f.mir, LoopLevels(f.kind))
  BY <1>1, Weights
<1>3. /\ sc - (Weight(f, SemaOne) + Weight(f, SemaTwo))
           = Count(Front(o), SemaOne) + Count(Front(o), SemaTwo)
      /\ Count(Front(o), SemaOne) + Count(Front(o), SemaTwo) \in Nat
  BY TwoCountsLess DEF Balanced
<1>4. /\ lo - (Weight(f, GenOne) + Weight(f, GenTwo))
           = Count(Front(o), GenOne) + Count(Front(o), GenTwo)
      /\ Count(Front(o), GenOne) + Count(Front(o), GenTwo) \in Nat
  BY TwoCountsLess DEF Balanced
<1>5. /\ il - Weight(f, SemaLoop) = Count(Front(o), SemaLoop)
      /\ lp - Weight(f, GenLoop) = Count(Front(o), GenLoop)
  BY OneCountLess DEF Balanced
<1> QED
  BY <1>2, <1>3, <1>4, <1>5 DEF Balanced

\* Changes of a frame that leave its kind and who entered it.
Alike(o, t) ==
  /\ DOMAIN o = DOMAIN t
  /\ \A i \in DOMAIN o : o[i].kind = t[i].kind /\ o[i].sema = t[i].sema /\ o[i].mir = t[i].mir

LEMMA AlikeBalanced ==
  ASSUME NEW o \in Seq(Frames), NEW t \in Seq(Frames), Alike(o, t),
         NEW sc, NEW lo, NEW il, NEW lp, Balanced(o, sc, lo, il, lp)
  PROVE  Balanced(t, sc, lo, il, lp)
<1>1. \A i \in DOMAIN o : o[i] \in Frames /\ t[i] \in Frames
  BY DEF Alike
<1>2. \A S \in {SemaOne, SemaTwo, SemaLoop, GenOne, GenTwo, GenLoop} :
        \A i \in DOMAIN o : o[i] \in S <=> t[i] \in S
  BY <1>1 DEF Alike, SemaOne, SemaTwo, SemaLoop, GenOne, GenTwo, GenLoop
<1>3. \A S \in {SemaOne, SemaTwo, SemaLoop, GenOne, GenTwo, GenLoop} : Count(o, S) = Count(t, S)
  BY <1>2, CountSame DEF Alike
<1> QED
  BY <1>3 DEF Balanced

-----------------------------------------------------------------------------
(***************************************************************************)
(* How frames stand on one another.                                        *)
(***************************************************************************)
\* f may be put on o.
MayStand(o, f, err) ==
  /\ f.kind = "else" => o # << >> /\ Last(o).kind = "cond"
  /\ f.kind = "impl" => o = << >>
  /\ f.kind = "func" => f.sema
  /\ ~err /\ f.sema => f.mir
  /\ ~err /\ f.mir /\ ~f.sema => LoopIn(o, Len(o))

LEMMA PushNested ==
  ASSUME NEW o \in Seq(Frames), NEW f \in Frames, NEW err \in BOOLEAN, NEW later \in BOOLEAN,
         Nested(o, err), err => later, MayStand(o, f, later)
  PROVE  Nested(Append(o, f), later)
<1> DEFINE t == Append(o, f)
<1>1. /\ DOMAIN o = 1..Len(o) /\ Len(o) \in Nat /\ DOMAIN t = 1..(Len(o) + 1)
      /\ \A i \in 1..Len(o) : t[i] = o[i]
      /\ t[Len(o) + 1] = f
  OBVIOUS
<1>2. o # << >> => Len(o) > 0 /\ Last(o) = o[Len(o)]
  BY <1>1, EmptySeq DEF Last
<1> HIDE DEF t
<1>3. \A i \in 1..Len(o) : LoopIn(o, i) => LoopIn(t, i)
  BY <1>1 DEF LoopIn
<1>4. LoopIn(o, Len(o)) => LoopIn(t, Len(o) + 1)
  BY <1>1 DEF LoopIn
<1>5. ASSUME NEW i \in DOMAIN t
      PROVE  /\ t[i].kind = "else" => i > 1 /\ t[i - 1].kind = "cond"
             /\ t[i].kind = "impl" => i = 1
             /\ t[i].kind = "func" => t[i].sema
             /\ ~later /\ t[i].sema => t[i].mir
             /\ ~later /\ t[i].mir /\ ~t[i].sema => LoopIn(t, i)
  <2>1. CASE i \in 1..Len(o)
    <3>1. t[i] = o[i] /\ (i > 1 => t[i - 1] = o[i - 1]) /\ i \in DOMAIN o
      BY <1>1, <2>1
    <3> QED
      BY <1>3, <2>1, <3>1 DEF Nested
  <2>2. CASE i = Len(o) + 1
    <3>1. t[i] = f /\ (i > 1 => t[i - 1] = o[i - 1])
      BY <1>1, <2>2
    <3>2. o = << >> => Len(o) = 0
      OBVIOUS
    <3> QED
      BY <1>1, <1>2, <1>4, <2>2, <3>1, <3>2 DEF MayStand
  <2> QED
    BY <1>1, <2>1, <2>2
<1> QED
  BY <1>5 DEF Nested, t

LEMMA PopNested ==
  ASSUME NEW o \in Seq(Frames), o # << >>, NEW err \in BOOLEAN, NEW later \in BOOLEAN,
         Nested(o, err), err => later
  PROVE  Nested(Front(o), later)
<1> DEFINE t == Front(o)
<1>1. /\ DOMAIN o = 1..Len(o) /\ Len(o) \in Nat /\ t \in Seq(Frames) /\ Len(t) = Len(o) - 1
      /\ \A i \in 1..Len(o) - 1 : t[i] = o[i]
  BY FrontAppend
<1>2. DOMAIN t = 1..Len(o) - 1
  BY <1>1
<1> HIDE DEF t
<1>3. \A i \in DOMAIN t : i \in DOMAIN o /\ t[i] = o[i] /\ (i > 1 => t[i - 1] = o[i - 1])
  BY <1>1, <1>2
<1>4. \A i \in DOMAIN t : LoopIn(o, i) => LoopIn(t, i)
  BY <1>1, <1>2 DEF LoopIn
<1>5. Nested(t, later)
  BY <1>3, <1>4 DEF Nested
<1> QED
  BY <1>5 DEF t

LEMMA AlikeNested ==
  ASSUME NEW o \in Seq(Frames), NEW t \in Seq(Frames), Alike(o, t),
         NEW err \in BOOLEAN, NEW later \in BOOLEAN, Nested(o, err), err => later
  PROVE  Nested(t, later)
<1>1. DOMAIN o = 1..Len(o) /\ Len(o) \in Nat /\ DOMAIN t = DOMAIN o
  BY DEF Alike
<1>2. \A i \in DOMAIN t : LoopIn(o, i) => LoopIn(t, i)
  BY <1>1 DEF LoopIn, Alike
<1>3. \A i \in DOMAIN t : i > 1 => i - 1 \in DOMAIN o
  BY <1>1
<1> QED
  BY <1>1, <1>2, <1>3 DEF Nested, Alike

\* A statement that is translated and was not resolved is in a loop that is
\* translated.
LEMMA UnresolvedInLoop ==
  ASSUME IInv, open # << >>, Translated, ~Resolved
  PROVE  LoopIn(open, Len(open))
<1>1. Len(open) \in DOMAIN open /\ Len(open) > 0 /\ Here = open[Len(open)] /\ Here \in Frames
  BY FrontAppend DEF IInv, Typed, Here, Last
<1>2. CASE Here.sema
  <2>1. Here.kind \in {"forindex", "foreach"} /\ Here.mir
    BY <1>2 DEF Translated, Resolved, StopsAtJump
  <2> QED
    BY <1>1, <2>1 DEF LoopIn, Loops
<1>3. CASE ~Here.sema
  BY <1>1, <1>3 DEF IInv, Nested, Translated
<1> QED
  BY <1>2, <1>3

-----------------------------------------------------------------------------
(***************************************************************************)
(* The three ways a step changes the open statements.                      *)
(***************************************************************************)
\* What every step keeps besides.
Sound ==
  /\ errors' \in BOOLEAN /\ (errors => errors') /\ tokens' \in Nat
  /\ scopes' \in Seq(Table) /\ locals' \in Seq(Table)
  /\ "no loop" \notin wrong'

Counted(o) == Balanced(o, Len(scopes), Len(locals), inLoop, loops)

LEMMA Opening ==
  ASSUME Typed, NEW o \in Seq(Frames), NEW f \in Frames, Counted(o), Nested(o, errors),
         open' = Append(o, f), MayStand(o, f, errors'), Sound,
         Len(scopes') = Len(scopes) + If(f.sema, SemaLevels(f.kind)),
         Len(locals') = Len(locals) + If(f.mir, GenLevels(f.kind)),
         inLoop' = inLoop + If(f.sema, LoopLevels(f.kind)),
         loops' = loops + If(f.mir, LoopLevels(f.kind))
  PROVE  IInv'
<1>1. open' \in Seq(Frames) /\ inLoop' \in Int /\ loops' \in Int
  BY DEF Typed, If, LoopLevels
<1>2. Nested(open', errors')
  BY PushNested DEF Typed, Sound
<1>3. Balanced(open', Len(scopes'), Len(locals'), inLoop', loops')
  BY PushBalanced DEF Counted
<1> QED
  BY <1>1, <1>2, <1>3 DEF IInv, Typed, Sound, JumpsHaveLoops

LEMMA Closing ==
  ASSUME IInv, open # << >>, open' = Front(open), Sound,
         Len(scopes') = Len(scopes) - If(Here.sema, SemaLevels(Here.kind)),
         Len(locals') = Len(locals) - If(Here.mir, GenLevels(Here.kind)),
         inLoop' = inLoop - If(Here.sema, LoopLevels(Here.kind)),
         loops' = loops - If(Here.mir, LoopLevels(Here.kind))
  PROVE  IInv'
<1>1. open \in Seq(Frames) /\ Front(open) \in Seq(Frames) /\ Here = Last(open)
  BY FrontAppend DEF IInv, Typed, Here
<1>2. inLoop' \in Int /\ loops' \in Int
  BY DEF IInv, Typed, If, LoopLevels
<1>3. Nested(open', errors')
  BY <1>1, PopNested DEF IInv, Typed, Sound
<1>4. Balanced(open', Len(scopes'), Len(locals'), inLoop', loops')
  BY <1>1, PopBalanced DEF IInv
<1> QED
  BY <1>1, <1>2, <1>3, <1>4 DEF IInv, Typed, Sound, JumpsHaveLoops

LEMMA Staying ==
  ASSUME IInv, open' \in Seq(Frames), Alike(open, open'), Sound,
         Len(scopes') = Len(scopes), Len(locals') = Len(locals),
         inLoop' = inLoop, loops' = loops
  PROVE  IInv'
<1>1. Nested(open', errors')
  <2>1. /\ open \in Seq(Frames) /\ errors \in BOOLEAN /\ errors' \in BOOLEAN
        /\ Nested(open, errors) /\ (errors => errors')
    BY DEF IInv, Typed, Sound
  <2> QED
    BY <2>1, AlikeNested
<1>2. Balanced(open', Len(scopes'), Len(locals'), inLoop', loops')
  BY AlikeBalanced DEF IInv, Typed
<1> QED
  BY <1>1, <1>2 DEF IInv, Typed, Sound, JumpsHaveLoops

-----------------------------------------------------------------------------
(***************************************************************************)
(* The tables, and what all statements have in common.                     *)
(***************************************************************************)
LEMMA LevelTypes ==
  /\ Empty \in Table
  /\ \A xs \in SUBSET Names : Params(xs) \in Table
<1>1. ASSUME NEW D \in SUBSET Names, NEW g \in [D -> Int]
      PROVE  g \in Table
  BY DEF Table
<1>2. \A xs \in SUBSET Names : Params(xs) \in [xs -> Int]
  BY DEF Params
<1>3. Empty \in [{} -> Int]
  BY DEF Empty
<1> QED
  BY <1>1, <1>2, <1>3

LEMMA AddType ==
  ASSUME NEW t \in Seq(Table), NEW x \in Names, NEW d \in Int
  PROVE  Add(t, x, d) \in Seq(Table) /\ Len(Add(t, x, d)) = Len(t)
<1> DEFINE more(g) == [y \in DOMAIN g \cup {x} |-> IF y \in DOMAIN g THEN g[y] ELSE d]
<1>1. Add(t, x, d) = [i \in DOMAIN t |-> IF i = Len(t) THEN more(t[i]) ELSE t[i]]
  BY DEF Add
<1>2. ASSUME NEW g \in Table
      PROVE  more(g) \in Table
  <2>1. PICK D \in SUBSET Names : g \in [D -> Int]
    BY DEF Table
  <2>2. more(g) \in [D \cup {x} -> Int] /\ D \cup {x} \in SUBSET Names
    BY <2>1
  <2> QED
    BY <2>2 DEF Table
<1> HIDE DEF more
<1>3. \A i \in DOMAIN t : t[i] \in Table
  OBVIOUS
<1> QED
  BY <1>1, <1>2, <1>3

LEMMA DefinedType ==
  ASSUME NEW t \in Seq(Table), NEW x \in Names, tokens \in Nat
  PROVE  Defined(t, x) \in Seq(Table) /\ Len(Defined(t, x)) = Len(t)
BY AddType DEF Defined

LEMMA LevelMore ==
  ASSUME NEW t \in Seq(Table)
  PROVE  /\ PushLevel(t) \in Seq(Table) /\ Len(PushLevel(t)) = Len(t) + 1
         /\ t \o [i \in 1..1 |-> Empty] \in Seq(Table)
         /\ Len(t \o [i \in 1..1 |-> Empty]) = Len(t) + 1
<1>1. PushLevel(t) \in Seq(Table) /\ Len(PushLevel(t)) = Len(t) + 1
  BY LevelTypes DEF PushLevel
<1>2. [i \in 1..1 |-> Empty] \in Seq(Table) /\ Len([i \in 1..1 |-> Empty]) = 1
  BY LevelTypes
<1> QED
  BY <1>1, <1>2, ConcatProperties

LEMMA LevelsFewer ==
  ASSUME NEW t \in Seq(Table), NEW n \in Nat, Len(t) - n \in Nat
  PROVE  /\ SubSeq(t, 1, Len(t) - n) \in Seq(Table)
         /\ Len(SubSeq(t, 1, Len(t) - n)) = Len(t) - n
<1>1. Len(t) - n \in 0..Len(t)
  OBVIOUS
<1> QED
  BY <1>1, Prefix

LEMMA FrameType ==
  ASSUME NEW kind \in Kinds, NEW sema \in BOOLEAN, NEW mir \in BOOLEAN
  PROVE  /\ Frame(kind, sema, mir) \in Frames
         /\ Frame(kind, sema, mir).kind = kind
         /\ Frame(kind, sema, mir).sema = sema
         /\ Frame(kind, sema, mir).mir = mir
BY DEF Frame, Frames

LEMMA HereType ==
  ASSUME IInv, open # << >>
  PROVE  /\ Here \in Frames /\ Here = open[Len(open)] /\ Len(open) \in DOMAIN open
         /\ Resolved \in BOOLEAN /\ Translated \in BOOLEAN
<1>1. Here \in Frames /\ Here = open[Len(open)] /\ Len(open) \in DOMAIN open
  BY FrontAppend DEF IInv, Typed, Here
<1> QED
  BY <1>1 DEF Resolved, Translated, Frames

\* o begins with the open statements, as far as the loops go.
Extends(o) ==
  /\ Len(o) \in Nat /\ Len(open) <= Len(o)
  /\ \A j \in 1..Len(open) : o[j].mir = open[j].mir /\ o[j].kind = open[j].kind

\* The blocks of a statement stand where the statement does.
LEMMA InnerStands ==
  ASSUME IInv, open # << >>, NEW err \in BOOLEAN, errors => err, NEW o, Extends(o),
         NEW kind \in Kinds \ {"impl", "func"},
         kind = "else" => o # << >> /\ Last(o).kind = "cond"
  PROVE  /\ Inner(kind) \in Frames /\ MayStand(o, Inner(kind), err)
         /\ Inner(kind).kind = kind
         /\ Inner(kind).sema = Resolved /\ Inner(kind).mir = Translated
<1>1. /\ Inner(kind) \in Frames /\ Inner(kind).kind = kind
      /\ Inner(kind).sema = Resolved /\ Inner(kind).mir = Translated
  BY HereType, FrameType DEF Inner
<1>2. ~err /\ Resolved => Translated
  BY HereType DEF Resolved, Translated, IInv, Nested
<1>3. ~err /\ Translated /\ ~Resolved => LoopIn(o, Len(o))
  <2>1. LoopIn(open, Len(open)) => LoopIn(o, Len(o))
    <3>1. Len(open) \in Nat
      BY DEF IInv, Typed
    <3> QED
      BY <3>1 DEF LoopIn, Extends
  <2> QED
    BY <2>1, UnresolvedInLoop
<1> QED
  BY <1>1, <1>2, <1>3 DEF MayStand

LEMMA BadOf ==
  ASSUME NEW sema, NEW gen, NEW es
  PROVE  "no loop" \notin Bad(sema, gen, es)
<1>1. \A e : "no loop" \notin Misread(sema, gen, e)
  BY DEF Misread
<1> QED
  BY <1>1 DEF Bad

LEMMA NextNatural == \A n \in Nat : n + 1 \in Nat
OBVIOUS

LEMMA WalkParts ==
  ASSUME Typed, NEW err, NEW bad, Walk(err, bad)
  PROVE  errors' \in BOOLEAN /\ (errors => errors') /\ tokens' \in Nat
<1>1. errors' \in BOOLEAN /\ (errors => errors')
  BY DEF Walk
<1>2. tokens' \in Nat
  <2>1. tokens' = tokens + 1
    BY DEF Walk
  <2>2. tokens \in Nat
    BY DEF Typed
  <2> QED
    BY <2>1, <2>2, NextNatural
<1> QED
  BY <1>1, <1>2

LEMMA WalkSound ==
  ASSUME Typed, NEW err, NEW bad, Walk(err, bad), "no loop" \notin bad
  PROVE  /\ errors' \in BOOLEAN /\ (errors => errors') /\ tokens' \in Nat
         /\ "no loop" \notin wrong'
<1>1. "no loop" \notin wrong'
  BY DEF Walk
<1> QED
  BY <1>1, WalkParts

\* What leaving a statement may take is there.
LEMMA Room ==
  ASSUME IInv, open # << >>
  PROVE  /\ Len(scopes) - If(Here.sema, SemaLevels(Here.kind)) \in Nat
         /\ Len(locals) - If(Here.mir, GenLevels(Here.kind)) \in Nat
<1>1. open \in Seq(Frames) /\ Here = Last(open)
  BY DEF IInv, Typed, Here
<1> QED
  BY <1>1, PopBalanced DEF IInv

LEMMA Left ==
  ASSUME IInv, open # << >>, NEW n \in Nat, Leave(n),
         SemaLevels(Here.kind) = n, GenLevels(Here.kind) = n
  PROVE  /\ scopes' \in Seq(Table) /\ Len(scopes') = Len(scopes) - If(Here.sema, n)
         /\ locals' \in Seq(Table) /\ Len(locals') = Len(locals) - If(Here.mir, n)
<1>1. /\ Len(scopes) - If(Here.sema, n) \in Nat /\ scopes \in Seq(Table)
      /\ Len(locals) - If(Here.mir, n) \in Nat /\ locals \in Seq(Table)
  BY Room DEF IInv, Typed
<1>2. Here.sema \in BOOLEAN /\ Here.mir \in BOOLEAN
  BY HereType DEF Frames
<1>3. scopes' \in Seq(Table) /\ Len(scopes') = Len(scopes) - If(Here.sema, n)
  BY <1>1, <1>2, LevelsFewer DEF Leave, If
<1>4. locals' \in Seq(Table) /\ Len(locals') = Len(locals) - If(Here.mir, n)
  BY <1>1, <1>2, LevelsFewer DEF Leave, If
<1> QED
  BY <1>3, <1>4

-----------------------------------------------------------------------------
(***************************************************************************)
(* The actions.                                                            *)
(***************************************************************************)
LEMMA Initially == Init => IInv
<1> SUFFICES ASSUME Init
             PROVE  IInv
  OBVIOUS
<1>1. \A S : Count(<< >>, S) = 0
  BY CountNone
<1>2. Balanced(open, Len(scopes), Len(locals), inLoop, loops)
  BY <1>1 DEF Init, Balanced
<1>3. Typed
  <2>1. open \in Seq(Frames) /\ scopes \in Seq(Table) /\ locals \in Seq(Table)
    BY DEF Init
  <2>2. inLoop \in Int /\ loops \in Int /\ tokens \in Nat
    BY DEF Init
  <2>3. errors \in BOOLEAN
    BY DEF Init
  <2> QED
    BY <2>1, <2>2, <2>3 DEF Typed
<1>4. Nested(open, errors) /\ JumpsHaveLoops
  BY DEF Init, Nested, JumpsHaveLoops
<1> QED
  BY <1>2, <1>3, <1>4 DEF IInv

\* Statements that open nothing.
LEMMA DefineStep ==
  ASSUME IInv, NEW x \in Names, NEW e \in Exprs, Define(x, e)
  PROVE  IInv'
<1>1. /\ open' = open /\ inLoop' = inLoop /\ loops' = loops
      /\ scopes' = IF Resolved THEN Defined(scopes, x) ELSE scopes
      /\ locals' = IF Translated THEN Add(locals, x, tokens + 1) ELSE locals
      /\ Walk(DefineReports(scopes, x, e), Bad(scopes, Add(locals, x, tokens + 1), {e}))
  BY DEF Define
<1>2. /\ errors' \in BOOLEAN /\ (errors => errors') /\ tokens' \in Nat
      /\ "no loop" \notin wrong'
  BY <1>1, WalkSound, BadOf DEF IInv
<1>3. scopes \in Seq(Table) /\ locals \in Seq(Table) /\ tokens \in Nat /\ open \in Seq(Frames)
  BY DEF IInv, Typed
<1>4. scopes' \in Seq(Table) /\ Len(scopes') = Len(scopes)
  BY <1>1, <1>3, DefinedType
<1>5. locals' \in Seq(Table) /\ Len(locals') = Len(locals)
  <2>1. tokens + 1 \in Int
    BY <1>3, NextNatural
  <2> QED
    BY <1>1, <1>3, <2>1, AddType
<1>6. Sound
  BY <1>2, <1>4, <1>5 DEF Sound
<1>7. Alike(open, open')
  BY <1>1 DEF Alike
<1> QED
  BY <1>1, <1>3, <1>4, <1>5, <1>6, <1>7, Staying

LEMMA InStmtExprStep ==
  ASSUME IInv, NEW e \in Exprs, InStmtExpr(e)
  PROVE  IInv'
<1>1. /\ UNCHANGED <<open, scopes, inLoop, locals, loops>>
      /\ Walk(Undefined(scopes, e), Bad(scopes, locals, {e}))
  BY DEF InStmtExpr
<1>2. /\ errors' \in BOOLEAN /\ (errors => errors') /\ tokens' \in Nat
      /\ "no loop" \notin wrong'
  BY <1>1, WalkSound, BadOf DEF IInv
<1>3. Sound
  BY <1>1, <1>2 DEF Sound, IInv, Typed
<1>4. Alike(open, open') /\ open' \in Seq(Frames)
  BY <1>1 DEF Alike, IInv, Typed
<1> QED
  BY <1>1, <1>3, <1>4, Staying

\* The frame of the block learns that it has been left.
LEMMA Marked ==
  ASSUME IInv, open # << >>, NEW over \in BOOLEAN, NEW ret \in BOOLEAN, NEW shut \in BOOLEAN,
         NEW t, t = [open EXCEPT ![Len(open)].over = over, ![Len(open)].ret = ret,
                                 ![Len(open)].shut = shut]
  PROVE  t \in Seq(Frames) /\ Alike(open, t)
<1>1. open \in Seq(Frames) /\ Len(open) \in DOMAIN open /\ Here \in Frames /\ Here = open[Len(open)]
  BY HereType DEF IInv, Typed
<1> DEFINE f == [Here EXCEPT !.over = over, !.ret = ret, !.shut = shut]
<1>2. f \in Frames /\ f.kind = Here.kind /\ f.sema = Here.sema /\ f.mir = Here.mir
  BY <1>1 DEF Frames
<1>3. t = [open EXCEPT ![Len(open)] = f]
  BY <1>1
<1> HIDE DEF f
<1> QED
  BY <1>1, <1>2, <1>3 DEF Alike

LEMMA RetStep ==
  ASSUME IInv, NEW es, Ret(es)
  PROVE  IInv'
<1>1. /\ UNCHANGED <<scopes, inLoop, locals, loops>> /\ open # << >>
      /\ Walk(\/ es = {} /\ ~Func.void
              \/ \E e \in es : Func.void \/ Reported(scopes, e),
              Bad(scopes, locals, es))
      /\ open' = [open EXCEPT ![Len(open)].over = TRUE, ![Len(open)].ret = TRUE,
                              ![Len(open)].shut = @ \/ Translated]
  BY DEF Ret, InBlock
<1>2. /\ errors' \in BOOLEAN /\ (errors => errors') /\ tokens' \in Nat
      /\ "no loop" \notin wrong'
  BY <1>1, WalkSound, BadOf DEF IInv
<1>3. Sound
  BY <1>1, <1>2 DEF Sound, IInv, Typed
<1>4. open' \in Seq(Frames) /\ Alike(open, open')
  <2>1. Here \in Frames /\ Here = open[Len(open)] /\ Len(open) \in DOMAIN open
    BY <1>1, HereType
  <2> DEFINE shut == Here.shut \/ Translated
  <2>2. shut \in BOOLEAN
    OBVIOUS
  <2>3. open' = [open EXCEPT ![Len(open)].over = TRUE, ![Len(open)].ret = TRUE,
                             ![Len(open)].shut = shut]
    BY <1>1, <2>1 DEF IInv, Typed
  <2> HIDE DEF shut
  <2> QED
    BY <1>1, <2>2, <2>3, Marked
<1> QED
  BY <1>1, <1>3, <1>4, Staying

\* A jump that is translated without an error has a loop of the generator's.
LEMMA JumpInLoop ==
  ASSUME IInv, open # << >>, Translated, Resolved => inLoop > 0
  PROVE  loops # 0
<1>1. open \in Seq(Frames) /\ ~errors /\ DOMAIN open = 1..Len(open)
  BY DEF IInv, Typed, Translated
<1>2. \E i \in DOMAIN open : open[i].mir /\ open[i].kind \in Loops
  <2>1. CASE Resolved
    <3>1. Count(open, SemaLoop) > 0
      BY <2>1 DEF IInv, Balanced
    <3>2. PICK i \in DOMAIN open : open[i] \in SemaLoop
      BY <1>1, <3>1, CountSome
    <3> QED
      BY <1>1, <3>2 DEF SemaLoop, IInv, Nested
  <2>2. CASE ~Resolved
    BY <1>1, <2>2, UnresolvedInLoop DEF LoopIn
  <2> QED
    BY <2>1, <2>2
<1>3. \E i \in DOMAIN open : open[i] \in GenLoop
  BY <1>1, <1>2 DEF GenLoop
<1>4. Count(open, GenLoop) > 0
  BY <1>1, <1>3, CountSome
<1> QED
  BY <1>4 DEF IInv, Balanced

LEMMA JumpStep ==
  ASSUME IInv, Jump
  PROVE  IInv'
<1> DEFINE bad == Bad(scopes, locals, {})
                    \cup (IF Translated /\ loops = 0 THEN {"no loop"} ELSE {})
<1>1. /\ UNCHANGED <<scopes, inLoop, locals, loops>> /\ open # << >>
      /\ Walk(~MayJump, bad)
      /\ open' = [open EXCEPT ![Len(open)].over = TRUE]
  BY DEF Jump, InBlock
<1>2. errors' \in BOOLEAN /\ (errors => errors') /\ tokens' \in Nat
  BY <1>1, WalkParts DEF IInv
<1>3. "no loop" \notin wrong'
  <2>1. CASE errors'
    BY <1>1, <2>1 DEF Walk
  <2>2. CASE ~errors'
    <3>1. Resolved => inLoop > 0
      BY <1>1, <2>2 DEF Walk, MayJump
    <3>2. ~(Translated /\ loops = 0)
      BY <1>1, <3>1, JumpInLoop
    <3>3. "no loop" \notin bad
      BY <3>2, BadOf
    <3> QED
      BY <1>1, <3>3 DEF Walk
  <2> QED
    BY <2>1, <2>2
<1>4. Sound
  BY <1>1, <1>2, <1>3 DEF Sound, IInv, Typed
<1>5. open' \in Seq(Frames) /\ Alike(open, open')
  <2>1. Here \in Frames /\ Here = open[Len(open)]
    BY <1>1, HereType
  <2>2. /\ Here.ret \in BOOLEAN /\ Here.shut \in BOOLEAN
        /\ open' = [open EXCEPT ![Len(open)].over = TRUE, ![Len(open)].ret = Here.ret,
                                ![Len(open)].shut = Here.shut]
    BY <1>1, <2>1 DEF IInv, Typed, Frames
  <2> QED
    BY <1>1, <2>2, Marked
<1> QED
  BY <1>1, <1>4, <1>5, Staying

\* Statements with a block.
LEMMA Inside ==
  ASSUME IInv, open # << >>, NEW kind \in Kinds \ {"impl", "func"},
         kind = "else" => Here.kind = "cond",
         open' = Append(open, Inner(kind)), Sound,
         Len(scopes') = Len(scopes) + If(Resolved, SemaLevels(kind)),
         Len(locals') = Len(locals) + If(Translated, GenLevels(kind)),
         inLoop' = inLoop + If(Resolved, LoopLevels(kind)),
         loops' = loops + If(Translated, LoopLevels(kind))
  PROVE  IInv'
<1>1. Extends(open) /\ (kind = "else" => Last(open).kind = "cond") /\ open \in Seq(Frames)
  BY DEF Extends, Here, IInv, Typed
<1>2. errors' \in BOOLEAN /\ (errors => errors')
  BY DEF Sound
<1>3. /\ Inner(kind) \in Frames /\ MayStand(open, Inner(kind), errors')
      /\ Inner(kind).kind = kind
      /\ Inner(kind).sema = Resolved /\ Inner(kind).mir = Translated
  BY <1>1, <1>2, InnerStands
<1>4. Typed /\ Counted(open) /\ Nested(open, errors)
  BY DEF IInv, Counted
<1> QED
  BY <1>1, <1>3, <1>4, Opening

LEMMA OneLevel ==
  ASSUME IInv, open # << >>, scopes' = SemaPush(1), locals' = GenPush(1)
  PROVE  /\ scopes' \in Seq(Table) /\ Len(scopes') = Len(scopes) + If(Resolved, 1)
         /\ locals' \in Seq(Table) /\ Len(locals') = Len(locals) + If(Translated, 1)
<1>1. scopes \in Seq(Table) /\ locals \in Seq(Table)
  BY DEF IInv, Typed
<1>2. scopes' \in Seq(Table) /\ Len(scopes') = Len(scopes) + If(Resolved, 1)
  BY <1>1, LevelMore DEF SemaPush, If
<1>3. locals' \in Seq(Table) /\ Len(locals') = Len(locals) + If(Translated, 1)
  BY <1>1, LevelMore DEF GenPush, If
<1> QED
  BY <1>2, <1>3

LEMMA LevelsOf ==
  /\ \A kind \in Arms \cup {"while"} : SemaLevels(kind) = 1 /\ GenLevels(kind) = 1
  /\ \A kind \in Twofold : SemaLevels(kind) = 2 /\ GenLevels(kind) = 2
  /\ \A kind \in Loops : LoopLevels(kind) = 1
  /\ \A kind \in Kinds \ Loops : LoopLevels(kind) = 0
  /\ \A kind \in {"impl", "cond", "match"} : SemaLevels(kind) = 0 /\ GenLevels(kind) = 0
  /\ SemaLevels("func") = 1 /\ GenLevels("func") = 2
BY DEF SemaLevels, GenLevels, LoopLevels, Arms, Twofold, Loops, Kinds

LEMMA MinusNothing == \A k \in Int : k - 0 = k
OBVIOUS

LEMMA NoLoopMore ==
  ASSUME IInv
  PROVE  /\ \A c \in BOOLEAN : If(c, 0) = 0
         /\ inLoop + 0 = inLoop /\ loops + 0 = loops
         /\ inLoop - 0 = inLoop /\ loops - 0 = loops
         /\ Len(scopes) + 0 = Len(scopes) /\ Len(locals) + 0 = Len(locals)
         /\ Len(scopes) - 0 = Len(scopes) /\ Len(locals) - 0 = Len(locals)
<1>1. inLoop \in Int /\ loops \in Int /\ Len(scopes) \in Int /\ Len(locals) \in Int
  BY DEF IInv, Typed
<1> QED
  BY <1>1 DEF If

LEMMA OneAndOne == \A k \in Nat : (k + 1) + 1 = k + 2
OBVIOUS

LEMMA LoopEntered ==
  ASSUME IInv, EnterLoop
  PROVE  inLoop' = inLoop + If(Resolved, 1) /\ loops' = loops + If(Translated, 1)
<1>1. inLoop = inLoop + 0 /\ loops = loops + 0
  BY NoLoopMore
<1> QED
  BY <1>1 DEF EnterLoop, If

\* An arm of an if or its else.
LEMMA ArmStep ==
  ASSUME IInv, open # << >>, NEW kind \in {"arm", "else"}, kind = "else" => Here.kind = "cond",
         NEW err, Walk(err, {}) \/ \E e : Walk(err, Bad(scopes, locals, {e})),
         open' = Append(open, Inner(kind)),
         scopes' = SemaPush(1), locals' = GenPush(1), UNCHANGED <<inLoop, loops>>
  PROVE  IInv'
<1>1. /\ errors' \in BOOLEAN /\ (errors => errors') /\ tokens' \in Nat
      /\ "no loop" \notin wrong'
  BY WalkSound, BadOf DEF IInv
<1>2. /\ scopes' \in Seq(Table) /\ Len(scopes') = Len(scopes) + If(Resolved, 1)
      /\ locals' \in Seq(Table) /\ Len(locals') = Len(locals) + If(Translated, 1)
  BY OneLevel
<1>3. Sound
  BY <1>1, <1>2 DEF Sound
<1>4. /\ SemaLevels(kind) = 1 /\ GenLevels(kind) = 1 /\ LoopLevels(kind) = 0
      /\ kind \in Kinds \ {"impl", "func"}
  BY LevelsOf DEF Arms, Kinds, Loops
<1>5. inLoop' = inLoop + If(Resolved, 0) /\ loops' = loops + If(Translated, 0)
  BY NoLoopMore, HereType
<1> QED
  BY <1>2, <1>3, <1>4, <1>5, Inside

LEMMA ElseIfStep ==
  ASSUME IInv, NEW e \in Exprs, ElseIf(e)
  PROVE  IInv'
BY ArmStep DEF ElseIf, AtArms

LEMMA ElseStep ==
  ASSUME IInv, Else
  PROVE  IInv'
BY ArmStep DEF Else, AtArms

LEMMA BeginCondStep ==
  ASSUME IInv, NEW e \in Exprs, BeginCond(e)
  PROVE  IInv'
<1> DEFINE o == Append(open, Inner("cond"))
<1>1. /\ open # << >> /\ open' = open \o <<Inner("cond"), Inner("arm")>>
      /\ scopes' = SemaPush(1) /\ locals' = GenPush(1) /\ UNCHANGED <<inLoop, loops>>
      /\ Walk(Reported(scopes, e), Bad(scopes, locals, {e}))
  BY DEF BeginCond, InBlock
<1>2. /\ errors' \in BOOLEAN /\ (errors => errors') /\ tokens' \in Nat
      /\ "no loop" \notin wrong'
  BY <1>1, WalkSound, BadOf DEF IInv
<1>3. /\ scopes' \in Seq(Table) /\ Len(scopes') = Len(scopes) + If(Resolved, 1)
      /\ locals' \in Seq(Table) /\ Len(locals') = Len(locals) + If(Translated, 1)
  BY <1>1, OneLevel
<1>4. Sound
  BY <1>2, <1>3 DEF Sound
<1>5. open \in Seq(Frames) /\ errors \in BOOLEAN
  BY DEF IInv, Typed
<1>6. Extends(open)
  BY <1>5 DEF Extends
<1>7. /\ Inner("cond") \in Frames /\ MayStand(open, Inner("cond"), errors)
      /\ Inner("cond").kind = "cond"
      /\ Inner("cond").sema = Resolved /\ Inner("cond").mir = Translated
  BY <1>1, <1>5, <1>6, InnerStands DEF Kinds
<1>8. o \in Seq(Frames) /\ Extends(o)
  BY <1>5, <1>7 DEF Extends
<1>9. Nested(o, errors)
  BY <1>5, <1>7, PushNested DEF IInv
<1>10. Counted(o)
  <2>1. /\ If(Resolved, SemaLevels("cond")) = 0 /\ If(Translated, GenLevels("cond")) = 0
        /\ If(Resolved, LoopLevels("cond")) = 0 /\ If(Translated, LoopLevels("cond")) = 0
    BY <1>1, LevelsOf, NoLoopMore, HereType DEF Kinds, Loops
  <2>2. Balanced(o, Len(scopes) + 0, Len(locals) + 0, inLoop + 0, loops + 0)
    BY <1>5, <1>7, <2>1, PushBalanced DEF IInv
  <2> QED
    BY <2>2, NoLoopMore DEF Counted
<1>11. /\ Inner("arm") \in Frames /\ MayStand(o, Inner("arm"), errors')
       /\ Inner("arm").kind = "arm"
       /\ Inner("arm").sema = Resolved /\ Inner("arm").mir = Translated
  BY <1>1, <1>2, <1>8, InnerStands DEF Kinds, Arms
<1>12. open' = Append(o, Inner("arm"))
  BY <1>1, <1>5, <1>7, <1>11
<1>13. /\ SemaLevels("arm") = 1 /\ GenLevels("arm") = 1 /\ LoopLevels("arm") = 0
       /\ inLoop' = inLoop + If(Resolved, 0) /\ loops' = loops + If(Translated, 0)
  BY <1>1, LevelsOf, NoLoopMore, HereType DEF Arms, Kinds, Loops
<1>14. Typed
  BY DEF IInv
<1> HIDE DEF o
<1> QED
  BY <1>3, <1>4, <1>8, <1>9, <1>10, <1>11, <1>12, <1>13, <1>14, Opening

\* The end of a statement or a block that opened n scopes in each pass.
LEMMA Leaving ==
  ASSUME IInv, open # << >>, NEW n \in Nat, Leave(n), open' = Front(open),
         SemaLevels(Here.kind) = n, GenLevels(Here.kind) = n,
         errors' = errors, tokens' = tokens, wrong' = wrong,
         inLoop' = inLoop - If(Here.sema, LoopLevels(Here.kind)),
         loops' = loops - If(Here.mir, LoopLevels(Here.kind))
  PROVE  IInv'
<1>1. /\ scopes' \in Seq(Table) /\ Len(scopes') = Len(scopes) - If(Here.sema, n)
      /\ locals' \in Seq(Table) /\ Len(locals') = Len(locals) - If(Here.mir, n)
  BY Left
<1>2. errors' \in BOOLEAN /\ (errors => errors') /\ tokens' \in Nat /\ "no loop" \notin wrong'
  BY DEF IInv, Typed, JumpsHaveLoops
<1>3. Sound
  BY <1>1, <1>2 DEF Sound
<1> QED
  BY <1>1, <1>3, Closing

\* The end of a statement that opened nothing.
LEMMA LeavingNothing ==
  ASSUME IInv, open # << >>, Here.kind \in {"impl", "cond", "match"}, open' = Front(open),
         UNCHANGED <<scopes, inLoop, locals, loops, tokens>>,
         errors' \in BOOLEAN, errors => errors', "no loop" \notin wrong'
  PROVE  IInv'
<1>1. SemaLevels(Here.kind) = 0 /\ GenLevels(Here.kind) = 0 /\ LoopLevels(Here.kind) = 0
  BY LevelsOf DEF Kinds, Loops
<1>2. Here.sema \in BOOLEAN /\ Here.mir \in BOOLEAN
  BY HereType DEF Frames
<1>3. Sound
  BY DEF Sound, IInv, Typed
<1>4. /\ Len(scopes') = Len(scopes) - If(Here.sema, 0)
      /\ Len(locals') = Len(locals) - If(Here.mir, 0)
      /\ inLoop' = inLoop - If(Here.sema, 0) /\ loops' = loops - If(Here.mir, 0)
  BY <1>2, NoLoopMore
<1> QED
  BY <1>1, <1>3, <1>4, Closing

LEMMA EndCondStep ==
  ASSUME IInv, EndCond
  PROVE  IInv'
<1>1. errors' \in BOOLEAN /\ (errors => errors') /\ "no loop" \notin wrong'
  BY DEF EndCond, IInv, Typed, JumpsHaveLoops
<1> QED
  BY <1>1, LeavingNothing DEF EndCond

LEMMA EndImplStep ==
  ASSUME IInv, EndImpl
  PROVE  IInv'
<1>1. open # << >> /\ Here.kind = "impl"
  BY DEF EndImpl
<1>2. Len(open) = 1
  BY <1>1, HereType DEF IInv, Nested
<1>3. Front(open) = << >>
  <2>1. Front(open) \in Seq(Frames) /\ Len(Front(open)) = Len(open) - 1
    BY <1>1, FrontAppend DEF IInv, Typed
  <2> QED
    BY <1>2, <2>1, EmptySeq
<1>4. errors' \in BOOLEAN /\ (errors => errors') /\ "no loop" \notin wrong'
  BY DEF EndImpl, IInv, Typed, JumpsHaveLoops
<1> QED
  BY <1>1, <1>3, <1>4, LeavingNothing DEF EndImpl

LEMMA EndMatchStep ==
  ASSUME IInv, EndMatch
  PROVE  IInv'
<1>1. errors' \in BOOLEAN /\ (errors => errors')
  BY DEF EndMatch
<1>2. "no loop" \notin wrong'
  BY DEF EndMatch
<1> QED
  BY <1>1, <1>2, LeavingNothing DEF EndMatch

LEMMA EndCaseStep ==
  ASSUME IInv, EndCase
  PROVE  IInv'
<1>1. /\ open # << >> /\ Here.kind = "case" /\ Leave(1) /\ open' = Front(open)
      /\ UNCHANGED <<inLoop, errors, loops, tokens, wrong>>
  BY DEF EndCase
<1>2. SemaLevels(Here.kind) = 1 /\ GenLevels(Here.kind) = 1 /\ LoopLevels(Here.kind) = 0
  BY <1>1, LevelsOf DEF Arms, Kinds, Loops
<1>3. Here.sema \in BOOLEAN /\ Here.mir \in BOOLEAN
  BY <1>1, HereType DEF Frames
<1>4. inLoop' = inLoop - If(Here.sema, 0) /\ loops' = loops - If(Here.mir, 0)
  BY <1>1, <1>3, NoLoopMore
<1> QED
  BY <1>1, <1>2, <1>4, Leaving

LEMMA EndLoopStep ==
  ASSUME IInv, EndLoop
  PROVE  IInv'
<1>1. /\ open # << >> /\ Here.kind \in Loops /\ Leave(Levels(Here.kind)) /\ open' = Front(open)
      /\ inLoop' = IF Here.sema THEN inLoop - 1 ELSE inLoop
      /\ loops' = IF Here.mir THEN loops - 1 ELSE loops
      /\ UNCHANGED <<errors, tokens, wrong>>
  BY DEF EndLoop, Loops
<1>2. Levels(Here.kind) \in Nat
  BY DEF Levels
<1>3. /\ SemaLevels(Here.kind) = Levels(Here.kind) /\ GenLevels(Here.kind) = Levels(Here.kind)
      /\ LoopLevels(Here.kind) = 1
  BY <1>1, LevelsOf DEF Levels, Loops, Twofold, Arms
<1>4. inLoop' = inLoop - If(Here.sema, 1) /\ loops' = loops - If(Here.mir, 1)
  <2>1. inLoop = inLoop - 0 /\ loops = loops - 0
    BY NoLoopMore
  <2> QED
    BY <1>1, <2>1 DEF If
<1> QED
  BY <1>1, <1>2, <1>3, <1>4, Leaving

\* The else of an if takes the whole statement with it.
LEMMA EndArmStep ==
  ASSUME IInv, EndArm
  PROVE  IInv'
<1>1. /\ open # << >> /\ Here.kind \in {"arm", "else"} /\ Leave(1)
      /\ open' = IF Here.kind = "else" THEN Front(Front(open)) ELSE Front(open)
      /\ UNCHANGED <<inLoop, errors, loops, tokens, wrong>>
  BY DEF EndArm
<1>2. SemaLevels(Here.kind) = 1 /\ GenLevels(Here.kind) = 1 /\ LoopLevels(Here.kind) = 0
  BY <1>1, LevelsOf DEF Arms, Kinds, Loops
<1>3. Here.sema \in BOOLEAN /\ Here.mir \in BOOLEAN
  BY <1>1, HereType DEF Frames
<1>4. inLoop' = inLoop - If(Here.sema, 0) /\ loops' = loops - If(Here.mir, 0)
  BY <1>1, <1>3, NoLoopMore
<1>5. CASE Here.kind = "arm"
  BY <1>1, <1>2, <1>4, <1>5, Leaving
<1>6. CASE Here.kind = "else"
  <2> DEFINE o == Front(open)
             f == Last(o)
  <2>1. /\ o \in Seq(Frames) /\ Len(o) = Len(open) - 1
        /\ \A i \in 1..Len(open) - 1 : o[i] = open[i]
    BY <1>1, FrontAppend DEF IInv, Typed
  <2>2. Len(open) > 1 /\ open[Len(open) - 1].kind = "cond"
    BY <1>1, <1>6, HereType DEF IInv, Nested
  <2>3. o # << >> /\ f.kind = "cond" /\ f \in Frames
    <3>1. Len(open) \in Nat
      BY DEF IInv, Typed
    <3>2. Len(o) > 0 /\ o[Len(o)] = open[Len(open) - 1]
      BY <2>1, <2>2, <3>1
    <3>3. o # << >>
      BY <3>2
    <3>4. f \in Frames /\ f = o[Len(o)]
      BY <2>1, <3>3, FrontAppend
    <3> QED
      BY <2>2, <3>2, <3>3, <3>4
  <2>4. /\ scopes' \in Seq(Table) /\ Len(scopes') = Len(scopes) - If(Here.sema, 1)
        /\ locals' \in Seq(Table) /\ Len(locals') = Len(locals) - If(Here.mir, 1)
    BY <1>1, <1>2, Left
  <2>5. Balanced(o, Len(scopes'), Len(locals'), inLoop', loops')
    <3>1. open \in Seq(Frames) /\ Here = Last(open)
      BY DEF IInv, Typed, Here
    <3>2. Balanced(o, Len(scopes) - If(Here.sema, 1), Len(locals) - If(Here.mir, 1),
                   inLoop - If(Here.sema, 0), loops - If(Here.mir, 0))
      BY <1>1, <1>2, <3>1, PopBalanced DEF IInv
    <3> QED
      BY <1>4, <2>4, <3>2
  <2>6. Balanced(Front(o), Len(scopes'), Len(locals'), inLoop', loops')
    <3>1. f.sema \in BOOLEAN /\ f.mir \in BOOLEAN
      BY <2>3 DEF Frames
    <3>2. /\ If(f.sema, SemaLevels(f.kind)) = 0 /\ If(f.mir, GenLevels(f.kind)) = 0
          /\ If(f.sema, LoopLevels(f.kind)) = 0 /\ If(f.mir, LoopLevels(f.kind)) = 0
      BY <2>3, <3>1, LevelsOf, NoLoopMore DEF Kinds, Loops
    <3>3. Balanced(Front(o), Len(scopes') - 0, Len(locals') - 0, inLoop' - 0, loops' - 0)
      BY <2>1, <2>3, <2>5, <3>2, PopBalanced
    <3>4. Len(scopes') \in Int /\ Len(locals') \in Int /\ inLoop' \in Int /\ loops' \in Int
      BY <1>1, <2>4 DEF IInv, Typed
    <3>5. \A k \in Int : k - 0 = k
      BY MinusNothing
    <3> QED
      BY <3>3, <3>4, <3>5
  <2>7. Nested(Front(o), errors)
    <3>1. Nested(o, errors)
      BY <1>1, PopNested DEF IInv, Typed
    <3> QED
      BY <2>1, <2>3, <3>1, PopNested DEF IInv, Typed
  <2>8. Front(o) \in Seq(Frames)
    BY <2>1, <2>3, FrontAppend
  <2>9. open' = Front(o)
    BY <1>1, <1>6
  <2> HIDE DEF o
  <2> QED
    BY <1>1, <2>4, <2>6, <2>7, <2>8, <2>9 DEF IInv, Typed, JumpsHaveLoops
<1> QED
  BY <1>1, <1>5, <1>6

LEMMA BeginMatchStep ==
  ASSUME IInv, NEW e \in Exprs, BeginMatch(e)
  PROVE  IInv'
<1> DEFINE f == [Inner("match") EXCEPT !.sema = @ /\ ~Reported(scopes, e)]
<1>1. /\ open # << >> /\ open' = Append(open, f)
      /\ UNCHANGED <<scopes, inLoop, locals, loops>>
      /\ Walk(Reported(scopes, e), Bad(scopes, locals, {e}))
  BY DEF BeginMatch, InBlock
<1>2. /\ errors' \in BOOLEAN /\ (errors => errors') /\ tokens' \in Nat
      /\ "no loop" \notin wrong'
  BY <1>1, WalkSound, BadOf DEF IInv
<1>3. Sound
  BY <1>1, <1>2 DEF Sound, IInv, Typed
<1>4. open \in Seq(Frames) /\ Extends(open) /\ Typed /\ Counted(open) /\ Nested(open, errors)
  BY DEF Extends, IInv, Typed, Counted
<1>5. /\ Inner("match") \in Frames /\ MayStand(open, Inner("match"), errors')
      /\ Inner("match").kind = "match"
      /\ Inner("match").sema = Resolved /\ Inner("match").mir = Translated
  BY <1>1, <1>2, <1>4, InnerStands DEF Kinds
<1>6. /\ f \in Frames /\ f.kind = "match" /\ f.mir = Translated
      /\ f.sema = (Resolved /\ ~Reported(scopes, e))
  BY <1>5 DEF Frames
<1>7. ~errors' => f.sema = Resolved
  BY <1>1, <1>6, HereType DEF Walk
<1>8. MayStand(open, f, errors')
  BY <1>5, <1>6, <1>7 DEF MayStand
<1>9. /\ SemaLevels("match") = 0 /\ GenLevels("match") = 0 /\ LoopLevels("match") = 0
  BY LevelsOf DEF Kinds, Loops
<1>10. f.sema \in BOOLEAN /\ f.mir \in BOOLEAN
  BY <1>6 DEF Frames
<1>11. /\ Len(scopes') = Len(scopes) + If(f.sema, 0) /\ Len(locals') = Len(locals) + If(f.mir, 0)
       /\ inLoop' = inLoop + If(f.sema, 0) /\ loops' = loops + If(f.mir, 0)
  BY <1>1, <1>10, NoLoopMore
<1> HIDE DEF f
<1> QED
  BY <1>1, <1>3, <1>4, <1>6, <1>8, <1>9, <1>11, Opening

LEMMA CaseStep ==
  ASSUME IInv, NEW l \in Labels \cup {Default, Unknown}, Case(l)
  PROVE  IInv'
<1> DEFINE o == [open EXCEPT ![Len(open)].cases = Append(@, l)]
<1>1. /\ open # << >> /\ open' = Append(o, Inner("case"))
      /\ scopes' = SemaPush(1) /\ locals' = GenPush(1) /\ UNCHANGED <<inLoop, loops>>
      /\ Walk(LabelReported(l, Here.cases), {})
  BY DEF Case, AtArms
<1>2. /\ errors' \in BOOLEAN /\ (errors => errors') /\ tokens' \in Nat
      /\ "no loop" \notin wrong'
  BY <1>1, WalkSound DEF IInv
<1>3. /\ scopes' \in Seq(Table) /\ Len(scopes') = Len(scopes) + If(Resolved, 1)
      /\ locals' \in Seq(Table) /\ Len(locals') = Len(locals) + If(Translated, 1)
  BY <1>1, OneLevel
<1>4. Sound
  BY <1>2, <1>3 DEF Sound
<1>5. open \in Seq(Frames) /\ errors \in BOOLEAN /\ Typed
  BY DEF IInv, Typed
<1>6. o \in Seq(Frames) /\ Alike(open, o)
  <2>1. Here \in Frames /\ Here = open[Len(open)] /\ Len(open) \in DOMAIN open
    BY <1>1, HereType
  <2> DEFINE f == [Here EXCEPT !.cases = Append(@, l)]
  <2>2. Append(Here.cases, l) \in Seq(Labels \cup {Default, Unknown})
    BY <2>1 DEF Frames
  <2>3. f \in Frames /\ f.kind = Here.kind /\ f.sema = Here.sema /\ f.mir = Here.mir
    BY <2>1, <2>2 DEF Frames
  <2>4. o = [open EXCEPT ![Len(open)] = f]
    BY <2>1
  <2> HIDE DEF f, o
  <2> QED
    BY <1>5, <2>1, <2>3, <2>4 DEF Alike
<1>7. Counted(o) /\ Nested(o, errors)
  <2>1. Counted(open) /\ Nested(open, errors)
    BY DEF IInv, Counted
  <2> HIDE DEF o
  <2>2. Counted(o)
    BY <1>5, <1>6, <2>1, AlikeBalanced DEF Counted
  <2>3. Nested(o, errors)
    BY <1>5, <1>6, <2>1, AlikeNested
  <2> QED
    BY <2>2, <2>3
<1>8. Extends(o)
  <2>1. Len(open) \in Nat /\ DOMAIN open = 1..Len(open) /\ Len(o) = Len(open)
    BY <1>5
  <2> QED
    BY <1>6, <2>1 DEF Extends, Alike
<1>9. /\ Inner("case") \in Frames /\ MayStand(o, Inner("case"), errors')
      /\ Inner("case").kind = "case"
      /\ Inner("case").sema = Resolved /\ Inner("case").mir = Translated
  BY <1>1, <1>2, <1>8, InnerStands DEF Kinds, Arms
<1>10. /\ SemaLevels("case") = 1 /\ GenLevels("case") = 1 /\ LoopLevels("case") = 0
       /\ inLoop' = inLoop + If(Resolved, 0) /\ loops' = loops + If(Translated, 0)
  BY <1>1, LevelsOf, NoLoopMore, HereType DEF Arms, Kinds, Loops
<1> HIDE DEF o
<1> QED
  BY <1>1, <1>3, <1>4, <1>5, <1>6, <1>7, <1>9, <1>10, Opening

LEMMA WhileStep ==
  ASSUME IInv, NEW e \in Exprs, While(e)
  PROVE  IInv'
<1>1. /\ open # << >> /\ open' = Append(open, Inner("while"))
      /\ scopes' = SemaPush(1) /\ locals' = GenPush(1) /\ EnterLoop
      /\ Walk(Reported(scopes, e), Bad(scopes, locals, {e}))
  BY DEF While, InBlock
<1>2. /\ errors' \in BOOLEAN /\ (errors => errors') /\ tokens' \in Nat
      /\ "no loop" \notin wrong'
  BY <1>1, WalkSound, BadOf DEF IInv
<1>3. /\ scopes' \in Seq(Table) /\ Len(scopes') = Len(scopes) + If(Resolved, 1)
      /\ locals' \in Seq(Table) /\ Len(locals') = Len(locals) + If(Translated, 1)
  BY <1>1, OneLevel
<1>4. Sound
  BY <1>2, <1>3 DEF Sound
<1>5. inLoop' = inLoop + If(Resolved, 1) /\ loops' = loops + If(Translated, 1)
  BY <1>1, LoopEntered
<1>6. /\ SemaLevels("while") = 1 /\ GenLevels("while") = 1 /\ LoopLevels("while") = 1
      /\ "while" \in Kinds \ {"impl", "func"}
  BY LevelsOf DEF Loops, Kinds
<1> QED
  BY <1>1, <1>3, <1>4, <1>5, <1>6, Inside

LEMMA HeadStep ==
  ASSUME IInv, open # << >>, NEW kind \in Twofold, NEW xs \in SUBSET Names, NEW init, NEW es,
         LoopHead(kind, xs, init, es)
  PROVE  IInv'
<1> DEFINE x == CHOOSE x \in xs : TRUE
           sema == IF xs = {} THEN PushLevel(scopes) ELSE Defined(PushLevel(scopes), x)
           gen == IF xs = {} THEN PushLevel(locals) ELSE Add(PushLevel(locals), x, tokens + 1)
<1>1. /\ open' = Append(open, Inner(kind)) /\ EnterLoop
      /\ scopes' = IF Resolved THEN PushLevel(sema) ELSE scopes
      /\ locals' = IF Translated THEN PushLevel(gen) ELSE locals
      /\ Walk(\/ \E y \in xs : DefineReports(PushLevel(scopes), y, init)
              \/ \E e \in es : Reported(sema, e),
              Bad(sema, gen, es \cup (IF xs = {} THEN {} ELSE {init})))
  BY DEF LoopHead
<1>2. /\ errors' \in BOOLEAN /\ (errors => errors') /\ tokens' \in Nat
      /\ "no loop" \notin wrong'
  BY <1>1, WalkSound, BadOf DEF IInv
<1>3. scopes \in Seq(Table) /\ locals \in Seq(Table) /\ tokens \in Nat /\ tokens + 1 \in Int
  BY NextNatural DEF IInv, Typed
<1>4. xs # {} => x \in Names
  OBVIOUS
<1>5. sema \in Seq(Table) /\ Len(sema) = Len(scopes) + 1
  BY <1>3, <1>4, LevelMore, DefinedType
<1>6. gen \in Seq(Table) /\ Len(gen) = Len(locals) + 1
  BY <1>3, <1>4, LevelMore, AddType
<1> HIDE DEF sema, gen
<1>7. /\ PushLevel(sema) \in Seq(Table) /\ Len(PushLevel(sema)) = Len(scopes) + 2
      /\ PushLevel(gen) \in Seq(Table) /\ Len(PushLevel(gen)) = Len(locals) + 2
  BY <1>3, <1>5, <1>6, LevelMore, OneAndOne
<1>8. /\ Len(scopes) = Len(scopes) + 0 /\ Len(locals) = Len(locals) + 0
  BY NoLoopMore
<1>9. /\ scopes' \in Seq(Table) /\ Len(scopes') = Len(scopes) + If(Resolved, 2)
      /\ locals' \in Seq(Table) /\ Len(locals') = Len(locals) + If(Translated, 2)
  BY <1>1, <1>3, <1>7, <1>8 DEF If
<1>10. Sound
  BY <1>2, <1>9 DEF Sound
<1>11. inLoop' = inLoop + If(Resolved, 1) /\ loops' = loops + If(Translated, 1)
  BY <1>1, LoopEntered
<1>12. /\ SemaLevels(kind) = 2 /\ GenLevels(kind) = 2 /\ LoopLevels(kind) = 1
       /\ kind \in Kinds \ {"impl", "func"} /\ kind # "else"
  BY LevelsOf DEF Loops, Twofold, Kinds
<1> QED
  BY <1>1, <1>9, <1>10, <1>11, <1>12, Inside

LEMMA SkippedStep ==
  ASSUME IInv, open # << >>, NEW kind \in Twofold, Skipped(kind)
  PROVE  IInv'
<1> DEFINE f == Frame(kind, FALSE, FALSE)
<1>1. /\ errors' = TRUE /\ tokens' = tokens + 1 /\ wrong' = {} /\ open' = Append(open, f)
      /\ UNCHANGED <<scopes, inLoop, locals, loops>>
  BY DEF Skipped
<1>2. /\ f \in Frames /\ f.kind = kind /\ ~f.sema /\ ~f.mir
      /\ f.sema \in BOOLEAN /\ f.mir \in BOOLEAN
  BY FrameType DEF Twofold, Kinds, Loops
<1>3. MayStand(open, f, errors')
  BY <1>1, <1>2 DEF MayStand, Twofold
<1>4. tokens' \in Nat
  BY <1>1, NextNatural DEF IInv, Typed
<1>5. Sound
  BY <1>1, <1>4 DEF Sound, IInv, Typed
<1>6. \A n : If(f.sema, n) = 0 /\ If(f.mir, n) = 0
  BY <1>2 DEF If
<1>7. /\ Len(scopes') = Len(scopes) + 0 /\ Len(locals') = Len(locals) + 0
      /\ inLoop' = inLoop + 0 /\ loops' = loops + 0
  BY <1>1, NoLoopMore
<1>8. Typed /\ Counted(open) /\ Nested(open, errors) /\ open \in Seq(Frames)
  BY DEF IInv, Typed, Counted
<1> HIDE DEF f
<1> QED
  BY <1>1, <1>2, <1>3, <1>5, <1>6, <1>7, <1>8, Opening

LEMMA LoopStep ==
  ASSUME IInv, NEW x \in Names, NEW e \in Exprs,
         For({x}, e, {x}) \/ Forindex(x, e) \/ Foreach(x, e)
  PROVE  IInv'
<1>1. open # << >> /\ {x} \in SUBSET Names
  BY DEF For, Forindex, Foreach, InBlock
<1>2. {"for", "forindex", "foreach"} \subseteq Twofold
  BY DEF Twofold
<1>3. CASE For({x}, e, {x})
  BY <1>1, <1>2, <1>3, HeadStep DEF For
<1>4. CASE Forindex(x, e)
  BY <1>1, <1>2, <1>4, HeadStep, SkippedStep DEF Forindex
<1>5. CASE Foreach(x, e)
  BY <1>1, <1>2, <1>5, HeadStep, SkippedStep DEF Foreach
<1> QED
  BY <1>3, <1>4, <1>5

LEMMA BareForStep ==
  ASSUME IInv, NEW es, For({}, "literal", es)
  PROVE  IInv'
BY HeadStep DEF For, InBlock, Twofold

LEMMA BeginImplStep ==
  ASSUME IInv, NEW known \in BOOLEAN, BeginImpl(known)
  PROVE  IInv'
<1> DEFINE f == Frame("impl", known, ~errors')
<1>1. /\ open = << >> /\ open' = <<f>> /\ errors' = (errors \/ ~known)
      /\ UNCHANGED <<scopes, inLoop, locals, loops, tokens, wrong>>
  BY DEF BeginImpl
<1>2. errors \in BOOLEAN /\ errors' \in BOOLEAN /\ (errors => errors') /\ (~errors' => known)
  BY <1>1 DEF IInv, Typed
<1>3. /\ f \in Frames /\ f.kind = "impl" /\ f.sema = known /\ f.mir = ~errors'
  BY <1>2, FrameType DEF Kinds
<1>4. MayStand(open, f, errors')
  BY <1>1, <1>2, <1>3 DEF MayStand
<1>5. Sound
  BY <1>1, <1>2 DEF Sound, IInv, Typed, JumpsHaveLoops
<1>6. SemaLevels("impl") = 0 /\ GenLevels("impl") = 0 /\ LoopLevels("impl") = 0
  BY LevelsOf DEF Kinds, Loops
<1>7. f.sema \in BOOLEAN /\ f.mir \in BOOLEAN
  BY <1>3 DEF Frames
<1>8. /\ Len(scopes') = Len(scopes) + If(f.sema, 0) /\ Len(locals') = Len(locals) + If(f.mir, 0)
      /\ inLoop' = inLoop + If(f.sema, 0) /\ loops' = loops + If(f.mir, 0)
  BY <1>1, <1>7, NoLoopMore
<1>9. Typed /\ Counted(open) /\ Nested(open, errors) /\ open \in Seq(Frames)
  BY DEF IInv, Typed, Counted
<1>10. open' = Append(open, f)
  BY <1>1
<1> HIDE DEF f
<1> QED
  BY <1>3, <1>4, <1>5, <1>6, <1>8, <1>9, <1>10, Opening

LEMMA BeginFuncStep ==
  ASSUME IInv, NEW xs \in SUBSET (Names \ Globals), NEW void \in BOOLEAN, BeginFunc(xs, void)
  PROVE  IInv'
<1> DEFINE f == [Frame("func", TRUE, ~errors) EXCEPT !.void = void]
<1>1. /\ open' = Append(open, f) /\ scopes' = Append(scopes, Params(xs))
      /\ locals' = IF errors THEN locals ELSE locals \o <<Params(xs), Empty>>
      /\ tokens' = 0 /\ UNCHANGED <<inLoop, errors, loops, wrong>>
  BY DEF BeginFunc
<1>2. errors \in BOOLEAN /\ (~errors) \in BOOLEAN
  BY DEF IInv, Typed
<1>3. f \in Frames /\ f.kind = "func" /\ f.sema /\ f.mir = ~errors /\ f.sema \in BOOLEAN
  <2>1. /\ Frame("func", TRUE, ~errors) \in Frames
        /\ Frame("func", TRUE, ~errors).kind = "func"
        /\ Frame("func", TRUE, ~errors).sema = TRUE
        /\ Frame("func", TRUE, ~errors).mir = ~errors
    BY <1>2, FrameType DEF Kinds
  <2> QED
    BY <2>1 DEF Frames
<1>4. MayStand(open, f, errors')
  BY <1>1, <1>2, <1>3 DEF MayStand
<1>5. Params(xs) \in Table /\ Empty \in Table
  BY LevelTypes
<1>6. scopes \in Seq(Table) /\ locals \in Seq(Table)
  BY DEF IInv, Typed
<1>7. scopes' \in Seq(Table) /\ Len(scopes') = Len(scopes) + If(f.sema, 1)
  BY <1>1, <1>3, <1>5, <1>6 DEF If
<1>8. locals' \in Seq(Table) /\ Len(locals') = Len(locals) + If(f.mir, 2)
  <2>1. <<Params(xs), Empty>> \in Seq(Table) /\ Len(<<Params(xs), Empty>>) = 2
    BY <1>5
  <2>2. /\ locals \o <<Params(xs), Empty>> \in Seq(Table)
        /\ Len(locals \o <<Params(xs), Empty>>) = Len(locals) + 2
    BY <1>6, <2>1, ConcatProperties
  <2>3. Len(locals) + 0 = Len(locals)
    BY NoLoopMore
  <2> QED
    BY <1>1, <1>2, <1>3, <1>6, <2>2, <2>3 DEF If
<1>9. Sound
  <2>1. tokens' \in Nat
    BY <1>1
  <2> QED
    BY <1>1, <1>2, <1>7, <1>8, <2>1 DEF Sound, IInv, JumpsHaveLoops
<1>10. SemaLevels("func") = 1 /\ GenLevels("func") = 2 /\ LoopLevels("func") = 0
  BY LevelsOf DEF Kinds, Loops
<1>11. /\ inLoop' = inLoop + If(f.sema, 0) /\ loops' = loops + If(f.mir, 0)
  BY <1>1, <1>2, <1>3, NoLoopMore
<1>12. Typed /\ Counted(open) /\ Nested(open, errors) /\ open \in Seq(Frames)
  BY DEF IInv, Typed, Counted
<1> HIDE DEF f
<1> QED
  BY <1>1, <1>3, <1>4, <1>7, <1>8, <1>9, <1>10, <1>11, <1>12, Opening

LEMMA DeclareStep ==
  ASSUME IInv, Declare
  PROVE  IInv'
<1>1. UNCHANGED <<open, scopes, inLoop, locals, loops, tokens, wrong>>
  BY DEF Declare
<1>2. errors' \in BOOLEAN /\ (errors => errors')
  BY DEF Declare
<1>3. Sound
  BY <1>1, <1>2 DEF Sound, IInv, Typed, JumpsHaveLoops
<1>4. Alike(open, open') /\ open' \in Seq(Frames)
  BY <1>1 DEF Alike, IInv, Typed
<1> QED
  BY <1>1, <1>3, <1>4, Staying

LEMMA EndFuncStep ==
  ASSUME IInv, EndFunc
  PROVE  IInv'
<1>1. /\ open # << >> /\ Here.kind = "func" /\ open' = Front(open) /\ scopes' = Front(scopes)
      /\ locals' = IF Here.mir THEN SubSeq(locals, 1, Len(locals) - 2) ELSE locals
      /\ tokens' = 0 /\ UNCHANGED <<inLoop, loops>>
  BY DEF EndFunc
<1>2. errors' \in BOOLEAN /\ (errors => errors')
  BY DEF EndFunc
<1>3. "no loop" \notin wrong'
  BY DEF EndFunc
<1>4. Here.sema /\ Here.sema \in BOOLEAN /\ Here.mir \in BOOLEAN
  BY <1>1, HereType DEF IInv, Nested, Frames
<1>5. SemaLevels(Here.kind) = 1 /\ GenLevels(Here.kind) = 2 /\ LoopLevels(Here.kind) = 0
  BY <1>1, LevelsOf DEF Kinds, Loops
<1>6. scopes \in Seq(Table) /\ locals \in Seq(Table)
  BY DEF IInv, Typed
<1>7. scopes' \in Seq(Table) /\ Len(scopes') = Len(scopes) - If(Here.sema, 1)
  <2>1. Len(scopes) - 1 \in Nat
    BY <1>1, <1>4, <1>5, Room DEF If
  <2>2. scopes # << >>
    BY <2>1
  <2> QED
    BY <1>1, <1>4, <1>6, <2>2, FrontAppend DEF If
<1>8. locals' \in Seq(Table) /\ Len(locals') = Len(locals) - If(Here.mir, 2)
  <2>1. Here.mir => Len(locals) - 2 \in Nat
    BY <1>1, <1>5, Room DEF If
  <2>2. Len(locals) - 0 = Len(locals)
    BY NoLoopMore
  <2> QED
    BY <1>1, <1>4, <1>6, <2>1, <2>2, LevelsFewer DEF If
<1>9. Sound
  <2>1. tokens' \in Nat
    BY <1>1
  <2> QED
    BY <1>2, <1>3, <1>7, <1>8, <2>1 DEF Sound
<1>10. inLoop' = inLoop - If(Here.sema, 0) /\ loops' = loops - If(Here.mir, 0)
  BY <1>1, <1>4, NoLoopMore
<1> QED
  BY <1>1, <1>5, <1>7, <1>8, <1>9, <1>10, Closing

LEMMA Stuttering ==
  ASSUME IInv, UNCHANGED vars
  PROVE  IInv'
<1>1. UNCHANGED <<open, scopes, inLoop, errors, locals, loops, tokens, wrong>>
  BY DEF vars
<1>2. Typed'
  BY <1>1 DEF IInv, Typed
<1> QED
  BY <1>1, <1>2 DEF IInv, JumpsHaveLoops

LEMMA NextStep ==
  ASSUME IInv, [Next]_vars
  PROVE  IInv'
<1>1. CASE UNCHANGED vars
  BY <1>1, Stuttering
<1>2. CASE \E xs \in SUBSET (Names \ Globals), void \in BOOLEAN : BeginFunc(xs, void)
  BY <1>2, BeginFuncStep
<1>3. CASE \E known \in BOOLEAN : BeginImpl(known)
  BY <1>3, BeginImplStep
<1>4. CASE \/ EndImpl \/ Declare \/ EndFunc \/ EndArm \/ Else \/ EndCond \/ EndCase
           \/ EndMatch \/ EndLoop \/ Jump \/ Ret({})
  BY <1>4, EndImplStep, DeclareStep, EndFuncStep, EndArmStep, ElseStep, EndCondStep,
     EndCaseStep, EndMatchStep, EndLoopStep, JumpStep, RetStep
<1>5. CASE \E e \in Exprs :
             \/ InStmtExpr(e) \/ Ret({e}) \/ BeginCond(e) \/ ElseIf(e) \/ BeginMatch(e)
             \/ While(e)
  BY <1>5, InStmtExprStep, RetStep, BeginCondStep, ElseIfStep, BeginMatchStep, WhileStep
<1>6. CASE \E x \in Names, e \in Exprs :
             Define(x, e) \/ For({x}, e, {x}) \/ Forindex(x, e) \/ Foreach(x, e)
  BY <1>6, DefineStep, LoopStep
<1>7. CASE \E es \in {{}} \cup {{e} : e \in Exprs} : For({}, "literal", es)
  BY <1>7, BareForStep
<1>8. CASE \E l \in Labels \cup {Default, Unknown} : Case(l)
  BY <1>8, CaseStep
<1> QED
  BY <1>1, <1>2, <1>3, <1>4, <1>5, <1>6, <1>7, <1>8 DEF Next

LEMMA Kept == Spec => []IInv
BY Initially, NextStep, PTL DEF Spec

-----------------------------------------------------------------------------
LEMMA BetweenFunctions ==
  ASSUME IInv
  PROVE  NothingLeft
<1>1. CASE open = << >>
  <2>1. \A S : Count(open, S) = 0
    BY <1>1, CountNone
  <2>2. Len(scopes) = 0 /\ Len(locals) = 0 /\ inLoop = 0 /\ loops = 0
    BY <2>1 DEF IInv, Balanced
  <2>3. scopes = << >> /\ locals = << >>
    BY <2>2, EmptySeq DEF IInv, Typed
  <2> QED
    BY <2>2, <2>3 DEF NothingLeft
<1> QED
  BY <1>1 DEF NothingLeft

\* For functions of any size, nesting and names: between functions nothing is
\* left of the scopes and loops the passes opened, whatever errors there were.
THEOREM NothingLeftBetweenFunctions == Spec => []NothingLeft
BY Kept, BetweenFunctions, PTL

\* A jump that is translated has a loop to leave, in every function: the
\* analysis counts the loops it resolves, and what it skips but the generator
\* translates is in a loop of the generator's.
THEOREM JumpsFindLoops == Spec => []JumpsHaveLoops
<1>1. IInv => JumpsHaveLoops
  BY DEF IInv
<1> QED
  BY Kept, <1>1, PTL

-----------------------------------------------------------------------------
(***************************************************************************)
(* The code Statements finds generated for a body, for functions of any    *)
(* size, nesting and names: without an error reported and but for the      *)
(* known gaps, the variables read are the variables meant, every function  *)
(* ends with a ret, and a switch selects what its match selects.           *)
(*                                                                         *)
(* The two tables are not equal - the generator has a level more for       *)
(* parameters, and what the analysis skips it may enter alone -, so that   *)
(* the invariant has to say when they agree: where the innermost statement *)
(* is one the analysis resolves, and again, with what is left of both,     *)
(* where each statement around it will go on.                              *)
(***************************************************************************)

-----------------------------------------------------------------------------
(***************************************************************************)
(* The largest of some numbers.                                            *)
(***************************************************************************)
LEMMA Smallest ==
  ASSUME NEW T \in SUBSET Nat, T # {}
  PROVE  \E x \in T : \A y \in T : x <= y
<1> DEFINE R == OpToRel(<, Nat)
<1>1. IsWellFoundedOn(R, Nat)
  BY NatLessThanWellFounded
<1>2. \A x, y \in Nat : x < y => <<x, y>> \in R
  BY DEF OpToRel
<1> HIDE DEF R
<1>3. PICK x \in T : \A y \in T : <<y, x>> \notin R
  BY <1>1, WFMin
<1>4. ASSUME NEW y \in T
      PROVE  x <= y
  <2>1. x \in Nat /\ y \in Nat
    OBVIOUS
  <2>2. ~(y < x)
    BY <1>2, <1>3, <2>1
  <2> QED
    BY <2>1, <2>2
<1> QED
  BY <1>4

LEMMA Largest ==
  ASSUME NEW n \in Nat, NEW T \in SUBSET (1..n), T # {}
  PROVE  Max(T) \in T /\ \A y \in T : y <= Max(T)
<1> DEFINE U == {n - t : t \in T}
<1>1. U \in SUBSET Nat /\ U # {}
  <2>1. \A t \in T : n - t \in Nat
    OBVIOUS
  <2> QED
    BY <2>1
<1>2. PICK u \in U : \A v \in U : u <= v
  <2> HIDE DEF U
  <2> QED
    BY <1>1, Smallest
<1>3. PICK m \in T : u = n - m
  BY <1>2
<1>4. ASSUME NEW y \in T
      PROVE  m >= y
  <2>1. n - m <= n - y
    BY <1>2, <1>3
  <2>2. m \in 1..n /\ y \in 1..n
    OBVIOUS
  <2> QED
    BY <2>1, <2>2
<1> QED
  BY <1>4 DEF Max

-----------------------------------------------------------------------------
(***************************************************************************)
(* Looking up a name.                                                      *)
(***************************************************************************)
\* A name is looked up in the last level first.
LEMMA LookUp ==
  ASSUME NEW t \in Seq(Table), NEW g \in Table, NEW y
  PROVE  LET u == Append(t, g) IN
         /\ y \in DOMAIN g => Found(u, y) /\ Local(u, y) = g[y]
         /\ y \notin DOMAIN g => (Found(u, y) <=> Found(t, y)) /\ Local(u, y) = Local(t, y)
<1> DEFINE u == Append(t, g)
           I == {i \in DOMAIN t : y \in DOMAIN t[i]}
           J == {i \in DOMAIN u : y \in DOMAIN u[i]}
<1>1. /\ DOMAIN t = 1..Len(t) /\ Len(t) \in Nat /\ DOMAIN u = 1..(Len(t) + 1)
      /\ \A i \in 1..Len(t) : u[i] = t[i]
      /\ u[Len(t) + 1] = g
  OBVIOUS
<1>2. /\ Found(t, y) <=> I # {}
      /\ Found(u, y) <=> J # {}
  BY DEF Found
<1>3. /\ Local(t, y) = IF Found(t, y) THEN t[Max(I)][y] ELSE None
      /\ Local(u, y) = IF Found(u, y) THEN u[Max(J)][y] ELSE None
  BY DEF Local
<1> HIDE DEF u
<1>4. CASE y \in DOMAIN g
  <2>1. Len(t) + 1 \in J /\ J \in SUBSET (1..(Len(t) + 1)) /\ Len(t) + 1 \in Nat
    BY <1>1, <1>4
  <2> HIDE DEF J
  <2>2. Max(J) \in J /\ \A j \in J : j <= Max(J)
    BY <2>1, Largest
  <2>3. Max(J) = Len(t) + 1
    <3>1. Max(J) \in 1..(Len(t) + 1) /\ Len(t) + 1 <= Max(J)
      BY <2>1, <2>2
    <3> QED
      BY <1>1, <3>1
  <2>4. Found(u, y) /\ Local(u, y) = g[y]
    BY <1>1, <1>2, <1>3, <2>1, <2>3
  <2> QED
    BY <1>4, <2>4 DEF u
<1>5. CASE y \notin DOMAIN g
  <2>1. J = I /\ I \in SUBSET (1..Len(t))
    BY <1>1, <1>5
  <2> HIDE DEF I, J
  <2>2. I # {} => Max(I) \in I
    BY <1>1, <2>1, Largest
  <2>3. I # {} => u[Max(I)] = t[Max(I)]
    BY <1>1, <2>1, <2>2
  <2> QED
    BY <1>2, <1>3, <1>5, <2>1, <2>3 DEF u
<1> QED
  BY <1>4, <1>5

\* A level with x besides.
With(g, x, d) == [y \in DOMAIN g \cup {x} |-> IF y \in DOMAIN g THEN g[y] ELSE d]

LEMMA WithType ==
  ASSUME NEW g \in Table, NEW x \in Names, NEW d \in Int
  PROVE  With(g, x, d) \in Table
<1>1. PICK D \in SUBSET Names : g \in [D -> Int]
  BY DEF Table
<1>2. With(g, x, d) \in [D \cup {x} -> Int] /\ D \cup {x} \in SUBSET Names
  BY <1>1 DEF With
<1> QED
  BY <1>2 DEF Table

LEMMA AddLast ==
  ASSUME NEW t \in Seq(Table), NEW g \in Table, NEW x \in Names, NEW d \in Int
  PROVE  Add(Append(t, g), x, d) = Append(t, With(g, x, d))
<1> DEFINE u == Append(t, g)
           v == Append(t, With(g, x, d))
<1>1. With(g, x, d) \in Table
  BY WithType
<1>2. /\ Len(u) = Len(t) + 1 /\ Len(t) \in Nat /\ DOMAIN u = 1..(Len(t) + 1) /\ u \in Seq(Table)
      /\ \A i \in 1..Len(t) : u[i] = t[i]
      /\ u[Len(t) + 1] = g
  OBVIOUS
<1>3. /\ DOMAIN v = 1..(Len(t) + 1) /\ v \in Seq(Table) /\ Len(v) = Len(t) + 1
      /\ \A i \in 1..Len(t) : v[i] = t[i]
      /\ v[Len(t) + 1] = With(g, x, d)
  BY <1>1
<1>4. Add(u, x, d) = [u EXCEPT ![Len(u)] = With(@, x, d)]
  BY DEF Add, With
<1> HIDE DEF u, v
<1>5. Add(u, x, d) \in Seq(Table) /\ Len(Add(u, x, d)) = Len(u)
  BY <1>2, AddType
<1>6. \A i \in 1..(Len(t) + 1) : Add(u, x, d)[i] = v[i]
  BY <1>2, <1>3, <1>4
<1>7. Add(u, x, d) = v
  BY <1>2, <1>3, <1>5, <1>6, SeqEqual
<1> QED
  BY <1>7 DEF u, v

-----------------------------------------------------------------------------
(***************************************************************************)
(* Tables that agree.                                                      *)
(***************************************************************************)
\* Every name has the same definition, if it has one, in both.
Agree(s, g) == \A x : (Found(s, x) <=> Found(g, x)) /\ Local(s, x) = Local(g, x)

LEMMA AgreeEmpty == Agree(<< >>, << >>)
BY DEF Agree

LEMMA AgreeLevel ==
  ASSUME NEW s \in Seq(Table), NEW g \in Seq(Table), Agree(s, g)
  PROVE  Agree(PushLevel(s), PushLevel(g))
<1>1. Empty \in Table /\ DOMAIN Empty = {}
  BY LevelTypes DEF Empty
<1> QED
  BY <1>1, LookUp DEF Agree, PushLevel

\* The same level on both.
LEMMA AgreeMore ==
  ASSUME NEW s \in Seq(Table), NEW g \in Seq(Table), NEW h \in Table, Agree(s, g)
  PROVE  Agree(Append(s, h), Append(g, h))
BY LookUp DEF Agree

\* A definition does not touch the other names.
LEMMA AddOther ==
  ASSUME NEW t \in Seq(Table), t # << >>, NEW x \in Names, NEW d \in Int, NEW y, y # x
  PROVE  Local(Add(t, x, d), y) = Local(t, y)
<1> DEFINE t1 == Front(t)
           p == Last(t)
<1>1. t1 \in Seq(Table) /\ p \in Table /\ t = Append(t1, p)
  BY FrontAppend
<1> HIDE DEF t1, p
<1>2. With(p, x, d) \in Table /\ Add(t, x, d) = Append(t1, With(p, x, d))
  BY <1>1, WithType, AddLast
<1>3. /\ y \in DOMAIN With(p, x, d) <=> y \in DOMAIN p
      /\ y \in DOMAIN p => With(p, x, d)[y] = p[y]
  BY DEF With
<1> QED
  BY <1>1, <1>2, <1>3, LookUp

\* A name that is not in s is entered into both.
LEMMA AgreeAdd ==
  ASSUME NEW s \in Seq(Table), NEW g \in Seq(Table), s # << >>, g # << >>,
         NEW x \in Names, NEW d \in Int, Agree(s, g), ~Found(s, x)
  PROVE  Agree(Add(s, x, d), Add(g, x, d))
<1> DEFINE s1 == Front(s)
           g1 == Front(g)
           p == Last(s)
           q == Last(g)
<1>1. /\ s1 \in Seq(Table) /\ p \in Table /\ s = Append(s1, p)
      /\ g1 \in Seq(Table) /\ q \in Table /\ g = Append(g1, q)
  BY FrontAppend
<1> HIDE DEF s1, g1, p, q
<1>2. x \notin DOMAIN p /\ x \notin DOMAIN q
  BY <1>1, LookUp DEF Agree
<1>3. With(p, x, d) \in Table /\ With(q, x, d) \in Table
  BY <1>1, WithType
<1>4. /\ Add(s, x, d) = Append(s1, With(p, x, d))
      /\ Add(g, x, d) = Append(g1, With(q, x, d))
  BY <1>1, AddLast
<1>5. /\ DOMAIN With(p, x, d) = DOMAIN p \cup {x} /\ DOMAIN With(q, x, d) = DOMAIN q \cup {x}
      /\ With(p, x, d)[x] = d /\ With(q, x, d)[x] = d
      /\ \A y \in DOMAIN p : With(p, x, d)[y] = p[y]
      /\ \A y \in DOMAIN q : With(q, x, d)[y] = q[y]
  BY <1>2 DEF With
<1>6. ASSUME NEW t \in Seq(Table), NEW h \in Table, x \notin DOMAIN h, NEW y
      PROVE  LET u == Append(t, h)
                 v == Append(t, With(h, x, d)) IN
             /\ y = x => Found(v, y) /\ Local(v, y) = d
             /\ y # x => (Found(v, y) <=> Found(u, y)) /\ Local(v, y) = Local(u, y)
  <2>1. With(h, x, d) \in Table
    BY WithType
  <2>2. /\ DOMAIN With(h, x, d) = DOMAIN h \cup {x} /\ With(h, x, d)[x] = d
        /\ \A z \in DOMAIN h : With(h, x, d)[z] = h[z]
    BY <1>6 DEF With
  <2> QED
    BY <2>1, <2>2, LookUp
<1>7. ASSUME NEW y
      PROVE  /\ Found(Add(s, x, d), y) <=> Found(Add(g, x, d), y)
             /\ Local(Add(s, x, d), y) = Local(Add(g, x, d), y)
  <2>1. /\ y = x => Found(Add(s, x, d), y) /\ Local(Add(s, x, d), y) = d
        /\ y # x => (Found(Add(s, x, d), y) <=> Found(s, y)) /\ Local(Add(s, x, d), y) = Local(s, y)
    BY <1>1, <1>2, <1>4, <1>6
  <2>2. /\ y = x => Found(Add(g, x, d), y) /\ Local(Add(g, x, d), y) = d
        /\ y # x => (Found(Add(g, x, d), y) <=> Found(g, y)) /\ Local(Add(g, x, d), y) = Local(g, y)
    BY <1>1, <1>2, <1>4, <1>6
  <2> QED
    BY <2>1, <2>2 DEF Agree
<1> QED
  BY <1>7 DEF Agree

-----------------------------------------------------------------------------
(***************************************************************************)
(* The tables at the time each open statement was entered.                 *)
(***************************************************************************)
SemaOf(f) == If(f.sema, SemaLevels(f.kind))
GenOf(f) == If(f.mir, GenLevels(f.kind))
Without(t, n) == IF n = 0 THEN t ELSE SubSeq(t, 1, Len(t) - n)

\* The analysis is still to resolve statements in f.
Goes(f) == f.sema /\ ~f.over

\* S[i] and G[i] are what is left of the tables sc and lo when all but the first
\* i statements of o have ended.
Snapshots(o, sc, lo, S, G) ==
  /\ S[Len(o)] = sc /\ G[Len(o)] = lo
  /\ \A i \in 1..Len(o) :
       S[i - 1] = Without(S[i], SemaOf(o[i])) /\ G[i - 1] = Without(G[i], GenOf(o[i]))
  /\ Agree(S[0], G[0])
  /\ \A i \in 1..Len(o) : Goes(o[i]) => Agree(S[i], G[i])

InStep(o, sc, lo) ==
  \E S, G \in [0..Len(o) -> Seq(Table)] : Snapshots(o, sc, lo, S, G)

LEMMA InStepHere ==
  ASSUME NEW o \in Seq(Frames), NEW sc, NEW lo, InStep(o, sc, lo),
         o = << >> \/ Goes(Last(o))
  PROVE  Agree(sc, lo)
<1>1. PICK S, G \in [0..Len(o) -> Seq(Table)] : Snapshots(o, sc, lo, S, G)
  BY DEF InStep
<1>2. CASE o = << >>
  BY <1>1, <1>2 DEF Snapshots
<1>3. CASE o # << >> /\ Goes(Last(o))
  <2>1. Len(o) \in Nat /\ Len(o) > 0 /\ Last(o) = o[Len(o)]
    BY <1>3, FrontAppend
  <2>2. Len(o) \in 1..Len(o)
    BY <2>1
  <2> QED
    BY <1>1, <1>3, <2>1, <2>2 DEF Snapshots
<1> QED
  BY <1>2, <1>3

LEMMA InStepPush ==
  ASSUME NEW o \in Seq(Frames), NEW f \in Frames, NEW sc, NEW lo, InStep(o, sc, lo),
         NEW sc1 \in Seq(Table), NEW lo1 \in Seq(Table),
         Without(sc1, SemaOf(f)) = sc, Without(lo1, GenOf(f)) = lo,
         Goes(f) => Agree(sc1, lo1)
  PROVE  InStep(Append(o, f), sc1, lo1)
<1> DEFINE n == Len(o)
           t == Append(o, f)
<1>1. PICK S, G \in [0..n -> Seq(Table)] : Snapshots(o, sc, lo, S, G)
  BY DEF InStep
<1>2. n \in Nat /\ Len(t) = n + 1 /\ t[n + 1] = f /\ \A i \in 1..n : t[i] = o[i]
  OBVIOUS
<1> DEFINE S1 == [i \in 0..(n + 1) |-> IF i = n + 1 THEN sc1 ELSE S[i]]
           G1 == [i \in 0..(n + 1) |-> IF i = n + 1 THEN lo1 ELSE G[i]]
<1> HIDE DEF t, n
<1>3. S1 \in [0..(n + 1) -> Seq(Table)] /\ G1 \in [0..(n + 1) -> Seq(Table)]
  BY <1>1, <1>2
<1>4. /\ S1[n + 1] = sc1 /\ G1[n + 1] = lo1
      /\ \A i \in 0..n : S1[i] = S[i] /\ G1[i] = G[i]
  BY <1>2
<1> HIDE DEF S1, G1
<1>5. ASSUME NEW i \in 1..(n + 1)
      PROVE  /\ S1[i - 1] = Without(S1[i], SemaOf(t[i]))
             /\ G1[i - 1] = Without(G1[i], GenOf(t[i]))
             /\ Goes(t[i]) => Agree(S1[i], G1[i])
  <2>1. CASE i = n + 1
    <3>1. i - 1 = n /\ n \in 0..n
      <4>1. n \in Nat /\ i = n + 1
        BY <1>2, <2>1
      <4> QED
        BY <4>1
    <3>2. S[n] = sc /\ G[n] = lo
      BY <1>1 DEF Snapshots, n
    <3>3. S1[i - 1] = sc /\ G1[i - 1] = lo
      BY <1>4, <3>1, <3>2
    <3> QED
      BY <1>2, <1>4, <2>1, <3>3
  <2>2. CASE i \in 1..n
    <3>1. i \in 0..n /\ i - 1 \in 0..n
      BY <1>2, <2>2
    <3> QED
      BY <1>1, <1>2, <1>4, <2>2, <3>1 DEF Snapshots, n
  <2> QED
    BY <1>2, <2>1, <2>2
<1>6. Agree(S1[0], G1[0])
  BY <1>1, <1>2, <1>4 DEF Snapshots
<1>7. Snapshots(t, sc1, lo1, S1, G1)
  BY <1>2, <1>4, <1>5, <1>6 DEF Snapshots
<1> QED
  BY <1>2, <1>3, <1>7 DEF InStep, t

LEMMA InStepPop ==
  ASSUME NEW o \in Seq(Frames), o # << >>, NEW sc, NEW lo, InStep(o, sc, lo)
  PROVE  InStep(Front(o), Without(sc, SemaOf(Last(o))), Without(lo, GenOf(Last(o))))
<1> DEFINE n == Len(o)
           t == Front(o)
<1>1. PICK S, G \in [0..n -> Seq(Table)] : Snapshots(o, sc, lo, S, G)
  BY DEF InStep
<1>2. /\ n \in Nat /\ n > 0 /\ Len(t) = n - 1 /\ \A i \in 1..n - 1 : t[i] = o[i]
      /\ Last(o) = o[n]
  BY FrontAppend
<1> DEFINE S1 == [i \in 0..n - 1 |-> S[i]]
           G1 == [i \in 0..n - 1 |-> G[i]]
<1> HIDE DEF t, n
<1>3. S1 \in [0..n - 1 -> Seq(Table)] /\ G1 \in [0..n - 1 -> Seq(Table)]
  BY <1>1, <1>2
<1>4. \A i \in 0..n - 1 : S1[i] = S[i] /\ G1[i] = G[i]
  OBVIOUS
<1> HIDE DEF S1, G1
<1>5. ASSUME NEW i \in 1..n - 1
      PROVE  /\ S1[i - 1] = Without(S1[i], SemaOf(t[i]))
             /\ G1[i - 1] = Without(G1[i], GenOf(t[i]))
             /\ Goes(t[i]) => Agree(S1[i], G1[i])
  <2>1. i \in 1..n /\ i \in 0..n - 1 /\ i - 1 \in 0..n - 1
    BY <1>2
  <2> QED
    BY <1>1, <1>2, <1>4, <2>1 DEF Snapshots, n
<1>6. Agree(S1[0], G1[0])
  BY <1>1, <1>2, <1>4 DEF Snapshots
<1>7. /\ S1[n - 1] = Without(sc, SemaOf(Last(o)))
      /\ G1[n - 1] = Without(lo, GenOf(Last(o)))
  <2>1. n \in 1..n /\ n - 1 \in 0..n - 1
    BY <1>2
  <2> QED
    BY <1>1, <1>2, <1>4, <2>1 DEF Snapshots, n
<1>8. Snapshots(t, Without(sc, SemaOf(Last(o))), Without(lo, GenOf(Last(o))), S1, G1)
  BY <1>2, <1>5, <1>6, <1>7 DEF Snapshots
<1> QED
  BY <1>2, <1>3, <1>8 DEF InStep, t

\* The innermost statement learns something, or its own levels change.
LEMMA InStepStay ==
  ASSUME NEW o \in Seq(Frames), o # << >>, NEW f \in Frames,
         f.kind = Last(o).kind, f.sema = Last(o).sema, f.mir = Last(o).mir,
         NEW sc, NEW lo, InStep(o, sc, lo), NEW sc1 \in Seq(Table), NEW lo1 \in Seq(Table),
         Without(sc1, SemaOf(f)) = Without(sc, SemaOf(f)),
         Without(lo1, GenOf(f)) = Without(lo, GenOf(f)),
         Goes(f) => Agree(sc1, lo1)
  PROVE  InStep([o EXCEPT ![Len(o)] = f], sc1, lo1)
<1> DEFINE t == [o EXCEPT ![Len(o)] = f]
           u == Append(Front(o), f)
<1>1. SemaOf(Last(o)) = SemaOf(f) /\ GenOf(Last(o)) = GenOf(f)
  BY DEF SemaOf, GenOf
<1>2. Front(o) \in Seq(Frames)
  BY FrontAppend
<1>3. InStep(Front(o), Without(sc, SemaOf(f)), Without(lo, GenOf(f)))
  BY <1>1, InStepPop
<1>4. InStep(u, sc1, lo1)
  BY <1>2, <1>3, InStepPush
<1>5. t = u
  <2>0. Len(o) \in Nat /\ Len(o) > 0
    BY FrontAppend
  <2>1. /\ t \in Seq(Frames) /\ Len(t) = Len(o) /\ Len(o) \in Nat /\ Len(o) > 0
        /\ \A i \in 1..Len(o) - 1 : t[i] = o[i]
        /\ t[Len(o)] = f
    BY <2>0
  <2>2. /\ Len(Front(o)) = Len(o) - 1 /\ \A i \in 1..Len(o) - 1 : Front(o)[i] = o[i]
    BY FrontAppend
  <2>3. /\ u \in Seq(Frames) /\ Len(u) = Len(o)
        /\ \A i \in 1..Len(o) - 1 : u[i] = o[i]
        /\ u[Len(o)] = f
    <3> DEFINE p == Front(o)
    <3>1. /\ u \in Seq(Frames) /\ Len(u) = Len(p) + 1 /\ u[Len(p) + 1] = f
          /\ \A i \in 1..Len(p) : u[i] = p[i]
      BY <1>2
    <3>2. Len(p) + 1 = Len(o) /\ Len(p) = Len(o) - 1
      BY <2>0, <2>2
    <3> HIDE DEF p, u
    <3> QED
      BY <2>2, <3>1, <3>2 DEF p
  <2> HIDE DEF t, u
  <2>4. \A i \in 1..Len(o) : t[i] = u[i]
    BY <2>1, <2>3
  <2> QED
    BY <2>1, <2>3, <2>4, SeqEqual
<1> QED
  BY <1>4, <1>5

-----------------------------------------------------------------------------
(***************************************************************************)
(* What the passes do to their tables.                                     *)
(***************************************************************************)
LEMMA Beginning ==
  ASSUME NEW t \in Seq(Table), NEW u \in Seq(Table), NEW n \in Nat \ {0},
         Len(u) = Len(t) + n, \A i \in 1..Len(t) : u[i] = t[i]
  PROVE  Without(u, n) = t
<1>1. Len(u) \in Nat /\ Len(t) \in Nat /\ Len(u) - n = Len(t) /\ Len(t) \in 0..Len(u)
  OBVIOUS
<1>2. /\ SubSeq(u, 1, Len(t)) \in Seq(Table) /\ Len(SubSeq(u, 1, Len(t))) = Len(t)
      /\ \A i \in 1..Len(t) : SubSeq(u, 1, Len(t))[i] = u[i]
  BY <1>1, Prefix
<1>3. SubSeq(u, 1, Len(t)) = t
  BY <1>2, SeqEqual
<1> QED
  BY <1>1, <1>3 DEF Without

LEMMA LevelsAway ==
  ASSUME NEW t \in Seq(Table), NEW a \in Table, NEW b \in Table
  PROVE  /\ Without(Append(t, a), 1) = t
         /\ Without(Append(Append(t, a), b), 2) = t
         /\ Without(t, 0) = t
<1> DEFINE u == Append(t, a)
           v == Append(u, b)
<1>1. Len(t) \in Nat /\ u \in Seq(Table) /\ Len(u) = Len(t) + 1 /\ \A i \in 1..Len(t) : u[i] = t[i]
  OBVIOUS
<1>2. v \in Seq(Table) /\ Len(v) = Len(t) + 2 /\ \A i \in 1..Len(t) : v[i] = t[i]
  <2> HIDE DEF u
  <2>1. v \in Seq(Table) /\ Len(v) = Len(u) + 1 /\ \A i \in 1..Len(u) : v[i] = u[i]
    BY <1>1
  <2> HIDE DEF v
  <2>2. \A i \in 1..Len(t) : i \in 1..Len(u)
    BY <1>1
  <2>3. (Len(t) + 1) + 1 = Len(t) + 2
    BY <1>1
  <2> QED
    BY <1>1, <2>1, <2>2, <2>3
<1> HIDE DEF v, u
<1>3. Without(u, 1) = t
  BY <1>1, Beginning
<1>4. Without(v, 2) = t
  BY <1>2, Beginning
<1> QED
  BY <1>3, <1>4 DEF u, v, Without

\* The level of a statement with one block.
LEMMA LevelOn ==
  ASSUME NEW t \in Seq(Table)
  PROVE  t \o [i \in 1..1 |-> Empty] = PushLevel(t)
<1> DEFINE e == [i \in 1..1 |-> Empty]
<1>1. e = <<Empty>>
  <2>1. e \in Seq(Table) /\ <<Empty>> \in Seq(Table) /\ Len(e) = 1 /\ Len(<<Empty>>) = 1
    BY LevelTypes
  <2>2. \A i \in 1..1 : e[i] = <<Empty>>[i]
    OBVIOUS
  <2> HIDE DEF e
  <2> QED
    BY <2>1, <2>2, SeqEqual
<1>2. t \o <<Empty>> = Append(t, Empty)
  BY LevelTypes, AppendIsConcat
<1> QED
  BY <1>1, <1>2 DEF PushLevel

\* A definition changes the last level only.
LEMMA AddAway ==
  ASSUME NEW t \in Seq(Table), NEW x \in Names, NEW d \in Int, NEW n \in {1, 2}, Len(t) >= n
  PROVE  Without(Add(t, x, d), n) = Without(t, n)
<1> DEFINE u == Add(t, x, d)
           m == Len(t) - n
<1>1. u \in Seq(Table) /\ Len(u) = Len(t) /\ Len(t) \in Nat /\ m \in Nat /\ m \in 0..Len(t)
  BY AddType
<1>2. \A i \in 1..Len(t) : i # Len(t) => u[i] = t[i]
  BY DEF Add
<1> HIDE DEF u
<1>3. /\ SubSeq(t, 1, m) \in Seq(Table) /\ Len(SubSeq(t, 1, m)) = m
      /\ \A i \in 1..m : SubSeq(t, 1, m)[i] = t[i]
  BY <1>1, Prefix
<1>4. /\ SubSeq(u, 1, m) \in Seq(Table) /\ Len(SubSeq(u, 1, m)) = m
      /\ \A i \in 1..m : SubSeq(u, 1, m)[i] = u[i]
  BY <1>1, Prefix
<1>5. \A i \in 1..m : i \in 1..Len(t) /\ i # Len(t)
  OBVIOUS
<1> HIDE DEF m
<1>6. SubSeq(t, 1, m) = SubSeq(u, 1, m)
  BY <1>2, <1>3, <1>4, <1>5, SeqEqual
<1>7. Without(u, n) = SubSeq(u, 1, Len(u) - n) /\ Without(t, n) = SubSeq(t, 1, Len(t) - n)
  BY DEF Without
<1> QED
  BY <1>1, <1>6, <1>7 DEF u, m

\* The definition of a variable in a level of its own.
LEMMA AddOn ==
  ASSUME NEW t \in Seq(Table), NEW x \in Names, NEW d \in Int
  PROVE  \E h \in Table : Add(PushLevel(t), x, d) = Append(t, h)
BY LevelTypes, WithType, AddLast DEF PushLevel

-----------------------------------------------------------------------------
(***************************************************************************)
(* The invariant.                                                          *)
(***************************************************************************)
Distinct(cases) ==
  \A i, j \in DOMAIN cases : i # j /\ cases[i] = cases[j] => cases[i] = Default

\* What the notes in a frame say: a ret that was read was translated, the labels
\* of a match are different, and a match that is translated only is read as
\* wrong code at once.
FrameOk(f, err, wr) ==
  /\ f.kind \in {"impl", "cond", "match"} => ~f.over
  /\ f.shut => f.over
  /\ ~err /\ f.ret => f.shut
  /\ ~err /\ wr = {} /\ f.kind = "match" /\ f.mir => f.sema
  /\ ~err /\ f.kind = "match" /\ f.sema => Distinct(f.cases)

FramesOk(o, err, wr) == \A i \in DOMAIN o : FrameOk(o[i], err, wr)

Right ==
  /\ IInv
  /\ FramesOk(open, errors, wrong)
  /\ ~errors => InStep(open, scopes, locals)
  /\ SameVariable /\ ReturnsLast /\ SwitchIsMatch

-----------------------------------------------------------------------------
(***************************************************************************)
(* Frames.                                                                 *)
(***************************************************************************)
LEMMA FramesLater ==
  ASSUME NEW o, NEW err, NEW wr, FramesOk(o, err, {}), NEW later, err => later
  PROVE  FramesOk(o, later, wr)
BY DEF FramesOk, FrameOk

LEMMA FramesPush ==
  ASSUME NEW o \in Seq(Frames), NEW f, NEW err, NEW wr, FramesOk(o, err, wr), FrameOk(f, err, wr)
  PROVE  FramesOk(Append(o, f), err, wr)
<1> DEFINE t == Append(o, f)
<1>1. /\ DOMAIN o = 1..Len(o) /\ Len(o) \in Nat /\ DOMAIN t = 1..(Len(o) + 1)
      /\ \A i \in 1..Len(o) : t[i] = o[i]
      /\ t[Len(o) + 1] = f
  OBVIOUS
<1> HIDE DEF t
<1>2. \A i \in DOMAIN t : i \in DOMAIN o \/ i = Len(o) + 1
  BY <1>1
<1> QED
  BY <1>1, <1>2 DEF FramesOk, t

LEMMA FramesPop ==
  ASSUME NEW o \in Seq(Frames), o # << >>, NEW err, NEW wr, FramesOk(o, err, wr)
  PROVE  FramesOk(Front(o), err, wr)
<1>1. /\ DOMAIN o = 1..Len(o) /\ Len(o) \in Nat /\ DOMAIN Front(o) = 1..Len(o) - 1
      /\ \A i \in 1..Len(o) - 1 : Front(o)[i] = o[i]
  BY FrontAppend
<1> QED
  BY <1>1 DEF FramesOk

LEMMA FramesStay ==
  ASSUME NEW o \in Seq(Frames), NEW f, NEW err, NEW wr, FramesOk(o, err, wr), FrameOk(f, err, wr)
  PROVE  FramesOk([o EXCEPT ![Len(o)] = f], err, wr)
BY DEF FramesOk

LEMMA FrameHere ==
  ASSUME IInv, open # << >>, NEW err, NEW wr, FramesOk(open, err, wr)
  PROVE  FrameOk(Here, err, wr)
BY HereType DEF FramesOk

\* A new block.
LEMMA FrameNew ==
  ASSUME NEW kind, kind # "match", NEW err, NEW wr
  PROVE  /\ \A sema, mir : FrameOk(Frame(kind, sema, mir), err, wr)
         /\ FrameOk(Inner(kind), err, wr)
BY DEF FrameOk, Frame, Inner

-----------------------------------------------------------------------------
(***************************************************************************)
(* Statements in a block.                                                  *)
(***************************************************************************)
LEMMA GoesHere ==
  ASSUME IInv, open # << >>
  PROVE  /\ Resolved = Goes(Here)
         /\ ~errors /\ Resolved => Translated
BY HereType DEF Goes, Resolved, Translated, IInv, Nested

LEMMA AgreeHere ==
  ASSUME IInv, open # << >>, InStep(open, scopes, locals), Resolved
  PROVE  Agree(scopes, locals)
BY GoesHere, InStepHere DEF IInv, Typed, Here

LEMMA Reads ==
  ASSUME NEW s, NEW g, Agree(s, g), NEW e
  PROVE  Misread(s, g, e) = {}
BY DEF Agree, Misread

\* What is read in a block that is resolved is right, and what is read wrong in
\* one that is not is in a gap.
LEMMA WalkRight ==
  ASSUME IInv, open # << >>, FrameOk(Here, errors, wrong),
         NEW err, NEW s, NEW g, NEW es, NEW bad, Walk(err, bad),
         bad \ {"no loop"} \subseteq Bad(s, g, es),
         ~errors' /\ Resolved => \A e \in es : Misread(s, g, e) = {}
  PROVE  SameVariable' /\ ReturnsLast' /\ SwitchIsMatch'
<1>1. CASE errors'
  BY <1>1 DEF Walk, SameVariable, ReturnsLast, SwitchIsMatch
<1>2. CASE ~errors' /\ Translated /\ ~Resolved
  <2>1. gaps' # {}
    BY <1>2 DEF Walk
  <2> QED
    BY <2>1 DEF SameVariable, ReturnsLast, SwitchIsMatch
<1>3. CASE ~errors' /\ ~Translated
  <2>1. Bad(s, g, es) = {}
    BY <1>3 DEF Bad
  <2>2. wrong' \subseteq {"no loop"}
    BY <1>3, <2>1 DEF Walk
  <2> QED
    BY <2>2 DEF SameVariable, ReturnsLast, SwitchIsMatch
<1>4. CASE ~errors' /\ Translated /\ Resolved
  <2>1. ~Here.shut
    BY <1>4 DEF Resolved, FrameOk
  <2>2. \A e \in es : Misread(s, g, e) = {}
    BY <1>4
  <2>3. Bad(s, g, es) = {}
    BY <1>4, <2>1, <2>2 DEF Bad
  <2>4. wrong' \subseteq {"no loop"}
    BY <1>4, <2>3 DEF Walk
  <2> QED
    BY <2>4 DEF SameVariable, ReturnsLast, SwitchIsMatch
<1> QED
  BY <1>1, <1>2, <1>3, <1>4

LEMMA InnerFrame ==
  ASSUME IInv, open # << >>, NEW kind \in Kinds \ {"impl", "func"}
  PROVE  /\ Inner(kind) \in Frames /\ Inner(kind).kind = kind
         /\ Inner(kind).sema = Resolved /\ Inner(kind).mir = Translated
         /\ Goes(Inner(kind)) = Resolved
         /\ SemaOf(Inner(kind)) = If(Resolved, SemaLevels(kind))
         /\ GenOf(Inner(kind)) = If(Translated, GenLevels(kind))
<1>1. /\ Inner(kind) \in Frames /\ Inner(kind).kind = kind
      /\ Inner(kind).sema = Resolved /\ Inner(kind).mir = Translated
      /\ Inner(kind).over = FALSE /\ Resolved \in BOOLEAN
  BY HereType, FrameType DEF Inner, Frame
<1> QED
  BY <1>1 DEF Goes, SemaOf, GenOf

\* A block with a level for each pass is put on o.
LEMMA BlockInStep ==
  ASSUME IInv, ~errors, open # << >>, NEW o \in Seq(Frames), InStep(o, scopes, locals),
         Resolved => Agree(scopes, locals),
         NEW kind \in Arms \cup {"while"}, scopes' = SemaPush(1), locals' = GenPush(1)
  PROVE  InStep(Append(o, Inner(kind)), scopes', locals')
<1>1. /\ Inner(kind) \in Frames /\ Goes(Inner(kind)) = Resolved
      /\ SemaOf(Inner(kind)) = If(Resolved, 1) /\ GenOf(Inner(kind)) = If(Translated, 1)
  BY InnerFrame, LevelsOf DEF Kinds, Arms, Loops
<1>2. scopes \in Seq(Table) /\ locals \in Seq(Table)
  BY DEF IInv, Typed
<1>3. /\ scopes' = IF Resolved THEN PushLevel(scopes) ELSE scopes
      /\ locals' = IF Translated THEN PushLevel(locals) ELSE locals
  BY <1>2, LevelOn DEF SemaPush, GenPush
<1>4. /\ PushLevel(scopes) \in Seq(Table) /\ PushLevel(locals) \in Seq(Table)
      /\ Without(PushLevel(scopes), 1) = scopes /\ Without(PushLevel(locals), 1) = locals
      /\ Without(scopes, 0) = scopes /\ Without(locals, 0) = locals
  BY <1>2, LevelMore, LevelTypes, LevelsAway DEF PushLevel
<1>5. Without(scopes', If(Resolved, 1)) = scopes /\ Without(locals', If(Translated, 1)) = locals
  BY <1>3, <1>4 DEF If
<1>6. Resolved => Agree(scopes', locals')
  BY <1>2, <1>3, GoesHere, AgreeLevel
<1>7. scopes' \in Seq(Table) /\ locals' \in Seq(Table)
  BY <1>2, <1>3, <1>4
<1> QED
  BY <1>1, <1>5, <1>6, <1>7, InStepPush

\* A block without a level is put on o.
LEMMA BareInStep ==
  ASSUME NEW o \in Seq(Frames), NEW f \in Frames, NEW sc \in Seq(Table), NEW lo \in Seq(Table),
         InStep(o, sc, lo), f.kind \in {"impl", "cond", "match"}, Goes(f) => Agree(sc, lo)
  PROVE  InStep(Append(o, f), sc, lo)
<1>1. SemaOf(f) = 0 /\ GenOf(f) = 0
  BY LevelsOf DEF SemaOf, GenOf, If
<1>2. Without(sc, 0) = sc /\ Without(lo, 0) = lo
  BY DEF Without
<1> QED
  BY <1>1, <1>2, InStepPush

-----------------------------------------------------------------------------
(***************************************************************************)
(* The actions.                                                            *)
(***************************************************************************)
\* Statements that open nothing.
LEMMA DefineRight ==
  ASSUME Right, IInv', NEW x \in Names, NEW e \in Exprs, Define(x, e)
  PROVE  Right'
<1> DEFINE d == tokens + 1
<1>1. /\ open # << >> /\ wrong = {} /\ Here.kind \notin {"impl", "cond", "match"}
      /\ open' = open
      /\ scopes' = IF Resolved THEN Defined(scopes, x) ELSE scopes
      /\ locals' = IF Translated THEN Add(locals, x, d) ELSE locals
      /\ Walk(DefineReports(scopes, x, e), Bad(scopes, Add(locals, x, d), {e}))
  BY DEF Define, InBlock
<1>2. /\ IInv /\ scopes \in Seq(Table) /\ locals \in Seq(Table) /\ open \in Seq(Frames)
      /\ d \in Int /\ scopes' \in Seq(Table) /\ locals' \in Seq(Table)
  BY DEF Right, IInv, Typed
<1> HIDE DEF d
<1>3. /\ errors => errors'
      /\ ~errors' /\ Resolved => ~Found(scopes, x) /\ scopes' = Add(scopes, x, d)
  BY <1>1 DEF Walk, DefineReports, Taken, Defined, d
<1>4. FramesOk(open', errors', wrong')
  BY <1>1, <1>3, FramesLater DEF Right
<1>5. /\ Here \in Frames /\ Here.kind \in {"func"} \cup Arms \cup Loops
      /\ SemaLevels(Here.kind) \in {1, 2} /\ GenLevels(Here.kind) \in {1, 2}
      /\ (Resolved => Here.sema) /\ (Translated => Here.mir)
      /\ open = [open EXCEPT ![Len(open)] = Here]
  <2>1. Here \in Frames /\ Here = open[Len(open)]
    BY <1>1, <1>2, HereType
  <2>2. Here.kind \in Kinds
    BY <2>1 DEF Frames
  <2>3. Here.kind \in {"func"} \cup Arms \cup Loops
    BY <1>1, <2>2 DEF Kinds
  <2>4. SemaLevels(Here.kind) \in {1, 2} /\ GenLevels(Here.kind) \in {1, 2}
    BY <2>3 DEF SemaLevels, GenLevels, Arms, Loops, Twofold
  <2>5. open = [open EXCEPT ![Len(open)] = Here]
    BY <1>2, <2>1
  <2> QED
    BY <2>1, <2>3, <2>4, <2>5 DEF Resolved, Translated
<1>6. /\ Resolved => Len(scopes) >= SemaLevels(Here.kind)
      /\ Translated => Len(locals) >= GenLevels(Here.kind)
  <2>1. /\ Resolved => Len(scopes) - SemaLevels(Here.kind) \in Nat
        /\ Translated => Len(locals) - GenLevels(Here.kind) \in Nat
    BY <1>1, <1>2, <1>5, Room DEF If
  <2>2. Len(scopes) \in Nat /\ Len(locals) \in Nat
    BY <1>2
  <2> QED
    BY <1>5, <2>1, <2>2
<1>7. (Resolved => scopes # << >>) /\ (Translated => locals # << >>)
  BY <1>5, <1>6
<1>8. ASSUME ~errors'
      PROVE  InStep(open', scopes', locals')
  <2>1. ~errors /\ InStep(open, scopes, locals)
    BY <1>3, <1>8 DEF Right
  <2>2. Without(scopes', SemaOf(Here)) = Without(scopes, SemaOf(Here))
    <3>1. CASE Resolved
      <4>1. SemaOf(Here) = SemaLevels(Here.kind)
        BY <1>5, <3>1 DEF SemaOf, If
      <4> QED
        BY <1>2, <1>3, <1>5, <1>6, <1>8, <3>1, <4>1, AddAway
    <3>2. CASE ~Resolved
      BY <1>1, <3>2
    <3> QED
      BY <3>1, <3>2
  <2>3. Without(locals', GenOf(Here)) = Without(locals, GenOf(Here))
    <3>1. CASE Translated
      <4>1. GenOf(Here) = GenLevels(Here.kind)
        BY <1>5, <3>1 DEF GenOf, If
      <4> QED
        BY <1>1, <1>2, <1>5, <1>6, <3>1, <4>1, AddAway
    <3>2. CASE ~Translated
      BY <1>1, <3>2
    <3> QED
      BY <3>1, <3>2
  <2>4. ASSUME Goes(Here)
        PROVE  Agree(scopes', locals')
    <3>1. Resolved /\ Translated
      BY <1>1, <1>2, <2>1, <2>4, GoesHere
    <3>2. Agree(scopes, locals)
      BY <1>1, <1>2, <2>1, <3>1, AgreeHere
    <3> QED
      BY <1>1, <1>2, <1>3, <1>7, <1>8, <3>1, <3>2, AgreeAdd
  <2>5. Here = Last(open)
    BY DEF Here
  <2> QED
    BY <1>1, <1>2, <1>5, <2>1, <2>2, <2>3, <2>4, <2>5, InStepStay
<1>9. ASSUME ~errors', Resolved
      PROVE  Misread(scopes, Add(locals, x, d), e) = {}
  <2>1. /\ ~errors /\ InStep(open, scopes, locals) /\ ~Found(scopes, x) /\ Translated
    BY <1>1, <1>2, <1>3, <1>9, GoesHere DEF Right
  <2>2. Agree(scopes, locals)
    BY <1>1, <1>2, <1>9, <2>1, AgreeHere
  <2>3. e # x => Local(Add(locals, x, d), e) = Local(locals, e)
    BY <1>2, <1>7, <2>1, AddOther
  <2> QED
    BY <2>1, <2>2, <2>3 DEF Misread, Agree
<1>10. SameVariable' /\ ReturnsLast' /\ SwitchIsMatch'
  <2>1. FrameOk(Here, errors, wrong)
    BY <1>1, <1>2, FrameHere DEF Right
  <2>2. ~errors' /\ Resolved => \A f \in {e} : Misread(scopes, Add(locals, x, d), f) = {}
    BY <1>9
  <2> QED
    BY <1>1, <1>2, <2>1, <2>2, WalkRight
<1> QED
  BY <1>4, <1>8, <1>10 DEF Right

LEMMA InStmtExprRight ==
  ASSUME Right, IInv', NEW e \in Exprs, InStmtExpr(e)
  PROVE  Right'
<1>1. /\ open # << >> /\ wrong = {} /\ UNCHANGED <<open, scopes, locals>>
      /\ Walk(Undefined(scopes, e), Bad(scopes, locals, {e}))
  BY DEF InStmtExpr, InBlock
<1>2. IInv /\ (errors => errors')
  BY <1>1 DEF Right, Walk
<1>3. FramesOk(open', errors', wrong')
  BY <1>1, <1>2, FramesLater DEF Right
<1>4. ~errors' => InStep(open', scopes', locals')
  BY <1>1, <1>2 DEF Right
<1>5. ~errors' /\ Resolved => \A f \in {e} : Misread(scopes, locals, f) = {}
  BY <1>1, <1>2, AgreeHere, Reads DEF Right
<1>6. SameVariable' /\ ReturnsLast' /\ SwitchIsMatch'
  <2>1. FrameOk(Here, errors, wrong)
    BY <1>1, <1>2, FrameHere DEF Right
  <2> QED
    BY <1>1, <1>2, <1>5, <2>1, WalkRight
<1> QED
  BY <1>3, <1>4, <1>6 DEF Right

\* The block is left.
LEMMA LeftInStep ==
  ASSUME IInv, open # << >>, InStep(open, scopes, locals),
         NEW ret \in BOOLEAN, NEW shut \in BOOLEAN, NEW f,
         f = [Here EXCEPT !.over = TRUE, !.ret = ret, !.shut = shut]
  PROVE  InStep([open EXCEPT ![Len(open)] = f], scopes, locals)
<1>1. Here \in Frames /\ Here = Last(open)
  BY HereType DEF Here
<1>2. /\ f \in Frames /\ f.kind = Here.kind /\ f.sema = Here.sema /\ f.mir = Here.mir
      /\ f.over = TRUE
  BY <1>1 DEF Frames
<1>3. open \in Seq(Frames) /\ scopes \in Seq(Table) /\ locals \in Seq(Table)
  BY DEF IInv, Typed
<1>4. ~Goes(f)
  BY <1>2 DEF Goes
<1> QED
  BY <1>1, <1>2, <1>3, <1>4, InStepStay

LEMMA RetRight ==
  ASSUME Right, IInv', NEW es, Ret(es)
  PROVE  Right'
<1> DEFINE f == [Here EXCEPT !.over = TRUE, !.ret = TRUE, !.shut = Here.shut \/ Translated]
<1>1. /\ open # << >> /\ wrong = {} /\ Here.kind \notin {"impl", "cond", "match"}
      /\ Resolved \/ Translated
      /\ UNCHANGED <<scopes, locals>>
      /\ Walk(\/ es = {} /\ ~Func.void
              \/ \E e \in es : Func.void \/ Reported(scopes, e),
              Bad(scopes, locals, es))
      /\ open' = [open EXCEPT ![Len(open)].over = TRUE, ![Len(open)].ret = TRUE,
                              ![Len(open)].shut = @ \/ Translated]
  BY DEF Ret, InBlock
<1>2. IInv /\ open \in Seq(Frames) /\ (errors => errors')
  BY <1>1 DEF Right, Walk, IInv, Typed
<1>3. Here \in Frames /\ Here = open[Len(open)] /\ Len(open) \in DOMAIN open
  BY <1>1, <1>2, HereType
<1>4. open' = [open EXCEPT ![Len(open)] = f]
  BY <1>1, <1>2, <1>3
<1>5. FramesOk(open', errors', wrong')
  <2>1. FramesOk(open, errors', wrong')
    BY <1>1, <1>2, FramesLater DEF Right
  <2>2. f.kind = Here.kind /\ f.over = TRUE /\ f.shut = (Here.shut \/ Translated)
    BY <1>3 DEF Frames
  <2>3. ~errors' => Translated
    BY <1>1, <1>2, GoesHere
  <2>4. FrameOk(f, errors', wrong')
    BY <1>1, <2>2, <2>3 DEF FrameOk
  <2> QED
    BY <1>2, <1>4, <2>1, <2>4, FramesStay
<1>6. ~errors' => InStep(open', scopes', locals')
  <2>1. (Here.shut \/ Translated) \in BOOLEAN
        /\ f = [Here EXCEPT !.over = TRUE, !.ret = TRUE, !.shut = Here.shut \/ Translated]
    OBVIOUS
  <2> HIDE DEF f
  <2>2. ~errors' => InStep([open EXCEPT ![Len(open)] = f], scopes, locals)
    BY <1>1, <1>2, <2>1, LeftInStep DEF Right
  <2> QED
    BY <1>1, <1>4, <2>2
<1>7. ~errors' /\ Resolved => \A e \in es : Misread(scopes, locals, e) = {}
  BY <1>1, <1>2, AgreeHere, Reads DEF Right
<1>8. SameVariable' /\ ReturnsLast' /\ SwitchIsMatch'
  <2>1. FrameOk(Here, errors, wrong)
    BY <1>1, <1>2, FrameHere DEF Right
  <2> QED
    BY <1>1, <1>2, <1>7, <2>1, WalkRight
<1> QED
  BY <1>5, <1>6, <1>8 DEF Right

LEMMA JumpRight ==
  ASSUME Right, IInv', Jump
  PROVE  Right'
<1> DEFINE f == [Here EXCEPT !.over = TRUE, !.ret = Here.ret, !.shut = Here.shut]
           bad == Bad(scopes, locals, {})
                    \cup (IF Translated /\ loops = 0 THEN {"no loop"} ELSE {})
<1>1. /\ open # << >> /\ wrong = {} /\ Here.kind \notin {"impl", "cond", "match"}
      /\ UNCHANGED <<scopes, locals>> /\ Walk(~MayJump, bad)
      /\ open' = [open EXCEPT ![Len(open)].over = TRUE]
  BY DEF Jump, InBlock
<1>2. IInv /\ open \in Seq(Frames) /\ (errors => errors')
  BY <1>1 DEF Right, Walk, IInv, Typed
<1>3. /\ Here \in Frames /\ Here = open[Len(open)] /\ Len(open) \in DOMAIN open
      /\ Here.ret \in BOOLEAN /\ Here.shut \in BOOLEAN
  BY <1>1, <1>2, HereType DEF Frames
<1>4. open' = [open EXCEPT ![Len(open)] = f]
  BY <1>1, <1>2, <1>3 DEF Frames
<1>5. FramesOk(open', errors', wrong')
  <2>1. FramesOk(open, errors', wrong')
    BY <1>1, <1>2, FramesLater DEF Right
  <2>2. f.kind = Here.kind /\ f.over = TRUE /\ f.shut = Here.shut /\ f.ret = Here.ret
    BY <1>3 DEF Frames
  <2>3. FrameOk(Here, errors', wrong')
    BY <1>1, <1>2, <2>1, FrameHere
  <2>4. FrameOk(f, errors', wrong')
    BY <1>1, <2>2, <2>3 DEF FrameOk
  <2> QED
    BY <1>2, <1>4, <2>1, <2>4, FramesStay
<1>6. ~errors' => InStep(open', scopes', locals')
  <2>1. f = [Here EXCEPT !.over = TRUE, !.ret = Here.ret, !.shut = Here.shut]
    OBVIOUS
  <2> HIDE DEF f
  <2>2. ~errors' => InStep([open EXCEPT ![Len(open)] = f], scopes, locals)
    BY <1>1, <1>2, <1>3, <2>1, LeftInStep DEF Right
  <2> QED
    BY <1>1, <1>4, <2>2
<1>7. SameVariable' /\ ReturnsLast' /\ SwitchIsMatch'
  <2>1. FrameOk(Here, errors, wrong)
    BY <1>1, <1>2, FrameHere DEF Right
  <2>2. bad \ {"no loop"} \subseteq Bad(scopes, locals, {})
    OBVIOUS
  <2> HIDE DEF bad
  <2> QED
    BY <1>1, <1>2, <2>1, <2>2, WalkRight
<1> QED
  BY <1>5, <1>6, <1>7 DEF Right

\* A block with one level is opened.
LEMMA BlockRight ==
  ASSUME Right, IInv', open # << >>, wrong = {}, NEW kind \in Arms \cup {"while"},
         open' = Append(open, Inner(kind)), scopes' = SemaPush(1), locals' = GenPush(1),
         NEW err, NEW es, Walk(err, {}) \/ Walk(err, Bad(scopes, locals, es))
  PROVE  Right'
<1>1. IInv /\ open \in Seq(Frames) /\ (errors => errors') /\ kind # "match"
  BY DEF Right, Walk, IInv, Typed, Arms
<1>2. FramesOk(open', errors', wrong')
  <2>1. FramesOk(open, errors', wrong')
    BY <1>1, FramesLater DEF Right
  <2> QED
    BY <1>1, <2>1, FrameNew, FramesPush
<1>3. ~errors' /\ Resolved => Agree(scopes, locals)
  BY <1>1, AgreeHere DEF Right
<1>4. ~errors' => InStep(open', scopes', locals')
  BY <1>1, <1>3, BlockInStep DEF Right
<1>5. SameVariable' /\ ReturnsLast' /\ SwitchIsMatch'
  <2>1. FrameOk(Here, errors, wrong)
    BY <1>1, FrameHere DEF Right
  <2>2. ~errors' /\ Resolved => \A e \in es : Misread(scopes, locals, e) = {}
    BY <1>3, Reads
  <2>3. CASE Walk(err, {})
    <3>1. {} \ {"no loop"} \subseteq Bad(scopes, locals, es)
      OBVIOUS
    <3> QED
      BY <1>1, <2>1, <2>2, <2>3, <3>1, WalkRight
  <2>4. CASE Walk(err, Bad(scopes, locals, es))
    <3> DEFINE bad == Bad(scopes, locals, es)
    <3>1. bad \ {"no loop"} \subseteq Bad(scopes, locals, es)
      OBVIOUS
    <3> HIDE DEF bad
    <3> QED
      BY <1>1, <2>1, <2>2, <2>4, <3>1, WalkRight DEF bad
  <2> QED
    BY <2>3, <2>4
<1> QED
  BY <1>2, <1>4, <1>5 DEF Right

LEMMA ArmRight ==
  ASSUME Right, IInv', NEW e \in Exprs, ElseIf(e) \/ Else \/ While(e)
  PROVE  Right'
<1>1. CASE ElseIf(e)
  BY <1>1, BlockRight DEF ElseIf, AtArms, Arms
<1>2. CASE Else
  <2>1. /\ open # << >> /\ wrong = {} /\ open' = Append(open, Inner("else"))
        /\ scopes' = SemaPush(1) /\ locals' = GenPush(1) /\ Walk(FALSE, {})
    BY <1>2 DEF Else, AtArms
  <2> QED
    BY <2>1, BlockRight DEF Arms
<1>3. CASE While(e)
  BY <1>3, BlockRight DEF While, InBlock, Arms
<1> QED
  BY <1>1, <1>2, <1>3

LEMMA BeginCondRight ==
  ASSUME Right, IInv', NEW e \in Exprs, BeginCond(e)
  PROVE  Right'
<1> DEFINE o == Append(open, Inner("cond"))
<1>1. /\ open # << >> /\ wrong = {} /\ open' = open \o <<Inner("cond"), Inner("arm")>>
      /\ scopes' = SemaPush(1) /\ locals' = GenPush(1)
      /\ Walk(Reported(scopes, e), Bad(scopes, locals, {e}))
  BY DEF BeginCond, InBlock
<1>2. /\ IInv /\ open \in Seq(Frames) /\ (errors => errors')
      /\ scopes \in Seq(Table) /\ locals \in Seq(Table)
  BY <1>1 DEF Right, Walk, IInv, Typed
<1>3. /\ Inner("cond") \in Frames /\ Inner("cond").kind = "cond"
      /\ Goes(Inner("cond")) = Resolved
      /\ Inner("arm") \in Frames
  BY <1>1, <1>2, InnerFrame DEF Kinds, Arms
<1>4. o \in Seq(Frames) /\ open' = Append(o, Inner("arm"))
  BY <1>1, <1>2, <1>3
<1>5. FramesOk(open', errors', wrong')
  <2>1. FramesOk(open, errors', wrong')
    BY <1>1, <1>2, FramesLater DEF Right
  <2>2. FramesOk(o, errors', wrong')
    BY <1>2, <2>1, FrameNew, FramesPush
  <2> HIDE DEF o
  <2> QED
    BY <1>4, <2>2, FrameNew, FramesPush
<1>6. ~errors' /\ Resolved => Agree(scopes, locals)
  BY <1>1, <1>2, AgreeHere DEF Right
<1>7. ASSUME ~errors'
      PROVE  InStep(open', scopes', locals')
  <2>1. InStep(o, scopes, locals)
    BY <1>2, <1>3, <1>6, <1>7, BareInStep DEF Right
  <2> HIDE DEF o
  <2> QED
    BY <1>1, <1>2, <1>4, <1>6, <1>7, <2>1, BlockInStep DEF Arms
<1>8. SameVariable' /\ ReturnsLast' /\ SwitchIsMatch'
  <2>1. FrameOk(Here, errors, wrong)
    BY <1>1, <1>2, FrameHere DEF Right
  <2>2. ~errors' /\ Resolved => \A f \in {e} : Misread(scopes, locals, f) = {}
    BY <1>6, Reads
  <2> QED
    BY <1>1, <1>2, <2>1, <2>2, WalkRight
<1> QED
  BY <1>5, <1>7, <1>8 DEF Right

LEMMA BeginMatchRight ==
  ASSUME Right, IInv', NEW e \in Exprs, BeginMatch(e)
  PROVE  Right'
<1> DEFINE f == [Inner("match") EXCEPT !.sema = @ /\ ~Reported(scopes, e)]
<1>1. /\ open # << >> /\ wrong = {} /\ open' = Append(open, f)
      /\ UNCHANGED <<scopes, locals>>
      /\ Walk(Reported(scopes, e), Bad(scopes, locals, {e}))
  BY DEF BeginMatch, InBlock
<1>2. /\ IInv /\ open \in Seq(Frames) /\ (errors => errors')
      /\ scopes \in Seq(Table) /\ locals \in Seq(Table)
  BY <1>1 DEF Right, Walk, IInv, Typed
<1>3. /\ Inner("match") \in Frames /\ Inner("match").kind = "match"
      /\ Inner("match").sema = Resolved /\ Inner("match").mir = Translated
      /\ Inner("match").cases = << >> /\ ~Inner("match").over
      /\ ~Inner("match").shut /\ ~Inner("match").ret
      /\ Resolved \in BOOLEAN
  BY <1>1, <1>2, InnerFrame, HereType DEF Kinds, Inner, Frame
<1>4. /\ f \in Frames /\ f.kind = "match" /\ f.mir = Translated
      /\ f.sema = (Resolved /\ ~Reported(scopes, e))
      /\ f.cases = << >> /\ ~f.over /\ ~f.shut /\ ~f.ret
  BY <1>3 DEF Frames
<1>5. ~errors' => f.sema = Resolved
  BY <1>1, <1>3, <1>4 DEF Walk
<1>6. ~errors' /\ Resolved => Agree(scopes, locals)
  BY <1>1, <1>2, AgreeHere DEF Right
<1> HIDE DEF f
<1>7. FramesOk(open', errors', wrong')
  <2>1. FramesOk(open, errors', wrong')
    BY <1>1, <1>2, FramesLater DEF Right
  <2>2. ~errors' /\ wrong' = {} /\ Translated => Resolved
    <3>1. ASSUME ~errors', Translated, ~Resolved
          PROVE  "unresolved" \in wrong'
      <4>1. "unresolved" \in Bad(scopes, locals, {e})
        BY <3>1 DEF Bad
      <4> QED
        BY <1>1, <3>1, <4>1 DEF Walk
    <3> QED
      BY <3>1
  <2>3. FrameOk(f, errors', wrong')
    BY <1>4, <1>5, <2>2 DEF FrameOk, Distinct
  <2> QED
    BY <1>1, <1>2, <2>1, <2>3, FramesPush
<1>8. ~errors' => InStep(open', scopes', locals')
  <2>1. ~errors' /\ Goes(f) => Agree(scopes, locals)
    BY <1>5, <1>6 DEF Goes
  <2> QED
    BY <1>1, <1>2, <1>4, <2>1, BareInStep DEF Right
<1>9. SameVariable' /\ ReturnsLast' /\ SwitchIsMatch'
  <2>1. FrameOk(Here, errors, wrong)
    BY <1>1, <1>2, FrameHere DEF Right
  <2>2. ~errors' /\ Resolved => \A g \in {e} : Misread(scopes, locals, g) = {}
    BY <1>6, Reads
  <2> QED
    BY <1>1, <1>2, <2>1, <2>2, WalkRight
<1> QED
  BY <1>7, <1>8, <1>9 DEF Right

LEMMA CaseRight ==
  ASSUME Right, IInv', NEW l \in Labels \cup {Default, Unknown}, Case(l)
  PROVE  Right'
<1> DEFINE o == [open EXCEPT ![Len(open)].cases = Append(@, l)]
           f == [Here EXCEPT !.cases = Append(Here.cases, l)]
<1>1. /\ open # << >> /\ wrong = {} /\ Here.kind = "match" /\ open' = Append(o, Inner("case"))
      /\ scopes' = SemaPush(1) /\ locals' = GenPush(1)
      /\ Walk(LabelReported(l, Here.cases), {})
  BY DEF Case, AtArms
<1>2. /\ IInv /\ open \in Seq(Frames) /\ (errors => errors')
      /\ scopes \in Seq(Table) /\ locals \in Seq(Table)
  BY <1>1 DEF Right, Walk, IInv, Typed
<1>3. /\ Here \in Frames /\ Here = open[Len(open)] /\ Here = Last(open)
      /\ Here.cases \in Seq(Labels \cup {Default, Unknown})
  BY <1>1, <1>2, HereType DEF Here, Frames
<1>4. /\ f \in Frames /\ f.kind = Here.kind /\ f.sema = Here.sema /\ f.mir = Here.mir
      /\ f.over = Here.over /\ f.shut = Here.shut /\ f.ret = Here.ret
      /\ f.cases = Append(Here.cases, l)
  <2>1. Append(Here.cases, l) \in Seq(Labels \cup {Default, Unknown})
    BY <1>3
  <2> QED
    BY <1>3, <2>1 DEF Frames
<1>5. o = [open EXCEPT ![Len(open)] = f] /\ o \in Seq(Frames)
  <2>1. o = [open EXCEPT ![Len(open)] = f]
    BY <1>2, <1>3
  <2>2. open \in Seq(Frames) /\ f \in Frames /\ Len(open) \in DOMAIN open
    BY <1>1, <1>2, <1>4, HereType
  <2> HIDE DEF f, o
  <2>3. [open EXCEPT ![Len(open)] = f] \in Seq(Frames)
    BY <2>2
  <2> QED
    BY <2>1, <2>3
<1> HIDE DEF f, o
<1>6. FrameOk(Here, errors, {})
  BY <1>1, <1>2, FrameHere DEF Right
<1>7. FramesOk(open', errors', wrong')
  <2>1. FramesOk(open, errors', wrong')
    BY <1>1, <1>2, FramesLater DEF Right
  <2>2. ~errors' /\ Here.sema => ~LabelReported(l, Here.cases)
    BY <1>1, <1>6 DEF Walk, Resolved, FrameOk
  <2>3. ASSUME ~errors', Here.sema
        PROVE  Distinct(Append(Here.cases, l))
    <3> DEFINE c == Here.cases
               t == Append(c, l)
    <3>1. /\ DOMAIN c = 1..Len(c) /\ Len(c) \in Nat /\ DOMAIN t = 1..(Len(c) + 1)
          /\ \A i \in 1..Len(c) : t[i] = c[i]
          /\ t[Len(c) + 1] = l
      BY <1>3
    <3>2. Distinct(c)
      BY <1>1, <1>2, <1>6, <2>3 DEF FrameOk
    <3>3. l = Default \/ \A i \in DOMAIN c : c[i] # l
      BY <2>2, <2>3 DEF LabelReported
    <3> HIDE DEF c, t
    <3>4. ASSUME NEW i \in DOMAIN t, NEW j \in DOMAIN t, i # j, t[i] = t[j]
          PROVE  t[i] = Default
      <4>1. (i \in DOMAIN c \/ i = Len(c) + 1) /\ (j \in DOMAIN c \/ j = Len(c) + 1)
        BY <3>1
      <4> QED
        BY <3>1, <3>2, <3>3, <3>4, <4>1 DEF Distinct
    <3> QED
      BY <3>4 DEF Distinct, t, c
  <2>4. FrameOk(f, errors', wrong')
    BY <1>1, <1>2, <1>4, <1>6, <2>3 DEF FrameOk
  <2>5. FramesOk(o, errors', wrong')
    BY <1>2, <1>5, <2>1, <2>4, FramesStay
  <2> QED
    BY <1>1, <1>5, <2>5, FrameNew, FramesPush
<1>8. ~errors' /\ Resolved => Agree(scopes, locals)
  BY <1>1, <1>2, AgreeHere DEF Right
<1>9. ASSUME ~errors'
      PROVE  InStep(open', scopes', locals')
  <2>1. Goes(f) => Agree(scopes, locals)
    BY <1>1, <1>2, <1>4, <1>8, <1>9, GoesHere DEF Goes
  <2>2. InStep(o, scopes, locals)
    BY <1>1, <1>2, <1>3, <1>4, <1>5, <1>9, <2>1, InStepStay DEF Right
  <2> QED
    BY <1>1, <1>2, <1>5, <1>8, <1>9, <2>2, BlockInStep DEF Arms
<1>10. SameVariable' /\ ReturnsLast' /\ SwitchIsMatch'
  BY <1>1 DEF Walk, SameVariable, ReturnsLast, SwitchIsMatch
<1> QED
  BY <1>7, <1>9, <1>10 DEF Right

\* The head of a for: x, if there is one, is entered by both passes.
HeadSema(xs) ==
  IF xs = {} THEN PushLevel(scopes) ELSE Defined(PushLevel(scopes), CHOOSE x \in xs : TRUE)
HeadGen(xs) ==
  IF xs = {} THEN PushLevel(locals)
  ELSE Add(PushLevel(locals), CHOOSE x \in xs : TRUE, tokens + 1)

LEMMA HeadTables ==
  ASSUME IInv, NEW xs \in SUBSET Names,
         Resolved => \A x \in xs : ~Taken(PushLevel(scopes), x)
  PROVE  /\ Resolved => \E h \in Table : HeadSema(xs) = Append(scopes, h)
         /\ \E h \in Table : HeadGen(xs) = Append(locals, h)
         /\ Resolved /\ Agree(scopes, locals) => Agree(HeadSema(xs), HeadGen(xs))
<1> DEFINE x == CHOOSE x \in xs : TRUE
<1>1. scopes \in Seq(Table) /\ locals \in Seq(Table) /\ tokens + 1 \in Int
  BY DEF IInv, Typed
<1>2. /\ PushLevel(scopes) = Append(scopes, Empty) /\ PushLevel(locals) = Append(locals, Empty)
      /\ Empty \in Table
      /\ PushLevel(scopes) \in Seq(Table) /\ PushLevel(locals) \in Seq(Table)
      /\ PushLevel(scopes) # << >> /\ PushLevel(locals) # << >>
      /\ Agree(scopes, locals) => Agree(PushLevel(scopes), PushLevel(locals))
  BY <1>1, LevelTypes, LevelMore, AgreeLevel DEF PushLevel
<1>3. CASE xs = {}
  BY <1>2, <1>3 DEF HeadSema, HeadGen
<1>4. CASE xs # {}
  <2>1. x \in xs /\ x \in Names
    BY <1>4
  <2>2. /\ HeadSema(xs) = Defined(PushLevel(scopes), x)
        /\ HeadGen(xs) = Add(PushLevel(locals), x, tokens + 1)
    BY <1>4 DEF HeadSema, HeadGen
  <2> HIDE DEF x
  <2>3. \E h \in Table : HeadGen(xs) = Append(locals, h)
    BY <1>1, <2>1, <2>2, AddOn
  <2>4. ASSUME Resolved
        PROVE  /\ HeadSema(xs) = Add(PushLevel(scopes), x, tokens + 1)
               /\ ~Found(PushLevel(scopes), x)
    BY <2>1, <2>2, <2>4 DEF Defined, Taken
  <2>5. Resolved => \E h \in Table : HeadSema(xs) = Append(scopes, h)
    BY <1>1, <2>1, <2>4, AddOn
  <2>6. Resolved /\ Agree(scopes, locals) => Agree(HeadSema(xs), HeadGen(xs))
    BY <1>1, <1>2, <2>1, <2>2, <2>4, AgreeAdd
  <2> QED
    BY <2>3, <2>5, <2>6
<1> QED
  BY <1>3, <1>4

LEMMA HeadRight ==
  ASSUME Right, IInv', open # << >>, wrong = {}, NEW kind \in Twofold, NEW xs \in SUBSET Names,
         NEW init, NEW es, LoopHead(kind, xs, init, es)
  PROVE  Right'
<1> DEFINE all == es \cup (IF xs = {} THEN {} ELSE {init})
           err == \/ \E y \in xs : DefineReports(PushLevel(scopes), y, init)
                  \/ \E e \in es : Reported(HeadSema(xs), e)
<1>1. /\ open' = Append(open, Inner(kind))
      /\ scopes' = IF Resolved THEN PushLevel(HeadSema(xs)) ELSE scopes
      /\ locals' = IF Translated THEN PushLevel(HeadGen(xs)) ELSE locals
      /\ Walk(err, Bad(HeadSema(xs), HeadGen(xs), all))
  BY DEF LoopHead, HeadSema, HeadGen
<1> HIDE DEF all
<1>2. /\ IInv /\ open \in Seq(Frames) /\ (errors => errors')
      /\ scopes \in Seq(Table) /\ locals \in Seq(Table)
      /\ scopes' \in Seq(Table) /\ locals' \in Seq(Table)
      /\ kind \in Kinds \ {"impl", "func"} /\ kind # "match"
  BY <1>1 DEF Right, Walk, IInv, Typed, Kinds, Loops, Twofold
<1>3. ~errors' /\ Resolved => \A y \in xs : ~Taken(PushLevel(scopes), y)
  BY <1>1 DEF Walk, DefineReports
<1> HIDE DEF err
<1>4. ~errors' /\ Resolved => Agree(scopes, locals)
  BY <1>2, AgreeHere DEF Right
<1>5. FramesOk(open', errors', wrong')
  <2>1. FramesOk(open, errors', wrong')
    BY <1>2, FramesLater DEF Right
  <2> QED
    BY <1>1, <1>2, <2>1, FrameNew, FramesPush
<1>6. ASSUME ~errors'
      PROVE  InStep(open', scopes', locals')
  <2>1. /\ Inner(kind) \in Frames /\ Goes(Inner(kind)) = Resolved
        /\ SemaOf(Inner(kind)) = If(Resolved, 2) /\ GenOf(Inner(kind)) = If(Translated, 2)
    BY <1>2, InnerFrame, LevelsOf
  <2>2. Resolved => \E h \in Table : scopes' = Append(Append(scopes, h), Empty)
    BY <1>1, <1>2, <1>3, <1>6, HeadTables DEF PushLevel
  <2>3. Translated => \E h \in Table : locals' = Append(Append(locals, h), Empty)
    BY <1>1, <1>2, <1>3, <1>6, HeadTables DEF PushLevel
  <2>4. Without(scopes', If(Resolved, 2)) = scopes
    <3>1. CASE Resolved
      <4>1. PICK h \in Table : scopes' = Append(Append(scopes, h), Empty)
        BY <2>2, <3>1
      <4>2. Without(Append(Append(scopes, h), Empty), 2) = scopes
        BY <1>2, LevelTypes, LevelsAway
      <4> QED
        BY <3>1, <4>1, <4>2 DEF If
    <3>2. CASE ~Resolved
      BY <1>1, <3>2 DEF If, Without
    <3> QED
      BY <3>1, <3>2
  <2>5. Without(locals', If(Translated, 2)) = locals
    <3>1. CASE Translated
      <4>1. PICK h \in Table : locals' = Append(Append(locals, h), Empty)
        BY <2>3, <3>1
      <4>2. Without(Append(Append(locals, h), Empty), 2) = locals
        BY <1>2, LevelTypes, LevelsAway
      <4> QED
        BY <3>1, <4>1, <4>2 DEF If
    <3>2. CASE ~Translated
      BY <1>1, <3>2 DEF If, Without
    <3> QED
      BY <3>1, <3>2
  <2>6. ASSUME Resolved
        PROVE  Agree(scopes', locals')
    <3>1. Agree(HeadSema(xs), HeadGen(xs)) /\ Translated
      BY <1>2, <1>3, <1>4, <1>6, <2>6, HeadTables, GoesHere
    <3>2. HeadSema(xs) \in Seq(Table) /\ HeadGen(xs) \in Seq(Table)
      <4>1. PICK h \in Table, k \in Table :
              HeadSema(xs) = Append(scopes, h) /\ HeadGen(xs) = Append(locals, k)
        BY <1>2, <1>3, <1>6, <2>6, HeadTables
      <4>2. Append(scopes, h) \in Seq(Table) /\ Append(locals, k) \in Seq(Table)
        BY <1>2
      <4> QED
        BY <4>1, <4>2
    <3> QED
      BY <1>1, <2>6, <3>1, <3>2, AgreeLevel
  <2> QED
    BY <1>1, <1>2, <1>6, <2>1, <2>4, <2>5, <2>6, InStepPush DEF Right
<1>7. SameVariable' /\ ReturnsLast' /\ SwitchIsMatch'
  <2>1. FrameOk(Here, errors, wrong)
    BY <1>2, FrameHere DEF Right
  <2>2. ASSUME ~errors', Resolved
        PROVE  \A e \in all : Misread(HeadSema(xs), HeadGen(xs), e) = {}
    BY <1>2, <1>3, <1>4, <2>2, HeadTables, Reads
  <2> DEFINE bad == Bad(HeadSema(xs), HeadGen(xs), all)
  <2>3. bad \ {"no loop"} \subseteq Bad(HeadSema(xs), HeadGen(xs), all)
    OBVIOUS
  <2> HIDE DEF bad
  <2>4. Walk(err, bad)
    BY <1>1 DEF bad
  <2> QED
    BY <1>2, <2>1, <2>2, <2>3, <2>4, WalkRight
<1> QED
  BY <1>5, <1>6, <1>7 DEF Right

LEMMA SkippedRight ==
  ASSUME Right, IInv', wrong = {}, NEW kind \in Twofold, Skipped(kind)
  PROVE  Right'
<1>1. errors' = TRUE /\ wrong' = {} /\ open' = Append(open, Frame(kind, FALSE, FALSE))
  BY DEF Skipped
<1>2. FramesOk(open', errors', wrong')
  <2>1. FramesOk(open, errors', wrong') /\ open \in Seq(Frames) /\ kind # "match"
    BY <1>1, FramesLater DEF Right, IInv, Typed, Twofold
  <2> QED
    BY <1>1, <2>1, FrameNew, FramesPush
<1> QED
  BY <1>1, <1>2 DEF Right, SameVariable, ReturnsLast, SwitchIsMatch

LEMMA LoopRight ==
  ASSUME Right, IInv', NEW x \in Names, NEW e \in Exprs,
         For({x}, e, {x}) \/ Forindex(x, e) \/ Foreach(x, e)
  PROVE  Right'
<1>1. open # << >> /\ wrong = {} /\ {x} \in SUBSET Names
  BY DEF For, Forindex, Foreach, InBlock
<1>2. {"for", "forindex", "foreach"} \subseteq Twofold
  BY DEF Twofold
<1>3. CASE For({x}, e, {x})
  BY <1>1, <1>2, <1>3, HeadRight DEF For
<1>4. CASE Forindex(x, e)
  BY <1>1, <1>2, <1>4, HeadRight, SkippedRight DEF Forindex
<1>5. CASE Foreach(x, e)
  BY <1>1, <1>2, <1>5, HeadRight, SkippedRight DEF Foreach
<1> QED
  BY <1>3, <1>4, <1>5

LEMMA BareForRight ==
  ASSUME Right, IInv', NEW es, For({}, "literal", es)
  PROVE  Right'
BY HeadRight DEF For, InBlock, Twofold

\* The end of a statement or a block.
LEMMA EndRight ==
  ASSUME Right, IInv', open # << >>, wrong = {} \/ wrong' = wrong, open' = Front(open),
         errors => errors', ~errors' => InStep(Front(open), scopes', locals'),
         SameVariable', ReturnsLast', SwitchIsMatch'
  PROVE  Right'
<1>1. FramesOk(open, errors', wrong')
  <2>1. CASE wrong = {}
    BY <2>1, FramesLater DEF Right
  <2>2. CASE wrong' = wrong
    BY <2>2 DEF Right, FramesOk, FrameOk
  <2> QED
    BY <2>1, <2>2
<1>2. FramesOk(open', errors', wrong')
  BY <1>1, FramesPop DEF Right, IInv, Typed
<1> QED
  BY <1>2 DEF Right

LEMMA PopHere ==
  ASSUME Right, open # << >>, ~errors
  PROVE  InStep(Front(open), Without(scopes, SemaOf(Here)), Without(locals, GenOf(Here)))
BY InStepPop DEF Right, IInv, Typed, Here

LEMMA LeaveInStep ==
  ASSUME Right, open # << >>, ~errors, NEW n \in Nat \ {0}, Leave(n),
         SemaLevels(Here.kind) = n, GenLevels(Here.kind) = n
  PROVE  InStep(Front(open), scopes', locals')
<1>1. Here.sema \in BOOLEAN /\ Here.mir \in BOOLEAN
  BY HereType DEF Right, Frames
<1>2. scopes' = Without(scopes, SemaOf(Here)) /\ locals' = Without(locals, GenOf(Here))
  BY <1>1 DEF Leave, Without, SemaOf, GenOf, If
<1> QED
  BY <1>2, PopHere

LEMMA BareLeave ==
  ASSUME Right, open # << >>, ~errors, Here.kind \in {"impl", "cond", "match"},
         UNCHANGED <<scopes, locals>>
  PROVE  InStep(Front(open), scopes', locals')
<1>1. SemaOf(Here) = 0 /\ GenOf(Here) = 0
  BY LevelsOf DEF SemaOf, GenOf, If
<1>2. Without(scopes, 0) = scopes /\ Without(locals, 0) = locals
  BY DEF Without
<1> QED
  BY <1>1, <1>2, PopHere

LEMMA EndBlockRight ==
  ASSUME Right, IInv', EndCase \/ EndLoop
  PROVE  Right'
<1>1. /\ open # << >> /\ wrong = {} /\ wrong' = {} /\ errors' = errors /\ open' = Front(open)
      /\ UNCHANGED gaps
      /\ \E n \in {1, 2} : Leave(n) /\ SemaLevels(Here.kind) = n /\ GenLevels(Here.kind) = n
  <2>1. CASE EndCase
    BY <2>1, LevelsOf DEF EndCase, Arms
  <2>2. CASE EndLoop
    BY <2>2, LevelsOf DEF EndLoop, Levels, Arms, Twofold
  <2> QED
    BY <2>1, <2>2
<1>2. PICK n \in {1, 2} : Leave(n) /\ SemaLevels(Here.kind) = n /\ GenLevels(Here.kind) = n
  BY <1>1
<1>3. n \in Nat \ {0}
  OBVIOUS
<1>4. ~errors' => InStep(Front(open), scopes', locals')
  BY <1>1, <1>2, <1>3, LeaveInStep
<1>5. SameVariable' /\ ReturnsLast' /\ SwitchIsMatch'
  BY <1>1 DEF SameVariable, ReturnsLast, SwitchIsMatch
<1> QED
  BY <1>1, <1>4, <1>5, EndRight

LEMMA EndBareRight ==
  ASSUME Right, IInv', EndCond
  PROVE  Right'
<1>1. /\ open # << >> /\ wrong = {} /\ wrong' = {} /\ errors' = errors /\ open' = Front(open)
      /\ Here.kind = "cond" /\ UNCHANGED <<scopes, locals, gaps>>
  BY DEF EndCond
<1>2. ~errors' => InStep(Front(open), scopes', locals')
  BY <1>1, BareLeave
<1>3. SameVariable' /\ ReturnsLast' /\ SwitchIsMatch'
  BY <1>1 DEF SameVariable, ReturnsLast, SwitchIsMatch
<1> QED
  BY <1>1, <1>2, <1>3, EndRight

LEMMA EndImplRight ==
  ASSUME Right, IInv', EndImpl
  PROVE  Right'
<1>1. /\ open # << >> /\ Here.kind = "impl" /\ open' = << >>
      /\ UNCHANGED <<scopes, errors, locals, wrong, gaps>>
  BY DEF EndImpl
<1>2. IInv /\ open \in Seq(Frames)
  BY DEF Right, IInv, Typed
<1>3. Front(open) = << >>
  <2>1. Len(open) = 1
    BY <1>1, <1>2, HereType DEF IInv, Nested
  <2>2. Front(open) \in Seq(Frames) /\ Len(Front(open)) = Len(open) - 1
    BY <1>1, <1>2, FrontAppend
  <2> QED
    BY <2>1, <2>2, EmptySeq
<1>4. ~errors' => InStep(Front(open), scopes', locals')
  BY <1>1, BareLeave
<1>5. SameVariable' /\ ReturnsLast' /\ SwitchIsMatch'
  BY <1>1 DEF Right, SameVariable, ReturnsLast, SwitchIsMatch
<1> QED
  BY <1>1, <1>3, <1>4, <1>5, EndRight

\* The else takes the if with it.
LEMMA EndArmRight ==
  ASSUME Right, IInv', EndArm
  PROVE  Right'
<1>1. /\ open # << >> /\ Here.kind \in {"arm", "else"} /\ Leave(1)
      /\ wrong = {} /\ wrong' = {} /\ errors' = errors /\ UNCHANGED gaps
      /\ open' = IF Here.kind = "else" THEN Front(Front(open)) ELSE Front(open)
  BY DEF EndArm
<1>2. IInv /\ open \in Seq(Frames)
  BY DEF Right, IInv, Typed
<1>3. SemaLevels(Here.kind) = 1 /\ GenLevels(Here.kind) = 1
  BY <1>1, LevelsOf DEF Arms
<1>4. ~errors' => InStep(Front(open), scopes', locals')
  BY <1>1, <1>3, LeaveInStep
<1>5. SameVariable' /\ ReturnsLast' /\ SwitchIsMatch'
  BY <1>1 DEF SameVariable, ReturnsLast, SwitchIsMatch
<1>6. CASE Here.kind = "arm"
  BY <1>1, <1>4, <1>5, <1>6, EndRight
<1>7. CASE Here.kind = "else"
  <2> DEFINE o == Front(open)
  <2>1. /\ o \in Seq(Frames) /\ Len(o) = Len(open) - 1 /\ Len(open) \in Nat
        /\ \A i \in 1..Len(open) - 1 : o[i] = open[i]
    BY <1>1, <1>2, FrontAppend
  <2>2. Len(open) > 1 /\ open[Len(open) - 1].kind = "cond"
    BY <1>1, <1>2, <1>7, HereType DEF IInv, Nested
  <2>3. o # << >> /\ Last(o).kind = "cond"
    <3>1. Len(o) > 0 /\ o[Len(o)] = open[Len(open) - 1]
      BY <2>1, <2>2
    <3>2. o # << >>
      BY <3>1
    <3> QED
      BY <2>1, <2>2, <3>1, <3>2, FrontAppend
  <2>4. FramesOk(Front(o), errors', wrong')
    <3>1. FramesOk(o, errors, wrong)
      BY <1>1, <1>2, FramesPop DEF Right
    <3> HIDE DEF o
    <3> QED
      BY <1>1, <2>1, <2>3, <3>1, FramesPop
  <2>5. ASSUME ~errors'
        PROVE  InStep(Front(o), scopes', locals')
    <3>1. SemaOf(Last(o)) = 0 /\ GenOf(Last(o)) = 0
      BY <2>3, LevelsOf DEF SemaOf, GenOf, If
    <3>2. Without(scopes', 0) = scopes' /\ Without(locals', 0) = locals'
      BY DEF Without
    <3>3. InStep(o, scopes', locals')
      BY <1>4, <2>5
    <3> HIDE DEF o
    <3> QED
      BY <2>1, <2>3, <3>1, <3>2, <3>3, InStepPop
  <2> QED
    BY <1>1, <1>5, <1>7, <2>4, <2>5 DEF Right
<1> QED
  BY <1>1, <1>6, <1>7

LEMMA AtMostOne ==
  ASSUME NEW S, IsFiniteSet(S), Cardinality(S) <= 1, NEW a \in S, NEW b \in S
  PROVE  a = b
<1> SUFFICES ASSUME a # b
             PROVE  FALSE
  OBVIOUS
<1>1. /\ IsFiniteSet(S \ {a}) /\ Cardinality(S \ {a}) = Cardinality(S) - 1
  BY FS_RemoveElement
<1>2. Cardinality(S) \in Nat /\ Cardinality(S \ {a}) \in Nat
  BY <1>1, FS_CardinalityType
<1>3. Cardinality(S \ {a}) = 0
  BY <1>1, <1>2
<1>4. S \ {a} = {}
  BY <1>1, <1>3, FS_EmptySet
<1> QED
  BY <1>4

LEMMA OnlyOne ==
  ASSUME NEW S \in SUBSET Nat, S # {}, \A a, b \in S : a = b
  PROVE  S = {Min(S)} /\ Max(S) = Min(S)
<1>1. PICK m : S = {m} /\ m \in Nat
  OBVIOUS
<1>2. Min({m}) = m /\ Max({m}) = m
  BY <1>1 DEF Min, Max
<1> QED
  BY <1>1, <1>2

\* With different labels and one default the switch selects what the match does.
LEMMA SameCase ==
  ASSUME NEW C, NEW cases \in Seq(C), Distinct(cases),
         Cardinality(Positions(cases, Default)) <= 1
  PROVE  ~OtherCase(cases)
<1>1. \A l : Positions(cases, l) \in SUBSET Nat /\ IsFiniteSet(Positions(cases, l))
  <2>1. DOMAIN cases = 1..Len(cases) /\ IsFiniteSet(1..Len(cases))
    BY FS_Interval
  <2> QED
    BY <2>1, FS_Subset DEF Positions
<1>2. ASSUME NEW l, NEW a \in Positions(cases, l), NEW b \in Positions(cases, l)
      PROVE  a = b
  <2>1. CASE l = Default
    BY <1>1, <1>2, <2>1, AtMostOne
  <2>2. CASE l # Default
    BY <1>2, <2>2 DEF Positions, Distinct
  <2> QED
    BY <2>1, <2>2
<1>3. ASSUME NEW l
      PROVE  SwitchTo(cases, l) = {Selected(cases, l)}
  <2>1. \A k : Positions(cases, k) # {} =>
          /\ Positions(cases, k) = {Min(Positions(cases, k))}
          /\ Max(Positions(cases, k)) = Min(Positions(cases, k))
    BY <1>1, <1>2, OnlyOne
  <2> QED
    BY <2>1 DEF SwitchTo, Selected
<1> QED
  BY <1>3 DEF OtherCase

LEMMA EndMatchRight ==
  ASSUME Right, IInv', EndMatch
  PROVE  Right'
<1>1. /\ open # << >> /\ Here.kind = "match" /\ wrong = {} /\ (errors => errors')
      /\ wrong' = IF ~errors' /\ Here.mir /\ OtherCase(Here.cases) THEN {"other case"} ELSE {}
      /\ gaps' = IF ~errors' /\ Cardinality(Positions(Here.cases, Default)) > 1
                 THEN {"repeated default"} ELSE {}
      /\ open' = Front(open) /\ UNCHANGED <<scopes, locals>>
  BY DEF EndMatch
<1>2. ~errors' => InStep(Front(open), scopes', locals')
  BY <1>1, BareLeave
<1>3. ASSUME gaps' = {}, ~errors', Here.mir
      PROVE  ~OtherCase(Here.cases)
  <2>1. FrameOk(Here, errors, {}) /\ Here \in Frames
    BY <1>1, FrameHere, HereType DEF Right
  <2>2. Here.cases \in Seq(Labels \cup {Default, Unknown})
    BY <2>1 DEF Frames
  <2>3. Distinct(Here.cases)
    BY <1>1, <1>3, <2>1 DEF FrameOk
  <2>4. ~(Cardinality(Positions(Here.cases, Default)) > 1)
    BY <1>1, <1>3
  <2>5. Cardinality(Positions(Here.cases, Default)) \in Nat
    <3>1. /\ DOMAIN Here.cases = 1..Len(Here.cases) /\ IsFiniteSet(1..Len(Here.cases))
      BY <2>2, FS_Interval
    <3>2. IsFiniteSet(Positions(Here.cases, Default))
      BY <3>1, FS_Subset DEF Positions
    <3> QED
      BY <3>2, FS_CardinalityType
  <2>6. Cardinality(Positions(Here.cases, Default)) <= 1
    BY <2>4, <2>5
  <2> QED
    BY <2>2, <2>3, <2>6, SameCase
<1>4. SameVariable' /\ ReturnsLast' /\ SwitchIsMatch'
  BY <1>1, <1>3 DEF SameVariable, ReturnsLast, SwitchIsMatch
<1> QED
  BY <1>1, <1>2, <1>4, EndRight

\* Functions.
LEMMA BeginImplRight ==
  ASSUME Right, IInv', NEW known \in BOOLEAN, BeginImpl(known)
  PROVE  Right'
<1> DEFINE f == Frame("impl", known, ~errors')
<1>1. /\ open = << >> /\ wrong = {} /\ open' = <<f>> /\ errors' = (errors \/ ~known)
      /\ UNCHANGED <<scopes, locals, wrong, gaps>>
  BY DEF BeginImpl
<1>2. /\ IInv /\ open \in Seq(Frames) /\ scopes \in Seq(Table) /\ locals \in Seq(Table)
      /\ (errors => errors') /\ errors' \in BOOLEAN
  BY <1>1 DEF Right, IInv, Typed
<1>3. f \in Frames /\ f.kind = "impl" /\ open' = Append(open, f)
  <2>1. f \in Frames /\ f.kind = "impl"
    BY <1>2, FrameType DEF Kinds
  <2> HIDE DEF f
  <2>2. <<f>> = Append(<< >>, f)
    OBVIOUS
  <2> QED
    BY <1>1, <2>1, <2>2
<1>4. FrameOk(f, errors', wrong')
  BY DEF FrameOk, Frame
<1> HIDE DEF f
<1>5. FramesOk(open', errors', wrong')
  <2>1. FramesOk(open, errors', wrong')
    BY <1>1, <1>2, FramesLater DEF Right
  <2> QED
    BY <1>2, <1>3, <1>4, <2>1, FramesPush
<1>6. ~errors' => InStep(open', scopes', locals')
  <2>1. ~errors' => Agree(scopes, locals)
    BY <1>1, <1>2, InStepHere DEF Right
  <2> QED
    BY <1>1, <1>2, <1>3, <2>1, BareInStep DEF Right
<1>7. SameVariable' /\ ReturnsLast' /\ SwitchIsMatch'
  BY <1>1 DEF SameVariable, ReturnsLast, SwitchIsMatch
<1> QED
  BY <1>5, <1>6, <1>7 DEF Right

\* Parameters have a level of the generator's to themselves.
LEMMA BeginFuncRight ==
  ASSUME Right, IInv', NEW xs \in SUBSET (Names \ Globals), NEW void \in BOOLEAN,
         BeginFunc(xs, void)
  PROVE  Right'
<1> DEFINE f == [Frame("func", TRUE, ~errors) EXCEPT !.void = void]
<1>1. /\ wrong = {} /\ (open # << >> => Here.kind = "impl" /\ Here.sema)
      /\ open' = Append(open, f) /\ scopes' = Append(scopes, Params(xs))
      /\ locals' = IF errors THEN locals ELSE locals \o <<Params(xs), Empty>>
      /\ UNCHANGED <<errors, wrong>>
  BY DEF BeginFunc, AtFunctions
<1>2. /\ IInv /\ open \in Seq(Frames) /\ scopes \in Seq(Table) /\ locals \in Seq(Table)
      /\ scopes' \in Seq(Table) /\ locals' \in Seq(Table)
      /\ errors \in BOOLEAN /\ (~errors) \in BOOLEAN
  BY DEF Right, IInv, Typed
<1>3. /\ f \in Frames /\ f.kind = "func" /\ f.sema = TRUE /\ f.mir = ~errors
      /\ ~f.over /\ ~f.shut /\ ~f.ret
  <2>1. /\ Frame("func", TRUE, ~errors) \in Frames
        /\ Frame("func", TRUE, ~errors).kind = "func"
        /\ Frame("func", TRUE, ~errors).sema = TRUE
        /\ Frame("func", TRUE, ~errors).mir = ~errors
    BY <1>2, FrameType DEF Kinds
  <2>2. /\ ~Frame("func", TRUE, ~errors).over /\ ~Frame("func", TRUE, ~errors).shut
        /\ ~Frame("func", TRUE, ~errors).ret
    BY DEF Frame
  <2> QED
    BY <2>1, <2>2 DEF Frames
<1> HIDE DEF f
<1>4. FramesOk(open', errors', wrong')
  <2>1. FramesOk(open, errors', wrong') /\ FrameOk(f, errors', wrong')
    BY <1>1, <1>3 DEF Right, FrameOk
  <2> QED
    BY <1>1, <1>2, <2>1, FramesPush
<1>5. ASSUME ~errors'
      PROVE  InStep(open', scopes', locals')
  <2>1. ~errors /\ InStep(open, scopes, locals)
    BY <1>1, <1>5 DEF Right
  <2>2. Agree(scopes, locals)
    <3>1. open # << >> => Goes(Last(open))
      BY <1>1, <1>2, FrameHere DEF Right, FrameOk, Goes, Here
    <3> QED
      BY <1>2, <2>1, <3>1, InStepHere
  <2>3. Params(xs) \in Table /\ Empty \in Table
    BY LevelTypes
  <2>4. /\ locals' = Append(Append(locals, Params(xs)), Empty)
        /\ Append(locals, Params(xs)) \in Seq(Table)
    BY <1>1, <1>2, <2>1, <2>3
  <2>5. Agree(scopes', locals')
    <3>1. Agree(Append(scopes, Params(xs)), Append(locals, Params(xs)))
      BY <1>2, <2>2, <2>3, AgreeMore
    <3>2. \A y : /\ Found(locals', y) <=> Found(Append(locals, Params(xs)), y)
                 /\ Local(locals', y) = Local(Append(locals, Params(xs)), y)
      <4>1. DOMAIN Empty = {}
        BY DEF Empty
      <4> QED
        BY <2>3, <2>4, <4>1, LookUp
    <3> QED
      BY <1>1, <3>1, <3>2 DEF Agree
  <2>6. SemaOf(f) = 1 /\ GenOf(f) = 2
    BY <1>3, <2>1, LevelsOf DEF SemaOf, GenOf, If
  <2>7. Without(scopes', 1) = scopes /\ Without(locals', 2) = locals
    <3>1. /\ Without(Append(scopes, Params(xs)), 1) = scopes
          /\ Without(Append(Append(locals, Params(xs)), Empty), 2) = locals
      BY <1>2, <2>3, LevelsAway
    <3> QED
      BY <1>1, <2>4, <3>1
  <2> QED
    BY <1>1, <1>2, <1>3, <2>1, <2>5, <2>6, <2>7, InStepPush
<1>6. SameVariable' /\ ReturnsLast' /\ SwitchIsMatch'
  BY <1>1 DEF SameVariable, ReturnsLast, SwitchIsMatch
<1> QED
  BY <1>4, <1>5, <1>6 DEF Right

LEMMA DeclareRight ==
  ASSUME Right, IInv', Declare
  PROVE  Right'
<1>1. /\ wrong = {} /\ wrong' = wrong /\ (errors => errors')
      /\ UNCHANGED <<open, scopes, locals, gaps>>
  BY DEF Declare, AtFunctions
<1>2. FramesOk(open', errors', wrong')
  BY <1>1, FramesLater DEF Right
<1>3. SameVariable' /\ ReturnsLast' /\ SwitchIsMatch'
  BY <1>1 DEF SameVariable, ReturnsLast, SwitchIsMatch
<1> QED
  BY <1>1, <1>2, <1>3 DEF Right

\* A function that is not reported to lack a ret has one or gets one.
LEMMA EndFuncRight ==
  ASSUME Right, IInv', EndFunc
  PROVE  Right'
<1>1. /\ open # << >> /\ Here.kind = "func" /\ wrong = {} /\ (errors => errors')
      /\ open' = Front(open) /\ scopes' = Front(scopes)
      /\ locals' = IF Here.mir THEN SubSeq(locals, 1, Len(locals) - 2) ELSE locals
      /\ errors' = (errors \/ ReturnMissing(Here))
      /\ wrong' = IF ~errors' /\ ~(Here.shut \/ (Here.void /\ ~Here.ret))
                  THEN {"no return"} ELSE {}
  BY DEF EndFunc
<1>2. /\ IInv /\ Here \in Frames /\ Here.sema /\ Here.sema \in BOOLEAN /\ Here.mir \in BOOLEAN
      /\ FrameOk(Here, errors, wrong)
  BY <1>1, HereType, FrameHere DEF Right, IInv, Nested, Frames
<1>3. ~errors' => InStep(Front(open), scopes', locals')
  <2>1. scopes' = Without(scopes, SemaOf(Here))
    <3>1. SemaOf(Here) = 1
      BY <1>1, <1>2, LevelsOf DEF SemaOf, If
    <3>2. Without(scopes, 1) = Front(scopes)
      BY DEF Without, Front
    <3> QED
      BY <1>1, <3>1, <3>2
  <2>2. locals' = Without(locals, GenOf(Here))
    <3>1. GenOf(Here) = IF Here.mir THEN 2 ELSE 0
      BY <1>1, <1>2, LevelsOf DEF GenOf, If
    <3>2. /\ Without(locals, 2) = SubSeq(locals, 1, Len(locals) - 2)
          /\ Without(locals, 0) = locals
      BY DEF Without
    <3> QED
      BY <1>1, <3>1, <3>2
  <2> QED
    BY <1>1, <2>1, <2>2, PopHere
<1>4. wrong' = {}
  BY <1>1, <1>2 DEF ReturnMissing, FrameOk
<1>5. SameVariable' /\ ReturnsLast' /\ SwitchIsMatch'
  BY <1>4 DEF SameVariable, ReturnsLast, SwitchIsMatch
<1> QED
  BY <1>1, <1>3, <1>5, EndRight

LEMMA RightAtFirst == Init => Right
<1> SUFFICES ASSUME Init
             PROVE  Right
  OBVIOUS
<1>1. FramesOk(open, errors, wrong)
  BY DEF Init, FramesOk
<1>2. InStep(open, scopes, locals)
  <2> DEFINE S == [i \in 0..0 |-> << >>]
  <2>1. S \in [0..Len(<< >>) -> Seq(Table)] /\ S[0] = << >> /\ Len(<< >>) = 0
    OBVIOUS
  <2> HIDE DEF S
  <2>2. Snapshots(<< >>, << >>, << >>, S, S)
    BY <2>1, AgreeEmpty DEF Snapshots
  <2> QED
    BY <2>1, <2>2 DEF Init, InStep
<1>3. SameVariable /\ ReturnsLast /\ SwitchIsMatch
  BY DEF Init, SameVariable, ReturnsLast, SwitchIsMatch
<1> QED
  BY <1>1, <1>2, <1>3, Initially DEF Right

LEMMA RightStep ==
  ASSUME Right, [Next]_vars
  PROVE  Right'
<1>0. IInv'
  BY NextStep DEF Right
<1>1. CASE UNCHANGED vars
  <2>1. UNCHANGED <<open, scopes, errors, locals, wrong, gaps>>
    BY <1>1 DEF vars
  <2> QED
    BY <1>0, <2>1 DEF Right, SameVariable, ReturnsLast, SwitchIsMatch
<1>2. CASE \E xs \in SUBSET (Names \ Globals), void \in BOOLEAN : BeginFunc(xs, void)
  BY <1>0, <1>2, BeginFuncRight
<1>3. CASE \E known \in BOOLEAN : BeginImpl(known)
  BY <1>0, <1>3, BeginImplRight
<1>4. CASE \/ EndImpl \/ Declare \/ EndFunc \/ EndArm \/ EndCond \/ EndCase
           \/ EndMatch \/ EndLoop \/ Jump \/ Ret({})
  BY <1>0, <1>4, EndImplRight, DeclareRight, EndFuncRight, EndArmRight, EndBareRight,
     EndBlockRight, EndMatchRight, JumpRight, RetRight
<1>5. CASE \E e \in Exprs : InStmtExpr(e) \/ Ret({e}) \/ BeginCond(e) \/ BeginMatch(e)
  BY <1>0, <1>5, InStmtExprRight, RetRight, BeginCondRight, BeginMatchRight
<1>6. CASE \/ \E e \in Exprs : ElseIf(e) \/ While(e)
           \/ Else
  <2>1. "literal" \in Exprs
    BY DEF Exprs
  <2> QED
    BY <1>0, <1>6, <2>1, ArmRight
<1>7. CASE \E x \in Names, e \in Exprs :
             Define(x, e) \/ For({x}, e, {x}) \/ Forindex(x, e) \/ Foreach(x, e)
  BY <1>0, <1>7, DefineRight, LoopRight
<1>8. CASE \E es \in {{}} \cup {{e} : e \in Exprs} : For({}, "literal", es)
  BY <1>0, <1>8, BareForRight
<1>9. CASE \E l \in Labels \cup {Default, Unknown} : Case(l)
  BY <1>0, <1>9, CaseRight
<1> QED
  BY <1>1, <1>2, <1>3, <1>4, <1>5, <1>6, <1>7, <1>8, <1>9 DEF Next

LEMMA RightAlways == Spec => []Right
BY RightAtFirst, RightStep, PTL DEF Spec

-----------------------------------------------------------------------------
\* In functions of any size, with any names: a name the generator looks up in
\* its own tables is the variable the analysis found, unless the statement is
\* one the analysis has left out.
THEOREM NamesMeanTheSame == Spec => []SameVariable
<1>1. Right => SameVariable
  BY DEF Right
<1> QED
  BY RightAlways, <1>1, PTL

\* Every function for which nothing is reported ends with a ret: a ret that the
\* analysis counts is one the generator has written.
THEOREM FunctionsReturn == Spec => []ReturnsLast
<1>1. Right => ReturnsLast
  BY DEF Right
<1> QED
  BY RightAlways, <1>1, PTL

\* A switch selects the case its match selects, for any labels, but for a match
\* with more than one default.
THEOREM SwitchesSelect == Spec => []SwitchIsMatch
<1>1. Right => SwitchIsMatch
  BY DEF Right
<1> QED
  BY RightAlways, <1>1, PTL
=============================================================================
