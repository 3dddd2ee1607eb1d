------------------------- MODULE DeferReplaceProofs -------------------------
(***************************************************************************)
(* Proofs about replace_defer, for functions of any size and nesting: the  *)
(* stacks of scopes mirror the blocks being visited.                       *)
(*                                                                         *)
(* A visitor finds its scope by position, at the end of both stacks, and   *)
(* relies on everything visited since to have put back what it added.  So  *)
(* the invariant is about values: Good relates a stack of blocks to stacks *)
(* of scopes, and there is a lemma for each thing a visitor does to them:  *)
(* a block added, one taken away, a statement appended, a defer statement  *)
(* registered.  A step of the pass is one or two of these.                 *)
(***************************************************************************)
EXTENDS DeferReplace, TLAPS, FiniteSetTheorems, WellFoundedInduction

-----------------------------------------------------------------------------
(***************************************************************************)
(* Sequences of anything.                                                  *)
(***************************************************************************)
IsSeq(s) == s \in Seq(Range(s))

LEMMA SeqIsSeq ==
  ASSUME NEW X, NEW s \in Seq(X)
  PROVE  IsSeq(s)
<1>1. Len(s) \in Nat /\ DOMAIN s = 1..Len(s) /\ s = [i \in 1..Len(s) |-> s[i]]
  OBVIOUS
<1>2. s \in [1..Len(s) -> Range(s)]
  BY <1>1 DEF Range
<1> QED
  BY <1>1, <1>2 DEF IsSeq

LEMMA Appending ==
  ASSUME NEW s, IsSeq(s), NEW x
  PROVE  /\ IsSeq(Append(s, x)) /\ Len(s) \in Nat /\ DOMAIN s = 1..Len(s)
         /\ Len(Append(s, x)) = Len(s) + 1 /\ DOMAIN Append(s, x) = 1..Len(s) + 1
         /\ Append(s, x)[Len(s) + 1] = x /\ Append(s, x) # <<>>
         /\ \A i \in 1..Len(s) : Append(s, x)[i] = s[i]
<1> DEFINE X == Range(s) \cup {x}
<1>1. s \in Seq(X) /\ x \in X
  <2>1. s \in Seq(Range(s)) /\ Range(s) \subseteq X
    BY DEF IsSeq
  <2> HIDE DEF X
  <2>2. s \in Seq(X)
    BY <2>1
  <2> QED
    BY <2>2 DEF X
<1> HIDE DEF X
<1>2. Append(s, x) \in Seq(X)
  BY <1>1
<1>3. IsSeq(Append(s, x))
  BY <1>2, SeqIsSeq
<1> QED
  BY <1>1, <1>2, <1>3

LEMMA Fronting ==
  ASSUME NEW s, IsSeq(s), s # <<>>
  PROVE  /\ IsSeq(Front(s)) /\ Len(s) \in Nat \ {0} /\ DOMAIN s = 1..Len(s)
         /\ Len(Front(s)) = Len(s) - 1 /\ DOMAIN Front(s) = 1..Len(s) - 1
         /\ \A i \in 1..Len(s) - 1 : Front(s)[i] = s[i]
         /\ Last(s) = s[Len(s)]
<1>1. s \in Seq(Range(s))
  BY DEF IsSeq
<1>2. Front(s) \in Seq(Range(s))
  BY <1>1 DEF Front
<1>3. IsSeq(Front(s))
  BY <1>2, SeqIsSeq
<1> QED
  BY <1>1, <1>3 DEF Front, Last

\* Changing the last element of a sequence.
LEMMA Changing ==
  ASSUME NEW s, IsSeq(s), s # <<>>, NEW x
  PROVE  LET r == [s EXCEPT ![Len(s)] = x]
         IN  /\ IsSeq(r) /\ Len(s) \in Nat \ {0} /\ Len(r) = Len(s) /\ DOMAIN r = 1..Len(s)
             /\ r # <<>> /\ r[Len(s)] = x /\ Last(r) = x
             /\ \A i \in 1..Len(s) - 1 : r[i] = s[i]
<1> DEFINE X == Range(s) \cup {x}
           r == [s EXCEPT ![Len(s)] = x]
<1>1. s \in Seq(X) /\ x \in X
  <2>1. s \in Seq(Range(s)) /\ Range(s) \subseteq X
    BY DEF IsSeq
  <2> HIDE DEF X
  <2>2. s \in Seq(X)
    BY <2>1
  <2> QED
    BY <2>2 DEF X
<1> HIDE DEF X
<1>2. r \in Seq(X) /\ Len(r) = Len(s) /\ Len(s) \in Nat \ {0} /\ DOMAIN r = 1..Len(s)
  BY <1>1
<1>3. IsSeq(r)
  BY <1>2, SeqIsSeq
<1>4. /\ r # <<>> /\ r[Len(s)] = x
      /\ \A i \in 1..Len(s) - 1 : r[i] = s[i]
  BY <1>1, <1>2
<1> QED
  BY <1>2, <1>3, <1>4 DEF Last

LEMMA Largest ==
  ASSUME NEW n \in Nat, NEW T \in SUBSET (1..n), T # {}
  PROVE  Max(T) \in T /\ \A y \in T : Max(T) >= y
<1> DEFINE R == OpToRel(<, Nat)
           U == {n - x : x \in T}
<1>1. IsWellFoundedOn(R, Nat)
  BY NatLessThanWellFounded
<1>2. \A x, y \in Nat : x < y => <<x, y>> \in R
  BY DEF OpToRel
<1>3. U \subseteq Nat /\ U # {}
  <2>1. \A x \in T : x \in 1..n
    OBVIOUS
  <2>2. \A x \in 1..n : n - x \in Nat
    OBVIOUS
  <2>3. PICK x \in T : TRUE
    OBVIOUS
  <2> QED
    BY <2>1, <2>2, <2>3
<1> HIDE DEF R
<1>4. PICK u \in U : \A y \in U : <<y, u>> \notin R
  BY <1>1, <1>3, WFMin
<1>5. PICK x \in T : u = n - x
  BY <1>4
<1>6. ASSUME NEW y \in T
      PROVE  x >= y
  <2>1. n - y \in U /\ n - y \in Nat /\ n - x \in Nat
    BY <1>5
  <2>2. ~(n - y < n - x)
    BY <1>2, <1>4, <1>5, <2>1
  <2> QED
    BY <2>1, <2>2
<1> QED
  BY <1>6 DEF Max

-----------------------------------------------------------------------------
(***************************************************************************)
(* Blocks fs being visited and the scopes ts of them, as values.           *)
(***************************************************************************)
IsFrame(f) ==
  /\ f = [kind |-> f.kind, at |-> f.at, src |-> f.src, new |-> f.new]
  /\ IsSeq(f.src)

TopsIn(fs, i) == {j \in 1..i : fs[j].kind # "cond"}
TopIn(fs, i) == Cardinality(TopsIn(fs, i))
SubIn(fs, i) == i - Max(TopsIn(fs, i)) + 1

\* The first block is a function's, and what is in a block came before the
\* block that is open in it, after c statements.
FramesRight(fs, c) ==
  /\ IsSeq(fs) /\ c \in Nat
  /\ fs # <<>> => fs[1].kind = "func"
  /\ \A i \in DOMAIN fs :
       /\ IsFrame(fs[i]) /\ fs[i].at \in 0..c
       /\ \A k \in DOMAIN fs[i].src :
            /\ fs[i].src[k].at \in 0..c
            /\ i < Len(fs) => fs[i].src[k].at < fs[i + 1].at

ScopesRight(ts) ==
  /\ IsSeq(ts)
  /\ \A t \in DOMAIN ts :
       /\ IsSeq(ts[t]) /\ ts[t] # <<>>
       /\ \A k \in DOMAIN ts[t] : IsSeq(ts[t][k])

BlocksHaveScopes(fs, ts) ==
  \A i \in DOMAIN fs :
    /\ TopIn(fs, i) \in DOMAIN ts /\ SubIn(fs, i) \in DOMAIN ts[TopIn(fs, i)]
    /\ Registers(ts[TopIn(fs, i)][SubIn(fs, i)], fs[i].src)

ScopesHaveBlocks(fs, ts) ==
  \A t \in DOMAIN ts : \A k \in DOMAIN ts[t] :
    \E i \in DOMAIN fs : t = TopIn(fs, i) /\ k = SubIn(fs, i)

Good(fs, ts, c) ==
  FramesRight(fs, c) /\ ScopesRight(ts) /\ BlocksHaveScopes(fs, ts) /\ ScopesHaveBlocks(fs, ts)

LEMMA MirrorsIfGood ==
  ASSUME NEW c, Good(frames, topScopes, c)
  PROVE  ScopesMirrorBlocks
BY DEF Good, BlocksHaveScopes, ScopesHaveBlocks, ScopesMirrorBlocks, TopIn, SubIn, TopsIn,
       TopOf, SubOf, Tops

-----------------------------------------------------------------------------
(***************************************************************************)
(* Positions of scopes.                                                    *)
(***************************************************************************)
LEMMA Position ==
  ASSUME NEW fs, fs[1].kind = "func", NEW i \in Nat \ {0}
  PROVE  /\ TopsIn(fs, i) \in SUBSET (1..i) /\ IsFiniteSet(TopsIn(fs, i))
         /\ TopIn(fs, i) \in Nat \ {0}
         /\ Max(TopsIn(fs, i)) \in TopsIn(fs, i)
         /\ \A j \in TopsIn(fs, i) : Max(TopsIn(fs, i)) >= j
         /\ SubIn(fs, i) \in Nat \ {0}
<1>1. TopsIn(fs, i) \in SUBSET (1..i) /\ 1 \in TopsIn(fs, i)
  BY DEF TopsIn
<1>2. IsFiniteSet(TopsIn(fs, i)) /\ Cardinality(TopsIn(fs, i)) \in Nat \ {0}
  <2>1. IsFiniteSet(1..i)
    BY FS_Interval
  <2>2. IsFiniteSet(TopsIn(fs, i))
    BY <1>1, <2>1, FS_Subset
  <2> QED
    BY <1>1, <2>2, FS_CardinalityType, FS_EmptySet
<1>3. /\ Max(TopsIn(fs, i)) \in TopsIn(fs, i)
      /\ \A j \in TopsIn(fs, i) : Max(TopsIn(fs, i)) >= j
  BY <1>1, Largest
<1>4. Max(TopsIn(fs, i)) \in 1..i
  BY <1>1, <1>3
<1>5. SubIn(fs, i) \in Nat \ {0}
  BY <1>4 DEF SubIn
<1> QED
  BY <1>1, <1>2, <1>3, <1>5 DEF TopIn

\* Two blocks have two positions, in the order of the blocks.
LEMMA PositionsGrow ==
  ASSUME NEW fs, fs[1].kind = "func", NEW i \in Nat \ {0}, NEW j \in Nat, i < j
  PROVE  /\ TopIn(fs, i) <= TopIn(fs, j)
         /\ TopIn(fs, i) = TopIn(fs, j) => SubIn(fs, i) < SubIn(fs, j)
<1>1. TopsIn(fs, i) \in SUBSET TopsIn(fs, j)
  BY DEF TopsIn
<1>2. IsFiniteSet(TopsIn(fs, j)) /\ Max(TopsIn(fs, j)) \in 1..j
  BY Position
<1>3. /\ TopIn(fs, i) <= TopIn(fs, j)
      /\ TopIn(fs, i) = TopIn(fs, j) => TopsIn(fs, i) = TopsIn(fs, j)
  BY <1>1, <1>2, FS_Subset DEF TopIn
<1>4. ASSUME TopsIn(fs, i) = TopsIn(fs, j)
      PROVE  SubIn(fs, i) < SubIn(fs, j)
  BY <1>2, <1>4 DEF SubIn
<1> QED
  BY <1>3, <1>4

\* Positions depend on the kinds of the blocks up to there.
LEMMA SamePosition ==
  ASSUME NEW fs, NEW gs, NEW i \in Nat, \A j \in 1..i : gs[j].kind = fs[j].kind
  PROVE  TopIn(gs, i) = TopIn(fs, i) /\ SubIn(gs, i) = SubIn(fs, i)
<1>1. TopsIn(gs, i) = TopsIn(fs, i)
  BY DEF TopsIn
<1> QED
  BY <1>1 DEF TopIn, SubIn

LEMMA NextPosition ==
  ASSUME NEW fs, fs[1].kind = "func", NEW i \in Nat \ {0}
  PROVE  /\ fs[i + 1].kind = "cond" =>
              TopIn(fs, i + 1) = TopIn(fs, i) /\ SubIn(fs, i + 1) = SubIn(fs, i) + 1
         /\ fs[i + 1].kind # "cond" =>
              TopIn(fs, i + 1) = TopIn(fs, i) + 1 /\ SubIn(fs, i + 1) = 1
<1>1. TopsIn(fs, i) \in SUBSET (1..i) /\ IsFiniteSet(TopsIn(fs, i)) /\ Max(TopsIn(fs, i)) \in 1..i
  BY Position
<1>2. ASSUME fs[i + 1].kind = "cond"
      PROVE  TopIn(fs, i + 1) = TopIn(fs, i) /\ SubIn(fs, i + 1) = SubIn(fs, i) + 1
  <2>1. TopsIn(fs, i + 1) = TopsIn(fs, i)
    BY <1>2 DEF TopsIn
  <2> QED
    BY <1>1, <2>1 DEF TopIn, SubIn
<1>3. ASSUME fs[i + 1].kind # "cond"
      PROVE  TopIn(fs, i + 1) = TopIn(fs, i) + 1 /\ SubIn(fs, i + 1) = 1
  <2>1. TopsIn(fs, i + 1) = TopsIn(fs, i) \cup {i + 1} /\ i + 1 \notin TopsIn(fs, i)
    BY <1>3 DEF TopsIn
  <2>2. TopIn(fs, i + 1) = TopIn(fs, i) + 1
    BY <1>1, <2>1, FS_AddElement DEF TopIn
  <2>3. /\ Max(TopsIn(fs, i + 1)) \in 1..i + 1
        /\ \A j \in TopsIn(fs, i + 1) : Max(TopsIn(fs, i + 1)) >= j
    BY Position
  <2>4. Max(TopsIn(fs, i + 1)) = i + 1
    BY <2>1, <2>3
  <2> QED
    BY <2>2, <2>4 DEF SubIn
<1> QED
  BY <1>2, <1>3

\* The innermost block has the last scope of the last top scope.
LEMMA Innermost ==
  ASSUME NEW fs, NEW ts, NEW c, Good(fs, ts, c), fs # <<>>
  PROVE  LET n == Len(fs)
         IN  /\ n \in Nat \ {0} /\ ts # <<>> /\ Len(ts) = TopIn(fs, n)
             /\ Last(ts) = ts[TopIn(fs, n)] /\ Last(ts) # <<>> /\ IsSeq(Last(ts))
             /\ Len(Last(ts)) = SubIn(fs, n)
             /\ Last(Last(ts)) = ts[TopIn(fs, n)][SubIn(fs, n)]
             /\ \A i \in 1..n - 1 : /\ TopIn(fs, i) \in 1..Len(ts)
                                    /\ TopIn(fs, i) = Len(ts) => SubIn(fs, i) < Len(Last(ts))
<1> DEFINE n == Len(fs)
<1>1. n \in Nat \ {0} /\ DOMAIN fs = 1..n /\ fs[1].kind = "func" /\ n \in DOMAIN fs
  BY Fronting DEF Good, FramesRight
<1> HIDE DEF n
<1>2. IsSeq(ts) /\ Len(ts) \in Nat /\ DOMAIN ts = 1..Len(ts)
  BY DEF Good, ScopesRight, IsSeq
<1>3. TopIn(fs, n) \in 1..Len(ts) /\ SubIn(fs, n) \in DOMAIN ts[TopIn(fs, n)]
  BY <1>1, <1>2 DEF Good, BlocksHaveScopes
<1>4. ts # <<>> /\ Len(ts) \in DOMAIN ts /\ Last(ts) = ts[Len(ts)]
  BY <1>2, <1>3 DEF Last
<1>5. /\ IsSeq(Last(ts)) /\ Last(ts) # <<>> /\ Len(Last(ts)) \in Nat \ {0}
      /\ DOMAIN Last(ts) = 1..Len(Last(ts)) /\ Last(Last(ts)) = Last(ts)[Len(Last(ts))]
  BY <1>4, Fronting DEF Good, ScopesRight
<1>6. \A i \in 1..n - 1 : /\ TopIn(fs, i) <= TopIn(fs, n)
                          /\ TopIn(fs, i) = TopIn(fs, n) => SubIn(fs, i) < SubIn(fs, n)
  BY <1>1, PositionsGrow
<1>7. \A i \in 1..n : TopIn(fs, i) \in Nat \ {0} /\ SubIn(fs, i) \in Nat \ {0}
  BY <1>1, Position
<1>8. Len(ts) = TopIn(fs, n) /\ Len(Last(ts)) = SubIn(fs, n)
  <2>0. Len(ts) \in DOMAIN ts /\ Len(Last(ts)) \in DOMAIN ts[Len(ts)]
    BY <1>4, <1>5
  <2>1. PICK i \in 1..n : Len(ts) = TopIn(fs, i) /\ Len(Last(ts)) = SubIn(fs, i)
    BY <1>1, <2>0 DEF Good, ScopesHaveBlocks
  <2>2. Len(ts) = TopIn(fs, n)
    <3>1. i = n \/ i \in 1..n - 1
      BY <1>1
    <3>2. TopIn(fs, i) <= TopIn(fs, n) /\ TopIn(fs, n) \in Nat
      BY <1>1, <1>6, <1>7, <3>1
    <3> QED
      BY <1>2, <1>3, <2>1, <3>2
  <2>3. SubIn(fs, n) \in 1..Len(Last(ts))
    BY <1>3, <1>4, <1>5, <2>2
  <2>4. i = n
    <3>1. ASSUME i # n PROVE FALSE
      <4>1. i \in 1..n - 1
        BY <1>1, <3>1
      <4>2. SubIn(fs, i) < SubIn(fs, n)
        BY <1>6, <2>1, <2>2, <4>1
      <4> QED
        BY <1>5, <1>7, <2>1, <2>3, <4>2
    <3> QED
      BY <3>1
  <2> QED
    BY <2>1, <2>2, <2>4
<1>9. \A i \in 1..n - 1 : TopIn(fs, i) \in 1..Len(ts)
  BY <1>1, <1>2, <1>6, <1>7, <1>8
<1>10. Last(ts) = ts[TopIn(fs, n)] /\ Last(Last(ts)) = ts[TopIn(fs, n)][SubIn(fs, n)]
  BY <1>4, <1>5, <1>8
<1> QED
  BY <1>1, <1>4, <1>5, <1>6, <1>8, <1>9, <1>10 DEF n

-----------------------------------------------------------------------------
(***************************************************************************)
(* A statement is appended to the innermost block.                         *)
(***************************************************************************)
LEMMA AddedFrame ==
  ASSUME NEW f, IsFrame(f), NEW s, NEW new
  PROVE  [f EXCEPT !.src = Append(@, s), !.new = @ \o new]
           = [kind |-> f.kind, at |-> f.at, src |-> Append(f.src, s), new |-> f.new \o new]
<1>1. PICK kind, at, src, old : /\ f = [kind |-> kind, at |-> at, src |-> src, new |-> old]
                                /\ kind = f.kind /\ at = f.at /\ src = f.src /\ old = f.new
  BY DEF IsFrame
<1> DEFINE a == Append(src, s)
           b == old \o new
<1>2. [f EXCEPT !.src = Append(@, s), !.new = @ \o new] = [f EXCEPT !.src = a, !.new = b]
  BY <1>1
<1> HIDE DEF a, b
<1>3. [f EXCEPT !.src = a, !.new = b] = [kind |-> kind, at |-> at, src |-> a, new |-> b]
  <2> DEFINE g == [f EXCEPT !.src = a]
  <2>1. [f EXCEPT !.src = a, !.new = b] = [g EXCEPT !.new = b]
    OBVIOUS
  <2>2. g = [kind |-> kind, at |-> at, src |-> a, new |-> old]
    BY <1>1
  <2> HIDE DEF g
  <2>3. [g EXCEPT !.new = b] = [kind |-> kind, at |-> at, src |-> a, new |-> b]
    BY <2>2
  <2> QED
    BY <2>1, <2>3
<1> QED
  BY <1>1, <1>2, <1>3 DEF a, b

LEMMA AddedFrames ==
  ASSUME NEW fs, NEW c, FramesRight(fs, c), fs # <<>>, NEW d \in Nat, c <= d,
         NEW s, s.at \in 0..d, NEW new
  PROVE  LET n == Len(fs)
             gs == Added(fs, s, new)
         IN  /\ FramesRight(gs, d) /\ gs # <<>> /\ DOMAIN gs = DOMAIN fs
             /\ \A i \in DOMAIN fs : gs[i].kind = fs[i].kind /\ gs[i].at = fs[i].at
             /\ \A i \in 1..n - 1 : gs[i] = fs[i]
             /\ n \in Nat \ {0} /\ DOMAIN fs = 1..n
             /\ IsSeq(fs[n].src) /\ gs[n].src = Append(fs[n].src, s)
<1> DEFINE n == Len(fs)
           f == fs[n]
           g == [f EXCEPT !.src = Append(@, s), !.new = @ \o new]
           gs == Added(fs, s, new)
<1>1. n \in Nat \ {0} /\ DOMAIN fs = 1..n
  BY Fronting DEF FramesRight
<1>2. IsFrame(f) /\ IsSeq(f.src)
  BY <1>1 DEF FramesRight, IsFrame
<1>3. gs = [fs EXCEPT ![n] = g]
  BY <1>1, Fronting DEF Added, FramesRight
<1>4. /\ IsSeq(gs) /\ Len(gs) = n /\ DOMAIN gs = 1..n /\ gs # <<>> /\ gs[n] = g
      /\ \A i \in 1..n - 1 : gs[i] = fs[i]
  <2> HIDE DEF g, gs
  <2>1. IsSeq(fs)
    BY DEF FramesRight
  <2>2. IsSeq(gs) /\ Len(gs) = n /\ DOMAIN gs = 1..n /\ gs # <<>> /\ gs[n] = g
    BY <1>3, <2>1, Changing
  <2>3. \A i \in 1..n - 1 : gs[i] = fs[i]
    BY <1>3, <2>1, Changing
  <2> QED
    BY <2>2, <2>3
<1>5. /\ g.kind = f.kind /\ g.at = f.at /\ g.src = Append(f.src, s)
      /\ g = [kind |-> g.kind, at |-> g.at, src |-> g.src, new |-> g.new]
  <2> HIDE DEF f
  <2>1. g = [kind |-> f.kind, at |-> f.at, src |-> Append(f.src, s), new |-> f.new \o new]
    BY <1>2, AddedFrame DEF g
  <2> HIDE DEF g
  <2> QED
    BY <2>1
<1> HIDE DEF g, gs
<1>6. /\ IsSeq(g.src) /\ Len(f.src) \in Nat /\ DOMAIN g.src = 1..Len(f.src) + 1
      /\ DOMAIN f.src = 1..Len(f.src) /\ g.src[Len(f.src) + 1] = s
      /\ \A k \in 1..Len(f.src) : g.src[k] = f.src[k]
  BY <1>2, <1>5, Appending
<1>7. \A k \in DOMAIN g.src : g.src[k].at \in 0..d
  <2>1. \A k \in DOMAIN f.src : f.src[k].at \in 0..c
    BY <1>1 DEF FramesRight
  <2>2. c \in Nat
    BY DEF FramesRight
  <2>3. ASSUME NEW k \in DOMAIN g.src PROVE g.src[k].at \in 0..d
    <3>1. k = Len(f.src) + 1 \/ k \in 1..Len(f.src)
      BY <1>6, <2>3
    <3>2. CASE k \in 1..Len(f.src)
      <4>1. f.src[k].at \in 0..c
        BY <1>6, <2>1, <3>2
      <4> QED
        BY <1>6, <2>2, <3>2, <4>1
    <3> QED
      BY <1>6, <3>1, <3>2
  <2> QED
    BY <2>3
<1>8. \A i \in DOMAIN fs : gs[i].kind = fs[i].kind /\ gs[i].at = fs[i].at
  <2> HIDE DEF n, f
  <2>1. \A i \in 1..n : i = n \/ i \in 1..n - 1
    BY <1>1
  <2>2. f = fs[n]
    BY DEF f
  <2> QED
    BY <1>1, <1>4, <1>5, <2>1, <2>2
<1>9. FramesRight(gs, d)
  <2>1. c \in Nat
    BY DEF FramesRight
  <2>2. ASSUME NEW i \in DOMAIN gs
        PROVE  /\ IsFrame(gs[i]) /\ gs[i].at \in 0..d
               /\ \A k \in DOMAIN gs[i].src :
                    /\ gs[i].src[k].at \in 0..d
                    /\ i < Len(gs) => gs[i].src[k].at < gs[i + 1].at
    <3>1. fs[i].at \in 0..d
      <4>1. fs[i].at \in 0..c
        BY <1>1, <1>4 DEF FramesRight
      <4> QED
        BY <2>1, <4>1
    <3>2. CASE i = n
      <4>1. IsFrame(gs[i])
        BY <1>4, <1>5, <1>6, <3>2 DEF IsFrame
      <4>2. ~(i < Len(gs))
        BY <1>1, <1>4, <3>2
      <4> QED
        BY <1>1, <1>4, <1>7, <1>8, <3>1, <3>2, <4>1, <4>2
    <3>3. CASE i # n
      <4>1. i \in 1..n - 1 /\ i + 1 \in 1..n /\ i < Len(fs) /\ i \in DOMAIN fs
        BY <1>1, <1>4, <2>2, <3>3
      <4>2. gs[i] = fs[i] /\ gs[i + 1].at = fs[i + 1].at
        BY <1>1, <1>4, <1>8, <4>1
      <4>3. IsFrame(fs[i]) /\ \A k \in DOMAIN fs[i].src : /\ fs[i].src[k].at \in 0..c
                                                          /\ fs[i].src[k].at < fs[i + 1].at
        BY <4>1 DEF FramesRight
      <4> HIDE DEF n
      <4>4. \A k \in DOMAIN fs[i].src : fs[i].src[k].at \in 0..d
        <5>1. \A x \in 0..c : x \in 0..d
          BY <2>1
        <5> QED
          BY <4>3, <5>1
      <4> QED
        BY <3>1, <4>2, <4>3, <4>4
    <3> QED
      BY <3>2, <3>3
  <2>3. gs[1].kind = "func"
    BY <1>1, <1>8 DEF FramesRight
  <2> QED
    BY <1>4, <2>2, <2>3 DEF FramesRight
<1> QED
  BY <1>1, <1>2, <1>4, <1>5, <1>8, <1>9 DEF gs

\* A statement that is no defer statement leaves the scopes alone.
LEMMA AddOther ==
  ASSUME NEW fs, NEW ts, NEW c, Good(fs, ts, c), fs # <<>>, NEW d \in Nat, c <= d,
         NEW s, s.at \in 0..d, ~IsDefer(s), NEW new
  PROVE  Good(Added(fs, s, new), ts, d)
<1> DEFINE n == Len(fs)
           gs == Added(fs, s, new)
<1>1. /\ FramesRight(gs, d) /\ gs # <<>> /\ DOMAIN gs = DOMAIN fs
      /\ \A i \in DOMAIN fs : gs[i].kind = fs[i].kind
      /\ \A i \in 1..n - 1 : gs[i] = fs[i]
      /\ n \in Nat \ {0} /\ DOMAIN fs = 1..n
      /\ IsSeq(fs[n].src) /\ gs[n].src = Append(fs[n].src, s)
  <2>1. FramesRight(fs, c)
    BY DEF Good
  <2>2. /\ FramesRight(gs, d) /\ gs # <<>> /\ DOMAIN gs = DOMAIN fs
        /\ n \in Nat \ {0} /\ DOMAIN fs = 1..n
        /\ IsSeq(fs[n].src) /\ gs[n].src = Append(fs[n].src, s)
    BY <2>1, AddedFrames
  <2>3. \A i \in DOMAIN fs : gs[i].kind = fs[i].kind
    BY <2>1, AddedFrames
  <2>4. \A i \in 1..n - 1 : gs[i] = fs[i]
    BY <2>1, AddedFrames
  <2> QED
    BY <2>2, <2>3, <2>4
<1> HIDE DEF n, gs
<1>2. \A i \in DOMAIN fs : TopIn(gs, i) = TopIn(fs, i) /\ SubIn(gs, i) = SubIn(fs, i)
  BY <1>1, SamePosition
<1>3. \A i \in DOMAIN fs : Defers(gs[i].src) = Defers(fs[i].src)
  <2>1. Defers(Append(fs[n].src, s)) = Defers(fs[n].src)
    <3> DEFINE o == fs[n].src
               p == Append(o, s)
    <3>1. /\ Len(o) \in Nat /\ DOMAIN p = 1..Len(o) + 1 /\ DOMAIN o = 1..Len(o)
          /\ p[Len(o) + 1] = s /\ \A k \in 1..Len(o) : p[k] = o[k]
      BY <1>1, Appending
    <3> HIDE DEF o, p
    <3>2. {k \in DOMAIN p : IsDefer(p[k])} = {k \in DOMAIN o : IsDefer(o[k])}
      BY <3>1
    <3>3. \A k \in {k \in DOMAIN o : IsDefer(o[k])} : p[k].at = o[k].at
      BY <3>1
    <3>4. Defers(p) = Defers(o)
      BY <3>2, <3>3 DEF Defers
    <3> QED
      BY <3>4 DEF o, p
  <2>2. \A i \in 1..n : i = n \/ i \in 1..n - 1
    BY <1>1
  <2> QED
    BY <1>1, <2>1, <2>2
<1>4. BlocksHaveScopes(gs, ts)
  BY <1>1, <1>2, <1>3 DEF Good, BlocksHaveScopes, Registers
<1>5. ScopesHaveBlocks(gs, ts)
  BY <1>1, <1>2 DEF Good, ScopesHaveBlocks
<1> QED
  BY <1>1, <1>4, <1>5 DEF Good, gs

\* A statement is registered in the innermost scope, and nowhere else.
LEMMA RegisteredScopes ==
  ASSUME NEW ts, ScopesRight(ts), ts # <<>>, NEW s
  PROVE  LET us == Registered(ts, s)
             b == Len(ts)
             e == Len(Last(ts))
         IN  /\ ScopesRight(us) /\ us # <<>> /\ DOMAIN us = DOMAIN ts
             /\ b \in Nat \ {0} /\ e \in Nat \ {0} /\ DOMAIN ts = 1..b /\ DOMAIN ts[b] = 1..e
             /\ \A t \in DOMAIN ts : DOMAIN us[t] = DOMAIN ts[t]
             /\ \A t \in 1..b - 1 : us[t] = ts[t]
             /\ \A k \in 1..e - 1 : us[b][k] = ts[b][k]
             /\ IsSeq(Last(Last(ts))) /\ Last(Last(ts)) = ts[b][e]
             /\ us[b][e] = Append(Last(Last(ts)), s)
<1> DEFINE b == Len(ts)
           back == Last(ts)
           e == Len(back)
           x == Append(Last(back), s)
           q == [back EXCEPT ![e] = x]
           us == Registered(ts, s)
<1>1. /\ IsSeq(ts) /\ b \in Nat \ {0} /\ DOMAIN ts = 1..b /\ back = ts[b] /\ b \in DOMAIN ts
  BY Fronting DEF ScopesRight
<1>2. IsSeq(back) /\ back # <<>>
  BY <1>1 DEF ScopesRight
<1> HIDE DEF back
<1>3. /\ e \in Nat \ {0} /\ DOMAIN back = 1..e /\ e \in DOMAIN back /\ Last(back) = back[e]
  BY <1>2, Fronting
<1>4. IsSeq(Last(back))
  BY <1>1, <1>3 DEF ScopesRight
<1>5. IsSeq(x)
  BY <1>4, Appending
<1>6. us = [ts EXCEPT ![b] = q]
  BY <1>1, <1>3 DEF Registered, back
<1> HIDE DEF x
<1>7. /\ IsSeq(q) /\ DOMAIN q = 1..e /\ q # <<>> /\ q[e] = x
      /\ \A k \in 1..e - 1 : q[k] = back[k]
  <2>1. IsSeq(q) /\ DOMAIN q = 1..e /\ q # <<>> /\ q[e] = x
    BY <1>2, Changing
  <2>2. \A k \in 1..e - 1 : q[k] = back[k]
    BY <1>2, Changing
  <2> QED
    BY <2>1, <2>2
<1> HIDE DEF q, us
<1>8. /\ IsSeq(us) /\ DOMAIN us = 1..b /\ us # <<>> /\ us[b] = q
      /\ \A t \in 1..b - 1 : us[t] = ts[t]
  <2>1. IsSeq(us) /\ DOMAIN us = 1..b /\ us # <<>> /\ us[b] = q
    BY <1>1, <1>6, Changing
  <2>2. \A t \in 1..b - 1 : us[t] = ts[t]
    BY <1>1, <1>6, Changing
  <2> QED
    BY <2>1, <2>2
<1> HIDE DEF b, e
<1>9. \A t \in 1..b : t = b \/ t \in 1..b - 1
  BY <1>1
<1>10. \A k \in 1..e : k = e \/ k \in 1..e - 1
  BY <1>3
<1>11. \A k \in DOMAIN q : IsSeq(q[k])
  <2>1. \A k \in 1..e - 1 : k \in DOMAIN back
    BY <1>3
  <2>2. \A k \in 1..e - 1 : IsSeq(back[k])
    BY <1>1, <2>1 DEF ScopesRight
  <2> QED
    BY <1>5, <1>7, <1>10, <2>2
<1>12. ScopesRight(us)
  <2>1. ASSUME NEW t \in DOMAIN us
        PROVE  IsSeq(us[t]) /\ us[t] # <<>> /\ \A k \in DOMAIN us[t] : IsSeq(us[t][k])
    <3>1. CASE t = b
      BY <1>7, <1>8, <1>11, <3>1
    <3>2. CASE t \in 1..b - 1
      BY <1>1, <1>8, <3>2 DEF ScopesRight
    <3> QED
      BY <1>8, <1>9, <2>1, <3>1, <3>2
  <2> QED
    BY <1>8, <2>1 DEF ScopesRight
<1>13. \A t \in DOMAIN ts : DOMAIN us[t] = DOMAIN ts[t]
  BY <1>1, <1>3, <1>7, <1>8, <1>9
<1>14. \A k \in 1..e - 1 : us[b][k] = ts[b][k]
  BY <1>1, <1>7, <1>8
<1> QED
  BY <1>1, <1>3, <1>4, <1>7, <1>8, <1>12, <1>13, <1>14 DEF us, b, e, back, x

LEMMA RegistersAppended ==
  ASSUME NEW scope, IsSeq(scope), NEW stmts, IsSeq(stmts), Registers(scope, stmts),
         NEW s, IsDefer(s), s.at \in Nat, NEW r, r.at = s.at,
         \A k \in DOMAIN stmts : stmts[k].at \in Nat /\ stmts[k].at < s.at
  PROVE  Registers(Append(scope, r), Append(stmts, s))
<1> DEFINE p == Append(scope, r)
           o == Append(stmts, s)
           m == Len(scope)
           n == Len(stmts)
<1>1. /\ m \in Nat /\ DOMAIN scope = 1..m /\ DOMAIN p = 1..m + 1 /\ p[m + 1] = r
      /\ \A k \in 1..m : p[k] = scope[k]
  BY Appending
<1>2. /\ n \in Nat /\ DOMAIN stmts = 1..n /\ DOMAIN o = 1..n + 1 /\ o[n + 1] = s
      /\ \A k \in 1..n : o[k] = stmts[k]
  BY Appending
<1> HIDE DEF p, o, m, n
<1>3. Places(p) = Places(scope) \cup {s.at}
  <2>1. \A k \in 1..m + 1 : k = m + 1 \/ k \in 1..m
    BY <1>1
  <2>2. m + 1 \in 1..m + 1 /\ \A k \in 1..m : k \in 1..m + 1
    BY <1>1
  <2> QED
    BY <1>1, <2>1, <2>2 DEF Places
<1>4. Defers(o) = Defers(stmts) \cup {s.at}
  <2>1. \A k \in 1..n + 1 : k = n + 1 \/ k \in 1..n
    BY <1>2
  <2>2. n + 1 \in 1..n + 1 /\ \A k \in 1..n : k \in 1..n + 1
    BY <1>2
  <2>3. {k \in DOMAIN o : IsDefer(o[k])} = {k \in DOMAIN stmts : IsDefer(stmts[k])} \cup {n + 1}
    BY <1>2, <2>1, <2>2
  <2> QED
    BY <1>2, <2>3 DEF Defers
<1>5. \A k \in DOMAIN scope : scope[k].at < s.at /\ scope[k].at \in Nat
  <2>1. \A a \in Defers(stmts) : a \in Nat /\ a < s.at
    BY DEF Defers
  <2>2. \A k \in DOMAIN scope : scope[k].at \in Defers(stmts)
    BY DEF Registers, Places
  <2> QED
    BY <2>1, <2>2
<1>6. ASSUME NEW k \in DOMAIN p, NEW l \in DOMAIN p, k < l
      PROVE  p[k].at < p[l].at
  <2>1. k \in 1..m /\ (l \in 1..m \/ l = m + 1)
    BY <1>1, <1>6
  <2>2. CASE l = m + 1
    BY <1>1, <1>5, <2>1, <2>2
  <2>3. CASE l \in 1..m
    BY <1>1, <1>6, <2>1, <2>3 DEF Registers
  <2> QED
    BY <2>1, <2>2, <2>3
<1>7. Places(p) = Defers(o)
  BY <1>3, <1>4 DEF Registers
<1> QED
  BY <1>6, <1>7 DEF Registers, p, o

\* A defer statement is appended to its block as it was written and registered as
\* it has been rewritten.
LEMMA AddDefer ==
  ASSUME NEW fs, NEW ts, NEW c, Good(fs, ts, c), fs # <<>>, NEW d \in Nat, c <= d,
         NEW s, s.at \in 0..d, IsDefer(s), NEW new, NEW r, r.at = s.at,
         \A k \in DOMAIN fs[Len(fs)].src : fs[Len(fs)].src[k].at < s.at
  PROVE  Good(Added(fs, s, new), Registered(ts, r), d)
<1> DEFINE n == Len(fs)
           gs == Added(fs, s, new)
           us == Registered(ts, r)
           b == Len(ts)
           e == Len(Last(ts))
<1>1. /\ FramesRight(gs, d) /\ gs # <<>> /\ DOMAIN gs = DOMAIN fs
      /\ \A i \in DOMAIN fs : gs[i].kind = fs[i].kind
      /\ \A i \in 1..n - 1 : gs[i] = fs[i]
      /\ n \in Nat \ {0} /\ DOMAIN fs = 1..n
      /\ IsSeq(fs[n].src) /\ gs[n].src = Append(fs[n].src, s)
  <2>1. FramesRight(fs, c)
    BY DEF Good
  <2>2. /\ FramesRight(gs, d) /\ gs # <<>> /\ DOMAIN gs = DOMAIN fs
        /\ n \in Nat \ {0} /\ DOMAIN fs = 1..n
        /\ IsSeq(fs[n].src) /\ gs[n].src = Append(fs[n].src, s)
    BY <2>1, AddedFrames
  <2>3. \A i \in DOMAIN fs : gs[i].kind = fs[i].kind
    BY <2>1, AddedFrames
  <2>4. \A i \in 1..n - 1 : gs[i] = fs[i]
    BY <2>1, AddedFrames
  <2> QED
    BY <2>2, <2>3, <2>4
<1>2. /\ ts # <<>> /\ b = TopIn(fs, n) /\ e = SubIn(fs, n)
      /\ Last(Last(ts)) = ts[b][e]
      /\ \A i \in 1..n - 1 : /\ TopIn(fs, i) \in 1..b
                             /\ TopIn(fs, i) = b => SubIn(fs, i) < e
  BY Innermost
<1>3. /\ ScopesRight(us) /\ DOMAIN us = DOMAIN ts
      /\ b \in Nat \ {0} /\ e \in Nat \ {0} /\ DOMAIN ts = 1..b /\ DOMAIN ts[b] = 1..e
      /\ \A t \in DOMAIN ts : DOMAIN us[t] = DOMAIN ts[t]
      /\ \A t \in 1..b - 1 : us[t] = ts[t]
      /\ \A k \in 1..e - 1 : us[b][k] = ts[b][k]
      /\ IsSeq(ts[b][e]) /\ us[b][e] = Append(ts[b][e], r)
  <2>1. ScopesRight(ts)
    BY DEF Good
  <2>2. ts # <<>>
    BY <1>2
  <2>3. /\ ScopesRight(us) /\ DOMAIN us = DOMAIN ts
        /\ b \in Nat \ {0} /\ e \in Nat \ {0} /\ DOMAIN ts = 1..b /\ DOMAIN ts[b] = 1..e
        /\ IsSeq(Last(Last(ts))) /\ us[b][e] = Append(Last(Last(ts)), r)
    BY <2>1, <2>2, RegisteredScopes
  <2>4. \A t \in DOMAIN ts : DOMAIN us[t] = DOMAIN ts[t]
    BY <2>1, <2>2, RegisteredScopes
  <2>5. \A t \in 1..b - 1 : us[t] = ts[t]
    BY <2>1, <2>2, RegisteredScopes
  <2>6. \A k \in 1..e - 1 : us[b][k] = ts[b][k]
    BY <2>1, <2>2, RegisteredScopes
  <2> HIDE DEF us, b, e
  <2> QED
    BY <1>2, <2>3, <2>4, <2>5, <2>6
<1>4. \A k \in DOMAIN fs[n].src : fs[n].src[k].at \in Nat /\ fs[n].src[k].at < s.at
  <2>1. c \in Nat /\ n \in DOMAIN fs
    BY <1>1 DEF Good, FramesRight
  <2>2. \A k \in DOMAIN fs[n].src : fs[n].src[k].at \in 0..c
    BY <2>1 DEF Good, FramesRight
  <2> QED
    BY <2>1, <2>2
<1> HIDE DEF n, gs, us, b, e
<1>5. \A i \in DOMAIN fs : TopIn(gs, i) = TopIn(fs, i) /\ SubIn(gs, i) = SubIn(fs, i)
  BY <1>1, SamePosition
<1>6. ASSUME NEW i \in DOMAIN gs
      PROVE  /\ TopIn(gs, i) \in DOMAIN us /\ SubIn(gs, i) \in DOMAIN us[TopIn(gs, i)]
             /\ Registers(us[TopIn(gs, i)][SubIn(gs, i)], gs[i].src)
  <2>1. /\ TopIn(fs, i) \in DOMAIN ts /\ SubIn(fs, i) \in DOMAIN ts[TopIn(fs, i)]
        /\ Registers(ts[TopIn(fs, i)][SubIn(fs, i)], fs[i].src)
    BY <1>1, <1>6 DEF Good, BlocksHaveScopes
  <2>2. TopIn(gs, i) \in DOMAIN us /\ SubIn(gs, i) \in DOMAIN us[TopIn(gs, i)]
    BY <1>1, <1>3, <1>5, <1>6, <2>1
  <2>3. CASE i = n
    <3>1. Registers(ts[b][e], fs[n].src)
      BY <1>2, <2>1, <2>3
    <3>2. s.at \in Nat
      OBVIOUS
    <3>3. Registers(Append(ts[b][e], r), Append(fs[n].src, s))
      BY <1>1, <1>3, <1>4, <3>1, <3>2, RegistersAppended
    <3> QED
      BY <1>1, <1>2, <1>3, <1>5, <1>6, <2>2, <2>3, <3>3
  <2>4. CASE i \in 1..n - 1
    <3>1. us[TopIn(fs, i)][SubIn(fs, i)] = ts[TopIn(fs, i)][SubIn(fs, i)]
      <4>1. CASE TopIn(fs, i) = b
        <5>1. SubIn(fs, i) \in 1..e - 1
          BY <1>2, <1>3, <2>1, <2>4, <4>1
        <5> QED
          BY <1>3, <4>1, <5>1
      <4>2. CASE TopIn(fs, i) # b
        <5>1. TopIn(fs, i) \in 1..b - 1
          BY <1>3, <2>1, <4>2
        <5> QED
          BY <1>3, <5>1
      <4> QED
        BY <4>1, <4>2
    <3> QED
      BY <1>1, <1>5, <1>6, <2>1, <2>2, <2>4, <3>1
  <2>5. i = n \/ i \in 1..n - 1
    BY <1>1, <1>6
  <2> QED
    BY <2>3, <2>4, <2>5
<1>7. BlocksHaveScopes(gs, us)
  BY <1>6 DEF BlocksHaveScopes
<1>8. ScopesHaveBlocks(gs, us)
  BY <1>1, <1>3, <1>5 DEF Good, ScopesHaveBlocks
<1> QED
  BY <1>1, <1>3, <1>7, <1>8 DEF Good, gs, us

-----------------------------------------------------------------------------
(***************************************************************************)
(* A block is entered.                                                     *)
(***************************************************************************)
LEMMA EmptyRight == IsSeq(<<>>) /\ DOMAIN <<>> = {}
<1>1. <<>> \in Seq({}) /\ Len(<<>>) = 0
  OBVIOUS
<1>2. DOMAIN <<>> = {}
  BY <1>1
<1>3. IsSeq(<<>>)
  BY <1>1, SeqIsSeq
<1> QED
  BY <1>2, <1>3

LEMMA PushedFrames ==
  ASSUME NEW fs, NEW c, FramesRight(fs, c), fs # <<>>, NEW d \in Nat, c < d, NEW kind
  PROVE  LET n == Len(fs)
             gs == Append(fs, Frame(kind, d))
         IN  /\ FramesRight(gs, d) /\ gs # <<>> /\ DOMAIN gs = 1..n + 1
             /\ n \in Nat \ {0} /\ DOMAIN fs = 1..n
             /\ \A i \in 1..n : gs[i] = fs[i]
             /\ gs[n + 1].kind = kind /\ gs[n + 1].src = <<>>
<1> DEFINE n == Len(fs)
           f == Frame(kind, d)
           gs == Append(fs, f)
<1>1. /\ n \in Nat \ {0} /\ DOMAIN fs = 1..n /\ IsSeq(gs) /\ Len(gs) = n + 1
      /\ DOMAIN gs = 1..n + 1 /\ gs[n + 1] = f /\ gs # <<>>
      /\ \A i \in 1..n : gs[i] = fs[i]
  <2>1. IsSeq(fs)
    BY DEF FramesRight
  <2>2. n \in Nat \ {0} /\ DOMAIN fs = 1..n
    BY <2>1, Fronting
  <2>3. IsSeq(gs) /\ Len(gs) = n + 1 /\ DOMAIN gs = 1..n + 1 /\ gs[n + 1] = f /\ gs # <<>>
    BY <2>1, Appending
  <2>4. \A i \in 1..n : gs[i] = fs[i]
    BY <2>1, Appending
  <2> QED
    BY <2>2, <2>3, <2>4
<1>2. IsFrame(f) /\ f.kind = kind /\ f.src = <<>> /\ f.at = d
  <2>1. f.kind = kind /\ f.src = <<>> /\ f.at = d /\ f.new = <<>>
    BY DEF Frame
  <2>2. f = [kind |-> f.kind, at |-> f.at, src |-> f.src, new |-> f.new]
    BY <2>1 DEF Frame
  <2> QED
    BY <2>1, <2>2, EmptyRight DEF IsFrame
<1>3. c \in Nat
  BY DEF FramesRight
<1> HIDE DEF f, gs
<1>4. ASSUME NEW i \in DOMAIN gs
      PROVE  /\ IsFrame(gs[i]) /\ gs[i].at \in 0..d
             /\ \A k \in DOMAIN gs[i].src :
                  /\ gs[i].src[k].at \in 0..d
                  /\ i < Len(gs) => gs[i].src[k].at < gs[i + 1].at
  <2>1. CASE i = n + 1
    BY <1>1, <1>2, <2>1, EmptyRight
  <2>2. CASE i \in 1..n
    <3>1. gs[i] = fs[i] /\ i \in DOMAIN fs
      BY <1>1, <2>2
    <3>2. IsFrame(fs[i]) /\ fs[i].at \in 0..c /\ \A k \in DOMAIN fs[i].src : fs[i].src[k].at \in 0..c
      BY <3>1 DEF FramesRight
    <3>3. \A x \in 0..c : x \in 0..d /\ x < d
      BY <1>3
    <3>4. \A k \in DOMAIN fs[i].src : fs[i].src[k].at < gs[i + 1].at
      <4>1. CASE i = n
        BY <1>1, <1>2, <3>2, <3>3, <4>1
      <4>2. CASE i # n
        <5>1. i < n /\ i + 1 \in 1..n
          BY <1>1, <2>2, <4>2
        <5> QED
          BY <1>1, <3>1, <5>1 DEF FramesRight
      <4> QED
        BY <4>1, <4>2
    <3> QED
      BY <3>1, <3>2, <3>3, <3>4
  <2> QED
    BY <1>1, <1>4, <2>1, <2>2
<1>5. gs[1].kind = "func"
  BY <1>1 DEF FramesRight
<1>6. FramesRight(gs, d)
  BY <1>1, <1>4, <1>5 DEF FramesRight
<1> QED
  BY <1>1, <1>2, <1>6 DEF gs, f

LEMMA NothingRegistered == Registers(<<>>, <<>>)
BY EmptyRight DEF Registers, Places, Defers

\* A loop or a deferred block gets a top scope.
LEMMA PushTop ==
  ASSUME NEW fs, NEW ts, NEW c, Good(fs, ts, c), fs # <<>>, NEW d \in Nat, c < d,
         NEW kind, kind # "cond"
  PROVE  Good(Append(fs, Frame(kind, d)), Append(ts, << <<>> >>), d)
<1> DEFINE n == Len(fs)
           gs == Append(fs, Frame(kind, d))
           x == << <<>> >>
           us == Append(ts, x)
           b == Len(ts)
<1>1. /\ FramesRight(gs, d) /\ DOMAIN gs = 1..n + 1 /\ n \in Nat \ {0} /\ DOMAIN fs = 1..n
      /\ \A i \in 1..n : gs[i] = fs[i]
      /\ gs[n + 1].kind = kind /\ gs[n + 1].src = <<>>
  <2>1. FramesRight(fs, c)
    BY DEF Good
  <2> QED
    BY <2>1, PushedFrames
<1>2. b = TopIn(fs, n)
  BY Innermost
<1>3. IsSeq(ts) /\ \A t \in DOMAIN ts : /\ IsSeq(ts[t]) /\ ts[t] # <<>>
                                        /\ \A k \in DOMAIN ts[t] : IsSeq(ts[t][k])
  BY DEF Good, ScopesRight
<1>4. /\ IsSeq(us) /\ b \in Nat /\ DOMAIN ts = 1..b /\ DOMAIN us = 1..b + 1
      /\ us[b + 1] = x /\ \A t \in 1..b : us[t] = ts[t]
  BY <1>3, Appending
<1>5. IsSeq(x) /\ x # <<>> /\ DOMAIN x = 1..1 /\ x[1] = <<>>
  <2>1. x \in Seq({ <<>> }) /\ x # <<>> /\ DOMAIN x = 1..1 /\ x[1] = <<>>
    OBVIOUS
  <2> QED
    BY <2>1, SeqIsSeq
<1> HIDE DEF n, gs, x, us, b
<1>6. /\ TopIn(gs, n + 1) = b + 1 /\ SubIn(gs, n + 1) = 1
      /\ \A i \in 1..n : TopIn(gs, i) = TopIn(fs, i) /\ SubIn(gs, i) = SubIn(fs, i)
  <2>1. ASSUME NEW i \in 1..n
        PROVE  TopIn(gs, i) = TopIn(fs, i) /\ SubIn(gs, i) = SubIn(fs, i)
    <3>1. i \in Nat /\ \A j \in 1..i : gs[j].kind = fs[j].kind
      BY <1>1
    <3> QED
      BY <3>1, SamePosition
  <2>2. gs[1].kind = "func"
    BY <1>1 DEF Good, FramesRight
  <2>3. TopIn(gs, n + 1) = TopIn(gs, n) + 1 /\ SubIn(gs, n + 1) = 1
    BY <1>1, <2>2, NextPosition
  <2>4. n \in 1..n
    BY <1>1
  <2> QED
    BY <1>2, <2>1, <2>3, <2>4
<1>7. ScopesRight(us)
  <2>1. \A t \in 1..b + 1 : t = b + 1 \/ t \in 1..b
    BY <1>4
  <2>2. \A k \in DOMAIN x : IsSeq(x[k])
    BY <1>5, EmptyRight
  <2>3. ASSUME NEW t \in DOMAIN us
        PROVE  IsSeq(us[t]) /\ us[t] # <<>> /\ \A k \in DOMAIN us[t] : IsSeq(us[t][k])
    BY <1>3, <1>4, <1>5, <2>1, <2>2, <2>3
  <2> QED
    BY <1>4, <2>3 DEF ScopesRight
<1>8. BlocksHaveScopes(gs, us)
  <2>1. ASSUME NEW i \in DOMAIN gs
        PROVE  /\ TopIn(gs, i) \in DOMAIN us /\ SubIn(gs, i) \in DOMAIN us[TopIn(gs, i)]
               /\ Registers(us[TopIn(gs, i)][SubIn(gs, i)], gs[i].src)
    <3>1. CASE i = n + 1
      <4>1. b + 1 \in 1..b + 1 /\ 1 \in 1..1
        BY <1>4
      <4> QED
        BY <1>1, <1>4, <1>5, <1>6, <3>1, <4>1, NothingRegistered
    <3>2. CASE i \in 1..n
      <4>1. /\ TopIn(fs, i) \in DOMAIN ts /\ SubIn(fs, i) \in DOMAIN ts[TopIn(fs, i)]
            /\ Registers(ts[TopIn(fs, i)][SubIn(fs, i)], fs[i].src)
        BY <1>1, <3>2 DEF Good, BlocksHaveScopes
      <4>2. \A t \in DOMAIN ts : t \in DOMAIN us /\ us[t] = ts[t]
        BY <1>4
      <4> QED
        BY <1>1, <1>6, <3>2, <4>1, <4>2
    <3> QED
      BY <1>1, <2>1, <3>1, <3>2
  <2> QED
    BY <2>1 DEF BlocksHaveScopes
<1>9. ScopesHaveBlocks(gs, us)
  <2>1. ASSUME NEW t \in DOMAIN us, NEW k \in DOMAIN us[t]
        PROVE  \E i \in DOMAIN gs : t = TopIn(gs, i) /\ k = SubIn(gs, i)
    <3>1. CASE t = b + 1
      <4>1. k = 1 /\ n + 1 \in DOMAIN gs
        BY <1>1, <1>4, <1>5, <2>1, <3>1
      <4> QED
        BY <1>6, <3>1, <4>1
    <3>2. CASE t \in 1..b
      <4>1. t \in DOMAIN ts /\ k \in DOMAIN ts[t]
        BY <1>4, <2>1, <3>2
      <4>2. PICK i \in DOMAIN fs : t = TopIn(fs, i) /\ k = SubIn(fs, i)
        BY <4>1 DEF Good, ScopesHaveBlocks
      <4>3. i \in 1..n /\ i \in DOMAIN gs
        BY <1>1
      <4> QED
        BY <1>6, <4>2, <4>3
    <3> QED
      BY <1>4, <2>1, <3>1, <3>2
  <2> QED
    BY <2>1 DEF ScopesHaveBlocks
<1> QED
  BY <1>1, <1>7, <1>8, <1>9 DEF Good, gs, us, x

\* An arm gets a scope in the last top scope.
LEMMA PushSub ==
  ASSUME NEW fs, NEW ts, NEW c, Good(fs, ts, c), fs # <<>>, NEW d \in Nat, c < d
  PROVE  Good(Append(fs, Frame("cond", d)), [ts EXCEPT ![Len(ts)] = Append(@, <<>>)], d)
<1> DEFINE n == Len(fs)
           gs == Append(fs, Frame("cond", d))
           b == Len(ts)
           back == Last(ts)
           e == Len(back)
           x == Append(back, <<>>)
           us == [ts EXCEPT ![b] = x]
<1>1. /\ FramesRight(gs, d) /\ DOMAIN gs = 1..n + 1 /\ n \in Nat \ {0} /\ DOMAIN fs = 1..n
      /\ \A i \in 1..n : gs[i] = fs[i]
      /\ gs[n + 1].kind = "cond" /\ gs[n + 1].src = <<>>
  <2>1. FramesRight(fs, c)
    BY DEF Good
  <2> QED
    BY <2>1, PushedFrames
<1>2. b = TopIn(fs, n) /\ ts # <<>> /\ e = SubIn(fs, n) /\ IsSeq(back) /\ back # <<>>
  BY Innermost
<1>3. IsSeq(ts) /\ \A t \in DOMAIN ts : /\ IsSeq(ts[t]) /\ ts[t] # <<>>
                                        /\ \A k \in DOMAIN ts[t] : IsSeq(ts[t][k])
  BY DEF Good, ScopesRight
<1>4. b \in Nat \ {0} /\ DOMAIN ts = 1..b /\ back = ts[b] /\ b \in DOMAIN ts
  BY <1>2, <1>3, Fronting
<1> HIDE DEF back
<1>5. /\ IsSeq(x) /\ x # <<>> /\ e \in Nat /\ DOMAIN back = 1..e /\ DOMAIN x = 1..e + 1
      /\ x[e + 1] = <<>> /\ \A k \in 1..e : x[k] = back[k]
  <2>1. IsSeq(x) /\ x # <<>> /\ e \in Nat /\ DOMAIN back = 1..e /\ DOMAIN x = 1..e + 1 /\ x[e + 1] = <<>>
    BY <1>2, Appending
  <2>2. \A k \in 1..e : x[k] = back[k]
    BY <1>2, Appending
  <2> QED
    BY <2>1, <2>2
<1>6. us = [ts EXCEPT ![Len(ts)] = Append(@, <<>>)]
  BY <1>4
<1> HIDE DEF x
<1>7. /\ IsSeq(us) /\ DOMAIN us = 1..b /\ us[b] = x
      /\ \A t \in 1..b - 1 : us[t] = ts[t]
  <2>1. IsSeq(us) /\ DOMAIN us = 1..b /\ us[b] = x
    BY <1>2, <1>3, Changing
  <2>2. \A t \in 1..b - 1 : us[t] = ts[t]
    BY <1>2, <1>3, Changing
  <2> QED
    BY <2>1, <2>2
<1> HIDE DEF n, gs, us, b, e
<1>8. /\ TopIn(gs, n + 1) = b /\ SubIn(gs, n + 1) = e + 1
      /\ \A i \in 1..n : TopIn(gs, i) = TopIn(fs, i) /\ SubIn(gs, i) = SubIn(fs, i)
  <2>1. ASSUME NEW i \in 1..n
        PROVE  TopIn(gs, i) = TopIn(fs, i) /\ SubIn(gs, i) = SubIn(fs, i)
    <3>1. i \in Nat /\ \A j \in 1..i : gs[j].kind = fs[j].kind
      BY <1>1
    <3> QED
      BY <3>1, SamePosition
  <2>2. gs[1].kind = "func"
    BY <1>1 DEF Good, FramesRight
  <2>3. TopIn(gs, n + 1) = TopIn(gs, n) /\ SubIn(gs, n + 1) = SubIn(gs, n) + 1
    BY <1>1, <2>2, NextPosition
  <2>4. n \in 1..n
    BY <1>1
  <2> QED
    BY <1>2, <2>1, <2>3, <2>4
<1>9. \A t \in 1..b : t = b \/ t \in 1..b - 1
  BY <1>4
<1>10. \A k \in 1..e + 1 : k = e + 1 \/ k \in 1..e
  BY <1>5
\* What was there still is.
<1>11. \A t \in DOMAIN ts : /\ t \in DOMAIN us
                            /\ \A k \in DOMAIN ts[t] : k \in DOMAIN us[t] /\ us[t][k] = ts[t][k]
  <2>1. ASSUME NEW t \in DOMAIN ts
        PROVE  /\ t \in DOMAIN us
               /\ \A k \in DOMAIN ts[t] : k \in DOMAIN us[t] /\ us[t][k] = ts[t][k]
    <3>1. CASE t = b
      <4>1. \A k \in 1..e : k \in 1..e + 1
        BY <1>5
      <4> QED
        BY <1>4, <1>5, <1>7, <2>1, <3>1, <4>1
    <3>2. CASE t # b
      BY <1>4, <1>7, <1>9, <2>1, <3>2
    <3> QED
      BY <3>1, <3>2
  <2> QED
    BY <2>1
<1>12. ScopesRight(us)
  <2>1. \A k \in DOMAIN x : IsSeq(x[k])
    BY <1>3, <1>4, <1>5, <1>10, EmptyRight
  <2>2. ASSUME NEW t \in DOMAIN us
        PROVE  IsSeq(us[t]) /\ us[t] # <<>> /\ \A k \in DOMAIN us[t] : IsSeq(us[t][k])
    <3>1. CASE t = b
      BY <1>5, <1>7, <2>1, <3>1
    <3>2. CASE t \in 1..b - 1
      <4>1. t \in DOMAIN ts /\ us[t] = ts[t]
        BY <1>4, <1>7, <3>2
      <4> QED
        BY <1>3, <4>1
    <3> QED
      BY <1>7, <1>9, <2>2, <3>1, <3>2
  <2> QED
    BY <1>7, <2>2 DEF ScopesRight
<1>13. BlocksHaveScopes(gs, us)
  <2>1. ASSUME NEW i \in DOMAIN gs
        PROVE  /\ TopIn(gs, i) \in DOMAIN us /\ SubIn(gs, i) \in DOMAIN us[TopIn(gs, i)]
               /\ Registers(us[TopIn(gs, i)][SubIn(gs, i)], gs[i].src)
    <3>1. CASE i = n + 1
      <4>1. e + 1 \in 1..e + 1
        BY <1>5
      <4> QED
        BY <1>1, <1>4, <1>5, <1>7, <1>8, <3>1, <4>1, NothingRegistered
    <3>2. CASE i \in 1..n
      <4>1. /\ TopIn(fs, i) \in DOMAIN ts /\ SubIn(fs, i) \in DOMAIN ts[TopIn(fs, i)]
            /\ Registers(ts[TopIn(fs, i)][SubIn(fs, i)], fs[i].src)
        BY <1>1, <3>2 DEF Good, BlocksHaveScopes
      <4> QED
        BY <1>1, <1>8, <1>11, <3>2, <4>1
    <3> QED
      BY <1>1, <2>1, <3>1, <3>2
  <2> QED
    BY <2>1 DEF BlocksHaveScopes
<1>14. ScopesHaveBlocks(gs, us)
  <2>1. ASSUME NEW t \in DOMAIN us, NEW k \in DOMAIN us[t]
        PROVE  \E i \in DOMAIN gs : t = TopIn(gs, i) /\ k = SubIn(gs, i)
    <3>1. CASE t = b /\ k = e + 1
      <4>1. n + 1 \in DOMAIN gs
        BY <1>1
      <4> QED
        BY <1>8, <3>1, <4>1
    <3>2. CASE ~(t = b /\ k = e + 1)
      <4>1. t \in DOMAIN ts /\ k \in DOMAIN ts[t]
        BY <1>4, <1>5, <1>7, <1>9, <1>10, <2>1, <3>2
      <4>2. PICK i \in DOMAIN fs : t = TopIn(fs, i) /\ k = SubIn(fs, i)
        BY <4>1 DEF Good, ScopesHaveBlocks
      <4>3. i \in 1..n /\ i \in DOMAIN gs
        BY <1>1
      <4> QED
        BY <1>8, <4>2, <4>3
    <3> QED
      BY <3>1, <3>2
  <2> QED
    BY <2>1 DEF ScopesHaveBlocks
<1>15. Good(gs, us, d)
  BY <1>1, <1>12, <1>13, <1>14 DEF Good
<1> QED
  BY <1>6, <1>15 DEF gs

-----------------------------------------------------------------------------
(***************************************************************************)
(* A block is left.                                                        *)
(***************************************************************************)
LEMMA PoppedFrames ==
  ASSUME NEW fs, NEW c, FramesRight(fs, c), fs # <<>>, fs[Len(fs)].kind # "func"
  PROVE  LET n == Len(fs)
             gs == Front(fs)
         IN  /\ FramesRight(gs, c) /\ gs # <<>> /\ DOMAIN gs = 1..n - 1 /\ Len(gs) = n - 1
             /\ n \in Nat \ {0, 1} /\ DOMAIN fs = 1..n
             /\ \A i \in 1..n - 1 : gs[i] = fs[i]
             /\ fs[n].at \in 0..c
             /\ \A k \in DOMAIN gs[n - 1].src : gs[n - 1].src[k].at < fs[n].at
<1> DEFINE n == Len(fs)
           gs == Front(fs)
<1>1. /\ n \in Nat \ {0} /\ DOMAIN fs = 1..n /\ IsSeq(gs) /\ Len(gs) = n - 1 /\ DOMAIN gs = 1..n - 1
      /\ \A i \in 1..n - 1 : gs[i] = fs[i]
  <2>1. IsSeq(fs)
    BY DEF FramesRight
  <2>2. n \in Nat \ {0} /\ DOMAIN fs = 1..n /\ IsSeq(gs) /\ Len(gs) = n - 1 /\ DOMAIN gs = 1..n - 1
    BY <2>1, Fronting
  <2>3. \A i \in 1..n - 1 : gs[i] = fs[i]
    BY <2>1, Fronting
  <2> QED
    BY <2>2, <2>3
<1>2. n # 1 /\ fs[1].kind = "func"
  BY DEF FramesRight
<1> HIDE DEF n, gs
<1>3. n - 1 \in 1..n - 1 /\ 1 \in 1..n - 1 /\ gs # <<>>
  BY <1>1, <1>2, EmptyRight
<1>4. ASSUME NEW i \in DOMAIN gs
      PROVE  /\ IsFrame(gs[i]) /\ gs[i].at \in 0..c
             /\ \A k \in DOMAIN gs[i].src :
                  /\ gs[i].src[k].at \in 0..c
                  /\ gs[i].src[k].at < fs[i + 1].at
  <2>1. i \in DOMAIN fs /\ gs[i] = fs[i] /\ i < n
    BY <1>1, <1>4
  <2> QED
    BY <2>1 DEF FramesRight, n
<1>5. \A i \in DOMAIN gs : i < Len(gs) => gs[i + 1] = fs[i + 1]
  BY <1>1
<1>6. FramesRight(gs, c)
  BY <1>1, <1>2, <1>3, <1>4, <1>5 DEF FramesRight
<1>7. fs[n].at \in 0..c
  BY <1>1 DEF FramesRight
<1>8. \A k \in DOMAIN gs[n - 1].src : gs[n - 1].src[k].at < fs[n].at
  <2>1. (n - 1) + 1 = n
    BY <1>1
  <2> QED
    BY <1>1, <1>3, <1>4, <2>1
<1> QED
  BY <1>1, <1>2, <1>3, <1>6, <1>7, <1>8 DEF n, gs

\* The scopes that are left belong to the blocks that are left, if those of the
\* others have not been touched.
LEMMA Popped ==
  ASSUME NEW fs, NEW ts, NEW c, Good(fs, ts, c), fs # <<>>, fs[Len(fs)].kind # "func",
         NEW us, ScopesRight(us),
         \A t \in DOMAIN us : /\ t \in DOMAIN ts
                              /\ \A k \in DOMAIN us[t] : k \in DOMAIN ts[t] /\ us[t][k] = ts[t][k],
         \A t \in DOMAIN ts : \A k \in DOMAIN ts[t] :
           \/ t = TopIn(fs, Len(fs)) /\ k = SubIn(fs, Len(fs))
           \/ t \in DOMAIN us /\ k \in DOMAIN us[t],
         \A t \in DOMAIN us : \A k \in DOMAIN us[t] :
           ~(t = TopIn(fs, Len(fs)) /\ k = SubIn(fs, Len(fs)))
  PROVE  Good(Front(fs), us, c)
<1> DEFINE n == Len(fs)
           gs == Front(fs)
<1>1. /\ FramesRight(gs, c) /\ gs # <<>> /\ DOMAIN gs = 1..n - 1
      /\ n \in Nat \ {0, 1} /\ DOMAIN fs = 1..n
      /\ \A i \in 1..n - 1 : gs[i] = fs[i]
  <2>1. FramesRight(fs, c)
    BY DEF Good
  <2> QED
    BY <2>1, PoppedFrames
<1>2. \A i \in 1..n - 1 : \/ TopIn(fs, i) # TopIn(fs, n)
                          \/ SubIn(fs, i) # SubIn(fs, n)
  <2>1. ASSUME NEW i \in 1..n - 1
        PROVE  TopIn(fs, i) = TopIn(fs, n) => SubIn(fs, i) < SubIn(fs, n)
    <3>1. i \in Nat \ {0} /\ i < n /\ fs[1].kind = "func"
      BY <1>1 DEF Good, FramesRight
    <3> QED
      BY <1>1, <3>1, PositionsGrow
  <2>2. \A i \in 1..n : SubIn(fs, i) \in Nat
    <3>1. fs[1].kind = "func" /\ \A i \in 1..n : i \in Nat \ {0}
      BY <1>1 DEF Good, FramesRight
    <3> QED
      BY <3>1, Position
  <2>3. \A i \in 1..n - 1 : i \in 1..n
    BY <1>1
  <2>4. ASSUME NEW i \in 1..n - 1, SubIn(fs, i) < SubIn(fs, n)
        PROVE  SubIn(fs, i) # SubIn(fs, n)
    BY <2>2, <2>3, <2>4
  <2> QED
    BY <2>1, <2>4
<1>3. \A i \in 1..n - 1 : TopIn(gs, i) = TopIn(fs, i) /\ SubIn(gs, i) = SubIn(fs, i)
  <2>1. ASSUME NEW i \in 1..n - 1
        PROVE  TopIn(gs, i) = TopIn(fs, i) /\ SubIn(gs, i) = SubIn(fs, i)
    <3>1. i \in Nat /\ \A j \in 1..i : gs[j].kind = fs[j].kind
      BY <1>1
    <3> QED
      BY <3>1, SamePosition
  <2> QED
    BY <2>1
<1> HIDE DEF n, gs
<1>4. BlocksHaveScopes(gs, us)
  <2>1. ASSUME NEW i \in DOMAIN gs
        PROVE  /\ TopIn(gs, i) \in DOMAIN us /\ SubIn(gs, i) \in DOMAIN us[TopIn(gs, i)]
               /\ Registers(us[TopIn(gs, i)][SubIn(gs, i)], gs[i].src)
    <3>1. i \in 1..n - 1 /\ i \in DOMAIN fs /\ gs[i] = fs[i]
      BY <1>1, <2>1
    <3>2. /\ TopIn(fs, i) \in DOMAIN ts /\ SubIn(fs, i) \in DOMAIN ts[TopIn(fs, i)]
          /\ Registers(ts[TopIn(fs, i)][SubIn(fs, i)], fs[i].src)
      BY <3>1 DEF Good, BlocksHaveScopes
    <3>3. TopIn(fs, i) \in DOMAIN us /\ SubIn(fs, i) \in DOMAIN us[TopIn(fs, i)]
      BY <1>2, <3>1, <3>2 DEF n
    <3>4. us[TopIn(fs, i)][SubIn(fs, i)] = ts[TopIn(fs, i)][SubIn(fs, i)]
      BY <3>3
    <3> QED
      BY <1>3, <3>1, <3>2, <3>3, <3>4
  <2> QED
    BY <2>1 DEF BlocksHaveScopes
<1>5. ScopesHaveBlocks(gs, us)
  <2>1. ASSUME NEW t \in DOMAIN us, NEW k \in DOMAIN us[t]
        PROVE  \E i \in DOMAIN gs : t = TopIn(gs, i) /\ k = SubIn(gs, i)
    <3>1. t \in DOMAIN ts /\ k \in DOMAIN ts[t]
      BY <2>1
    <3>2. PICK i \in DOMAIN fs : t = TopIn(fs, i) /\ k = SubIn(fs, i)
      BY <3>1 DEF Good, ScopesHaveBlocks
    <3>3. i # n
      BY <2>1, <3>2 DEF n
    <3>4. i \in 1..n - 1 /\ i \in DOMAIN gs
      BY <1>1, <3>3
    <3> QED
      BY <1>3, <3>2, <3>4
  <2> QED
    BY <2>1 DEF ScopesHaveBlocks
<1> QED
  BY <1>1, <1>4, <1>5 DEF Good, gs

LEMMA PopTop ==
  ASSUME NEW fs, NEW ts, NEW c, Good(fs, ts, c), fs # <<>>,
         fs[Len(fs)].kind # "func", fs[Len(fs)].kind # "cond"
  PROVE  Good(Front(fs), Front(ts), c)
<1> DEFINE n == Len(fs)
           us == Front(ts)
           b == Len(ts)
<1>1. n \in Nat \ {0, 1} /\ fs[1].kind = "func"
  <2>1. FramesRight(fs, c)
    BY DEF Good
  <2> QED
    BY <2>1, PoppedFrames DEF FramesRight
<1>2. /\ ts # <<>> /\ b = TopIn(fs, n) /\ Last(ts) = ts[b] /\ IsSeq(Last(ts))
      /\ Len(Last(ts)) = SubIn(fs, n)
  BY Innermost
<1>3. SubIn(fs, n) = 1
  <2>1. n - 1 \in Nat \ {0} /\ (n - 1) + 1 = n
    BY <1>1
  <2> HIDE DEF n
  <2>2. fs[(n - 1) + 1].kind # "cond"
    BY <2>1 DEF n
  <2>3. SubIn(fs, (n - 1) + 1) = 1
    BY <1>1, <2>1, <2>2, NextPosition
  <2> QED
    BY <2>1, <2>3
<1>4. IsSeq(ts) /\ \A t \in DOMAIN ts : /\ IsSeq(ts[t]) /\ ts[t] # <<>>
                                        /\ \A k \in DOMAIN ts[t] : IsSeq(ts[t][k])
  BY DEF Good, ScopesRight
<1>5. /\ IsSeq(us) /\ DOMAIN us = 1..b - 1 /\ b \in Nat \ {0} /\ DOMAIN ts = 1..b
      /\ \A t \in 1..b - 1 : us[t] = ts[t]
  <2>1. IsSeq(us) /\ DOMAIN us = 1..b - 1 /\ b \in Nat \ {0} /\ DOMAIN ts = 1..b
    BY <1>2, <1>4, Fronting
  <2>2. \A t \in 1..b - 1 : us[t] = ts[t]
    BY <1>2, <1>4, Fronting
  <2> QED
    BY <2>1, <2>2
<1>6. DOMAIN ts[b] = 1..1
  <2>1. DOMAIN Last(ts) = 1..Len(Last(ts))
    <3>1. Last(ts) \in Seq(Range(Last(ts)))
      BY <1>2 DEF IsSeq
    <3> QED
      BY <3>1
  <2> QED
    BY <1>2, <1>3, <2>1
<1> HIDE DEF n, us, b
<1>7. ScopesRight(us)
  <2>1. \A t \in DOMAIN us : t \in DOMAIN ts /\ us[t] = ts[t]
    BY <1>5
  <2> QED
    BY <1>4, <1>5, <2>1 DEF ScopesRight
<1>8. \A t \in DOMAIN us : t \in DOMAIN ts /\ us[t] = ts[t] /\ t # TopIn(fs, n)
  BY <1>2, <1>5
<1>9. \A t \in DOMAIN ts : \A k \in DOMAIN ts[t] :
        \/ t = TopIn(fs, n) /\ k = SubIn(fs, n)
        \/ t \in DOMAIN us /\ k \in DOMAIN us[t]
  <2>1. ASSUME NEW t \in DOMAIN ts, NEW k \in DOMAIN ts[t]
        PROVE  \/ t = TopIn(fs, n) /\ k = SubIn(fs, n)
               \/ t \in DOMAIN us /\ k \in DOMAIN us[t]
    <3>1. CASE t = b
      <4>1. k = 1
        BY <1>6, <2>1, <3>1
      <4> QED
        BY <1>2, <1>3, <3>1, <4>1
    <3>2. CASE t # b
      <4>1. t \in 1..b - 1
        BY <1>5, <2>1, <3>2
      <4> QED
        BY <1>5, <2>1, <4>1
    <3> QED
      BY <3>1, <3>2
  <2> QED
    BY <2>1
<1>10. Good(Front(fs), us, c)
  BY <1>7, <1>8, <1>9, Popped DEF n
<1> QED
  BY <1>10 DEF us

LEMMA PopSub ==
  ASSUME NEW fs, NEW ts, NEW c, Good(fs, ts, c), fs # <<>>, fs[Len(fs)].kind = "cond"
  PROVE  Good(Front(fs), [ts EXCEPT ![Len(ts)] = Front(@)], c)
<1> DEFINE n == Len(fs)
           b == Len(ts)
           back == Last(ts)
           e == Len(back)
           x == Front(back)
           us == [ts EXCEPT ![b] = x]
<1>1. n \in Nat \ {0, 1} /\ fs[1].kind = "func"
  <2>1. FramesRight(fs, c)
    BY DEF Good
  <2> QED
    BY <2>1, PoppedFrames DEF FramesRight
<1>2. ts # <<>> /\ b = TopIn(fs, n) /\ e = SubIn(fs, n) /\ IsSeq(back) /\ back # <<>>
  BY Innermost
<1>3. SubIn(fs, n) - 1 \in Nat \ {0}
  <2>1. n - 1 \in Nat \ {0} /\ (n - 1) + 1 = n
    BY <1>1
  <2> HIDE DEF n
  <2>2. fs[(n - 1) + 1].kind = "cond"
    BY <2>1 DEF n
  <2>3. SubIn(fs, (n - 1) + 1) = SubIn(fs, n - 1) + 1
    BY <1>1, <2>1, <2>2, NextPosition
  <2>4. SubIn(fs, n - 1) \in Nat \ {0}
    BY <1>1, <2>1, Position
  <2> QED
    BY <2>1, <2>3, <2>4
<1>4. IsSeq(ts) /\ \A t \in DOMAIN ts : /\ IsSeq(ts[t]) /\ ts[t] # <<>>
                                        /\ \A k \in DOMAIN ts[t] : IsSeq(ts[t][k])
  BY DEF Good, ScopesRight
<1>5. b \in Nat \ {0} /\ DOMAIN ts = 1..b /\ back = ts[b] /\ b \in DOMAIN ts
  BY <1>2, <1>4, Fronting
<1> HIDE DEF back
<1>6. /\ IsSeq(x) /\ e \in Nat \ {0} /\ DOMAIN back = 1..e /\ DOMAIN x = 1..e - 1
      /\ \A k \in 1..e - 1 : x[k] = back[k]
  <2>1. IsSeq(x) /\ e \in Nat \ {0} /\ DOMAIN back = 1..e /\ DOMAIN x = 1..e - 1
    BY <1>2, Fronting
  <2>2. \A k \in 1..e - 1 : x[k] = back[k]
    BY <1>2, Fronting
  <2> QED
    BY <2>1, <2>2
<1>7. us = [ts EXCEPT ![Len(ts)] = Front(@)]
  BY <1>5
<1> HIDE DEF x
<1>8. /\ IsSeq(us) /\ DOMAIN us = 1..b /\ us[b] = x
      /\ \A t \in 1..b - 1 : us[t] = ts[t]
  <2>1. IsSeq(us) /\ DOMAIN us = 1..b /\ us[b] = x
    BY <1>2, <1>4, Changing
  <2>2. \A t \in 1..b - 1 : us[t] = ts[t]
    BY <1>2, <1>4, Changing
  <2> QED
    BY <2>1, <2>2
<1> HIDE DEF n, us, b, e
<1>9. x # <<>>
  <2>1. 1 \in DOMAIN x
    BY <1>2, <1>3, <1>6
  <2> QED
    BY <2>1, EmptyRight
<1>10. \A t \in 1..b : t = b \/ t \in 1..b - 1
  BY <1>5
<1>11. \A k \in 1..e : k = e \/ k \in 1..e - 1
  BY <1>6
<1>12. \A k \in 1..e - 1 : k \in 1..e /\ k # e
  BY <1>6
<1>13. \A t \in DOMAIN us : /\ t \in DOMAIN ts
                            /\ \A k \in DOMAIN us[t] : k \in DOMAIN ts[t] /\ us[t][k] = ts[t][k]
  BY <1>5, <1>6, <1>8, <1>10, <1>12
<1>14. \A t \in DOMAIN us : \A k \in DOMAIN us[t] : ~(t = b /\ k = e)
  BY <1>6, <1>8, <1>12
<1>15. \A t \in DOMAIN ts : \A k \in DOMAIN ts[t] :
         \/ t = b /\ k = e
         \/ t \in DOMAIN us /\ k \in DOMAIN us[t]
  <2>1. ASSUME NEW t \in DOMAIN ts, NEW k \in DOMAIN ts[t], ~(t = b /\ k = e)
        PROVE  t \in DOMAIN us /\ k \in DOMAIN us[t]
    <3>1. CASE t = b
      BY <1>5, <1>6, <1>8, <1>11, <2>1, <3>1
    <3>2. CASE t # b
      BY <1>5, <1>8, <1>10, <2>1, <3>2
    <3> QED
      BY <3>1, <3>2
  <2> QED
    BY <2>1
<1>16. ScopesRight(us)
  <2>1. ASSUME NEW t \in DOMAIN us
        PROVE  IsSeq(us[t]) /\ us[t] # <<>> /\ \A k \in DOMAIN us[t] : IsSeq(us[t][k])
    <3>1. IsSeq(us[t]) /\ us[t] # <<>>
      <4>1. t \in DOMAIN ts /\ (t = b \/ us[t] = ts[t])
        BY <1>5, <1>8, <1>10, <2>1
      <4> QED
        BY <1>4, <1>6, <1>8, <1>9, <4>1
    <3> QED
      BY <1>4, <1>13, <2>1, <3>1
  <2> QED
    BY <1>8, <2>1 DEF ScopesRight
<1>17. Good(Front(fs), us, c)
  <2>1. fs[Len(fs)].kind # "func"
    OBVIOUS
  <2> QED
    BY <1>2, <1>13, <1>14, <1>15, <1>16, <2>1, Popped DEF n
<1> QED
  BY <1>7, <1>17

-----------------------------------------------------------------------------
(***************************************************************************)
(* The steps of the pass.                                                  *)
(***************************************************************************)
IInv == count \in Nat /\ Good(frames, topScopes, count)

LEMMA InitGood == Init => IInv
<1> SUFFICES ASSUME Init PROVE IInv
  OBVIOUS
<1> DEFINE f == Frame("func", 0)
           x == << <<>> >>
<1>1. frames = <<f>> /\ topScopes = <<x>> /\ count = 0
  BY DEF Init
<1>2. f.kind = "func" /\ f.src = <<>> /\ f.at = 0 /\ IsFrame(f)
  <2>1. f.kind = "func" /\ f.src = <<>> /\ f.at = 0 /\ f.new = <<>>
    BY DEF Frame
  <2>2. f = [kind |-> f.kind, at |-> f.at, src |-> f.src, new |-> f.new]
    BY <2>1 DEF Frame
  <2> QED
    BY <2>1, <2>2, EmptyRight DEF IsFrame
<1>3. IsSeq(x) /\ x # <<>> /\ DOMAIN x = 1..1 /\ x[1] = <<>>
  <2>1. x \in Seq({ <<>> }) /\ x # <<>> /\ DOMAIN x = 1..1 /\ x[1] = <<>>
    OBVIOUS
  <2> QED
    BY <2>1, SeqIsSeq
<1> HIDE DEF f, x
<1>4. IsSeq(frames) /\ DOMAIN frames = 1..1 /\ frames[1] = f /\ Len(frames) = 1
  <2>1. <<f>> \in Seq({f}) /\ DOMAIN <<f>> = 1..1 /\ <<f>>[1] = f /\ Len(<<f>>) = 1
    OBVIOUS
  <2> QED
    BY <1>1, <2>1, SeqIsSeq
<1>5. IsSeq(topScopes) /\ DOMAIN topScopes = 1..1 /\ topScopes[1] = x
  <2>1. <<x>> \in Seq({x}) /\ DOMAIN <<x>> = 1..1 /\ <<x>>[1] = x
    OBVIOUS
  <2> QED
    BY <1>1, <2>1, SeqIsSeq
<1>6. \A i \in 1..1 : i = 1
  OBVIOUS
<1>7. 1 \in 1..1
  OBVIOUS
<1>8. FramesRight(frames, count)
  <2>1. f.at \in 0..0
    BY <1>2
  <2> QED
    BY <1>1, <1>2, <1>4, <1>6, <2>1, EmptyRight DEF FramesRight
<1>9. ScopesRight(topScopes)
  BY <1>3, <1>5, <1>6, EmptyRight DEF ScopesRight
<1>10. TopIn(frames, 1) = 1 /\ SubIn(frames, 1) = 1
  <2>1. TopsIn(frames, 1) = {1}
    BY <1>2, <1>4, <1>6 DEF TopsIn
  <2>2. Cardinality({1}) = 1
    BY FS_Singleton
  <2>3. Max({1}) = 1
    BY DEF Max
  <2> QED
    BY <2>1, <2>2, <2>3 DEF TopIn, SubIn
<1>11. BlocksHaveScopes(frames, topScopes)
  BY <1>2, <1>3, <1>4, <1>5, <1>6, <1>7, <1>10, NothingRegistered DEF BlocksHaveScopes
<1>12. ScopesHaveBlocks(frames, topScopes)
  BY <1>3, <1>4, <1>5, <1>6, <1>7, <1>10 DEF ScopesHaveBlocks
<1> QED
  BY <1>1, <1>8, <1>9, <1>11, <1>12 DEF Good, IInv

LEMMA StmtIs ==
  ASSUME NEW op, NEW at, NEW body
  PROVE  Stmt(op, at, body).op = op /\ Stmt(op, at, body).at = at
BY DEF Stmt

\* What lies in a block is older than a statement that begins now.
LEMMA Younger ==
  ASSUME IInv, frames # <<>>
  PROVE  /\ count + 1 \in Nat /\ count < count + 1
         /\ \A k \in DOMAIN frames[Len(frames)].src : frames[Len(frames)].src[k].at < count + 1
<1>1. count \in Nat /\ FramesRight(frames, count)
  BY DEF IInv, Good
<1>2. IsSeq(frames)
  BY <1>1 DEF FramesRight
<1>3. Len(frames) \in DOMAIN frames
  BY <1>2, Fronting
<1>4. \A k \in DOMAIN frames[Len(frames)].src : frames[Len(frames)].src[k].at \in 0..count
  BY <1>1, <1>3 DEF FramesRight
<1> QED
  BY <1>1, <1>4

LEMMA BlockIs ==
  ASSUME IInv, frames # <<>>
  PROVE  Block = frames[Len(frames)]
<1>1. IsSeq(frames)
  BY DEF IInv, Good, FramesRight
<1> QED
  BY <1>1, Fronting DEF Block

\* A statement that is no defer statement is appended and no scope changes.
LEMMA AddsStmt ==
  ASSUME IInv, frames # <<>>, count' = count + 1, topScopes' = topScopes,
         NEW op, op # "defer", NEW new,
         frames' = Added(frames, Stmt(op, count', <<>>), new)
  PROVE  IInv'
<1> DEFINE d == count + 1
           s == Stmt(op, d, <<>>)
<1>1. d \in Nat /\ count <= d /\ s.at \in 0..d
  <2>1. count \in Nat
    BY DEF IInv
  <2> QED
    BY <2>1, StmtIs
<1>2. ~IsDefer(s)
  BY StmtIs DEF IsDefer
<1>3. Good(frames, topScopes, count)
  BY DEF IInv
<1> HIDE DEF d, s
<1>4. Good(Added(frames, s, new), topScopes, d)
  BY <1>1, <1>2, <1>3, AddOther
<1> QED
  BY <1>1, <1>4 DEF IInv, d, s

LEMMA PlainStep ==
  ASSUME IInv, VisitPlain PROVE IInv'
<1> DEFINE s == Stmt("plain", count', <<>>)
<1>1. /\ frames # <<>> /\ count' = count + 1 /\ topScopes' = topScopes
      /\ frames' = Added(frames, s, <<s>>)
  BY DEF VisitPlain, NextStmt
<1> QED
  BY <1>1, AddsStmt

LEMMA JumpStep ==
  ASSUME IInv, NEW op \in {"break", "continue"}, VisitBreakOrContinue(op) PROVE IInv'
<1> DEFINE s == Stmt(op, count', <<>>)
<1>1. /\ frames # <<>> /\ count' = count + 1 /\ topScopes' = topScopes
      /\ frames' = Added(frames, s, Append(OnBlockExit, s))
  BY DEF VisitBreakOrContinue, NextStmt
<1> QED
  BY <1>1, AddsStmt

LEMMA RetStep ==
  ASSUME IInv, NEW op \in {"ret", "retexpr"}, VisitRet(op) PROVE IInv'
<1>1. /\ frames # <<>> /\ count' = count + 1 /\ topScopes' = topScopes
      /\ \E new : frames' = Added(frames, Stmt(op, count', <<>>), new)
  BY DEF VisitRet, NextStmt
<1> QED
  BY <1>1, AddsStmt

LEMMA EntersTop ==
  ASSUME IInv, frames # <<>>, count' = count + 1, AddTopScope, NEW kind, kind # "cond",
         frames' = Append(frames, Frame(kind, count'))
  PROVE  IInv'
<1> DEFINE d == count + 1
<1>1. d \in Nat /\ count < d
  BY Younger
<1>2. Good(frames, topScopes, count)
  BY DEF IInv
<1> HIDE DEF d
<1>3. Good(Append(frames, Frame(kind, d)), Append(topScopes, << <<>> >>), d)
  BY <1>1, <1>2, PushTop
<1> QED
  BY <1>1, <1>3 DEF IInv, AddTopScope, d

LEMMA LoopStep ==
  ASSUME IInv, VisitLoop PROVE IInv'
BY EntersTop DEF VisitLoop, Opens, NextStmt

LEMMA DeferStep ==
  ASSUME IInv, VisitDefer PROVE IInv'
BY EntersTop DEF VisitDefer, Opens, NextStmt

LEMMA CondStep ==
  ASSUME IInv, VisitCond PROVE IInv'
<1> DEFINE d == count + 1
<1>1. frames # <<>> /\ count' = d /\ frames' = Append(frames, Frame("cond", d))
  BY DEF VisitCond, Opens, NextStmt
<1>2. topScopes' = [topScopes EXCEPT ![Len(topScopes)] = Append(@, <<>>)]
  BY DEF VisitCond, AddSubScope
<1>3. d \in Nat /\ count < d
  BY <1>1, Younger
<1>4. Good(frames, topScopes, count)
  BY DEF IInv
<1> HIDE DEF d
<1>5. Good(Append(frames, Frame("cond", d)), [topScopes EXCEPT ![Len(topScopes)] = Append(@, <<>>)], d)
  BY <1>1, <1>3, <1>4, PushSub
<1> QED
  BY <1>1, <1>2, <1>3, <1>5 DEF IInv

LEMMA NestedDeferStep ==
  ASSUME IInv, VisitNestedDefer PROVE IInv'
<1> DEFINE d == count + 1
           s == Stmt("defer", d, <<>>)
<1>1. /\ frames # <<>> /\ count' = d /\ frames' = Added(frames, s, <<s>>)
      /\ topScopes' = Registered(topScopes, s)
  BY DEF VisitNestedDefer, NextStmt
<1>2. d \in Nat /\ count <= d /\ s.at = d /\ s.at \in 0..d /\ IsDefer(s)
  <2>1. count \in Nat
    BY DEF IInv
  <2>2. s.at = d /\ s.op = "defer"
    BY StmtIs
  <2> QED
    BY <2>1, <2>2 DEF IsDefer
<1>3. \A k \in DOMAIN frames[Len(frames)].src : frames[Len(frames)].src[k].at < s.at
  BY <1>1, <1>2, Younger
<1>4. Good(frames, topScopes, count)
  BY DEF IInv
<1> HIDE DEF d, s
<1>5. Good(Added(frames, s, <<s>>), Registered(topScopes, s), d)
  BY <1>1, <1>2, <1>3, <1>4, AddDefer
<1> QED
  BY <1>1, <1>2, <1>5 DEF IInv

\* The statement of a block that is left goes to the block around it.
LEMMA Around ==
  ASSUME IInv, frames # <<>>, Block.kind # "func"
  PROVE  LET gs == Front(frames)
         IN  /\ gs # <<>> /\ Block.at \in 0..count /\ count \in Nat /\ count <= count
             /\ \A k \in DOMAIN gs[Len(gs)].src : gs[Len(gs)].src[k].at < Block.at
             /\ Good(frames, topScopes, count)
<1>1. Block = frames[Len(frames)]
  BY BlockIs
<1>2. FramesRight(frames, count) /\ count \in Nat /\ Good(frames, topScopes, count)
  BY DEF IInv, Good
<1>3. /\ Front(frames) # <<>> /\ Len(Front(frames)) = Len(frames) - 1
      /\ frames[Len(frames)].at \in 0..count
      /\ \A k \in DOMAIN Front(frames)[Len(frames) - 1].src :
           Front(frames)[Len(frames) - 1].src[k].at < frames[Len(frames)].at
  BY <1>1, <1>2, PoppedFrames
<1> QED
  BY <1>1, <1>2, <1>3

LEMMA LeaveLoopStep ==
  ASSUME IInv, LeaveLoop PROVE IInv'
<1> DEFINE s == Stmt("loop", Block.at, Block.src)
           new == <<Stmt("loop", Block.at, Rewritten)>>
           gs == Front(frames)
<1>1. /\ frames # <<>> /\ Block.kind = "loop" /\ count' = count
      /\ frames' = Added(gs, s, new) /\ topScopes' = Front(topScopes)
  BY DEF LeaveLoop, Leave, Return, PopTopScope
<1>2. /\ gs # <<>> /\ Block.at \in 0..count /\ count \in Nat /\ count <= count
      /\ Good(frames, topScopes, count)
  BY <1>1, Around
<1>3. s.at \in 0..count /\ ~IsDefer(s)
  BY <1>2, StmtIs DEF IsDefer
<1>4. Good(gs, Front(topScopes), count)
  BY <1>1, <1>2, BlockIs, PopTop
<1> HIDE DEF s, new, gs
<1>5. Good(Added(gs, s, new), Front(topScopes), count)
  BY <1>2, <1>3, <1>4, AddOther
<1> QED
  BY <1>1, <1>2, <1>5 DEF IInv

LEMMA LeaveCondStep ==
  ASSUME IInv, LeaveCond PROVE IInv'
<1> DEFINE s == Stmt("cond", Block.at, Block.src)
           new == <<Stmt("cond", Block.at, Rewritten)>>
           gs == Front(frames)
           us == [topScopes EXCEPT ![Len(topScopes)] = Front(@)]
<1>1. /\ frames # <<>> /\ Block.kind = "cond" /\ count' = count
      /\ frames' = Added(gs, s, new) /\ topScopes' = us
  BY DEF LeaveCond, Leave, Return, PopSubScope
<1>2. /\ gs # <<>> /\ Block.at \in 0..count /\ count \in Nat /\ count <= count
      /\ Good(frames, topScopes, count)
  BY <1>1, Around
<1>3. s.at \in 0..count /\ ~IsDefer(s)
  BY <1>2, StmtIs DEF IsDefer
<1>4. Good(gs, us, count)
  BY <1>1, <1>2, BlockIs, PopSub
<1> HIDE DEF s, new, gs, us
<1>5. Good(Added(gs, s, new), us, count)
  BY <1>2, <1>3, <1>4, AddOther
<1> QED
  BY <1>1, <1>2, <1>5 DEF IInv

LEMMA LeaveDeferStep ==
  ASSUME IInv, LeaveDefer PROVE IInv'
<1> DEFINE s == Stmt("defer", Block.at, Block.src)
           r == Stmt("defer", Block.at, Rewritten)
           gs == Front(frames)
           us == Front(topScopes)
<1>1. /\ frames # <<>> /\ Block.kind = "defer" /\ count' = count
      /\ frames' = Added(gs, s, <<r>>) /\ topScopes' = Registered(us, r)
  BY DEF LeaveDefer, Leave, Return, PopTopScope
<1>2. /\ gs # <<>> /\ Block.at \in 0..count /\ count \in Nat /\ count <= count
      /\ Good(frames, topScopes, count)
      /\ \A k \in DOMAIN gs[Len(gs)].src : gs[Len(gs)].src[k].at < Block.at
  BY <1>1, Around
<1>3. /\ s.at = Block.at /\ IsDefer(s) /\ r.at = Block.at /\ IsDefer(r)
  BY StmtIs DEF IsDefer
<1>4. Good(gs, us, count)
  BY <1>1, <1>2, BlockIs, PopTop
<1> HIDE DEF s, r, gs, us
<1>5. Good(Added(gs, s, <<r>>), Registered(us, r), count)
  BY <1>2, <1>3, <1>4, AddDefer
<1> QED
  BY <1>1, <1>2, <1>5 DEF IInv

LEMMA LeaveFuncStep ==
  ASSUME IInv, LeaveFunc PROVE IInv'
<1>1. frames' = <<>> /\ topScopes' = <<>> /\ count' = count /\ count \in Nat
  BY DEF LeaveFunc, Leave, IInv
<1>2. Good(<<>>, <<>>, count)
  BY <1>1, EmptyRight DEF Good, FramesRight, ScopesRight, BlocksHaveScopes, ScopesHaveBlocks
<1> QED
  BY <1>1, <1>2 DEF IInv

LEMMA NextStep == IInv /\ [Next]_vars => IInv'
<1> SUFFICES ASSUME IInv, [Next]_vars PROVE IInv'
  OBVIOUS
<1>1. CASE UNCHANGED vars
  BY <1>1 DEF IInv, vars
<1>2. CASE Next
  BY <1>2, PlainStep, JumpStep, RetStep, LoopStep, CondStep, DeferStep, NestedDeferStep,
     LeaveLoopStep, LeaveCondStep, LeaveDeferStep, LeaveFuncStep DEF Next
<1> QED
  BY <1>1, <1>2

\* For functions of any size and nesting, with exits and further defer statements
\* anywhere: at every moment replace_defer has a scope for each block it is in, with
\* the deferred blocks registered there so far in their order, and no others.  So
\* what it copies in front of an exit is what is pending.
THEOREM ScopesMirror == Spec => []ScopesMirrorBlocks
<1>1. IInv => ScopesMirrorBlocks
  BY MirrorsIfGood DEF IInv
<1> QED
  BY <1>1, InitGood, NextStep, PTL DEF Spec
=============================================================================
