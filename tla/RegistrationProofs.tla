------------------------- MODULE RegistrationProofs -------------------------
(***************************************************************************)
(* Proofs about Registration, for all names, declarations and imports: the *)
(* types that hold themselves are found, the names of an accepted file are *)
(* in scope, and the members of its unions have tags that tell them apart. *)
(***************************************************************************)
EXTENDS Registration, FiniteSetTheorems, SequenceTheorems, TLAPS

-----------------------------------------------------------------------------
(***************************************************************************)
(* Tables and their entries.                                               *)
(***************************************************************************)
IsEntry(e) ==
  e = [params |-> e.params, field |-> e.field, method |-> e.method, refEnum |-> e.refEnum,
       tags |-> e.tags]

LEMMA NewEntry ==
  ASSUME NEW params, NEW refEnum
  PROVE  LET e == Entry(params, refEnum)
         IN  /\ IsEntry(e) /\ e.params = params /\ e.refEnum = refEnum
             /\ e.field = NoEntries /\ e.method = NoEntries /\ e.tags = NoEntries
             /\ DOMAIN NoEntries = {}
  BY DEF Entry, IsEntry, NoEntries

LEMMA FieldsPut ==
  ASSUME NEW e, IsEntry(e), NEW fields, NEW gs
  PROVE  LET w == WithFields(e, fields, gs)
         IN  /\ IsEntry(w) /\ w.params = e.params /\ w.method = e.method
             /\ w.refEnum = e.refEnum /\ w.tags = e.tags
             /\ w.field = Loaded(e.field, fields, Kept(fields, gs))
<1> DEFINE loaded == Loaded(e.field, fields, Kept(fields, gs))
<1>1. WithFields(e, fields, gs) = [e EXCEPT !.field = loaded]
  BY DEF WithFields
<1> HIDE DEF loaded
<1> QED  BY <1>1 DEF IsEntry, loaded

LEMMA TagsPut ==
  ASSUME NEW e, IsEntry(e), NEW d
  PROVE  LET w == WithTags(e, d)
         IN  /\ IsEntry(w) /\ w.params = e.params /\ w.method = e.method
             /\ w.refEnum = e.refEnum /\ w.field = e.field
             /\ DOMAIN w.tags = DOMAIN e.tags \cup DOMAIN Tags(d, e.field)
             /\ \A m \in DOMAIN e.tags : w.tags[m] = e.tags[m]
             /\ \A m \in DOMAIN Tags(d, e.field) \ DOMAIN e.tags :
                  w.tags[m] = Tags(d, e.field)[m]
<1> DEFINE new == Tags(d, e.field)
           tags == [m \in DOMAIN e.tags \cup DOMAIN new |->
                      IF m \in DOMAIN e.tags THEN e.tags[m] ELSE new[m]]
<1>1. WithTags(e, d) = [e EXCEPT !.tags = tags]
  BY DEF WithTags
<1>2. /\ DOMAIN tags = DOMAIN e.tags \cup DOMAIN new
      /\ \A m \in DOMAIN e.tags : tags[m] = e.tags[m]
      /\ \A m \in DOMAIN new \ DOMAIN e.tags : tags[m] = new[m]
  OBVIOUS
<1> HIDE DEF tags, new
<1>3. /\ IsEntry([e EXCEPT !.tags = tags])
      /\ [e EXCEPT !.tags = tags].params = e.params
      /\ [e EXCEPT !.tags = tags].method = e.method
      /\ [e EXCEPT !.tags = tags].refEnum = e.refEnum
      /\ [e EXCEPT !.tags = tags].field = e.field
      /\ [e EXCEPT !.tags = tags].tags = tags
  BY DEF IsEntry
<1>4. new = Tags(d, e.field)
  BY DEF new
<1> QED  BY <1>1, <1>2, <1>3, <1>4

LEMMA MethodsPut ==
  ASSUME NEW name, NEW e, IsEntry(e), NEW methods
  PROVE  LET w == WithMethods(name, e, methods)
             new == Registered(e, methods)
         IN  /\ IsEntry(w) /\ w.params = e.params /\ w.field = e.field
             /\ w.refEnum = e.refEnum /\ w.tags = e.tags
             /\ \A k \in DOMAIN w.method :
                  \/ k \in DOMAIN e.method /\ w.method[k] = e.method[k]
                  \/ \E i \in new : w.method[k] = MethodNames(name, e, methods[i])
<1> DEFINE new == Registered(e, methods)
           names(k) == IF k \in DOMAIN e.method THEN e.method[k]
                       ELSE MethodNames(name, e, methods[CHOOSE i \in new : Key(methods[i]) = k])
           table == [k \in DOMAIN e.method \cup {Key(methods[i]) : i \in new} |-> names(k)]
<1>1. WithMethods(name, e, methods) = [e EXCEPT !.method = table]
  BY DEF WithMethods
<1>2. ASSUME NEW k \in DOMAIN table
      PROVE  \/ k \in DOMAIN e.method /\ table[k] = e.method[k]
             \/ \E i \in new : table[k] = MethodNames(name, e, methods[i])
  <2>1. CASE k \in DOMAIN e.method
    BY <2>1
  <2>2. CASE k \notin DOMAIN e.method
    <3>1. \E i \in new : Key(methods[i]) = k
      BY <2>2
    <3> DEFINE i == CHOOSE i \in new : Key(methods[i]) = k
    <3>2. i \in new
      BY <3>1
    <3>3. table[k] = MethodNames(name, e, methods[i])
      BY <2>2
    <3> QED  BY <3>2, <3>3
  <2> QED  BY <2>1, <2>2
<1> HIDE DEF table, new
<1>3. /\ IsEntry([e EXCEPT !.method = table])
      /\ [e EXCEPT !.method = table].params = e.params
      /\ [e EXCEPT !.method = table].field = e.field
      /\ [e EXCEPT !.method = table].refEnum = e.refEnum
      /\ [e EXCEPT !.method = table].tags = e.tags
      /\ [e EXCEPT !.method = table].method = table
  BY DEF IsEntry
<1> QED  BY <1>1, <1>2, <1>3 DEF new

(* A list the parser made. *)
LEMMA ListFacts ==
  ASSUME NEW list, Len(list) \in Nat, list = [i \in 1..Len(list) |-> list[i]]
  PROVE  /\ DOMAIN list = 1..Len(list) /\ IsFiniteSet(DOMAIN list) /\ DOMAIN list \subseteq Int
         /\ list # << >> => DOMAIN list # {}
<1>1. DOMAIN list = 1..Len(list)
  OBVIOUS
<1>2. IsFiniteSet(1..Len(list)) /\ 1..Len(list) \subseteq Int
  BY FS_Interval
<1>3. ASSUME DOMAIN list = {}
      PROVE  list = << >>
  <2>1. Len(list) = 0
    BY <1>1, <1>3
  <2> QED  BY <2>1
<1> QED  BY <1>1, <1>2, <1>3

LEMMA OneOfLabels ==
  ASSUME NEW list, NEW some, NEW l
  PROVE  l \in Labels(list, some) <=> \E i \in some : list[i][1] = l
  BY DEF Labels

(* What a table holds after some entries of a list came: what it held, *)
LEMMA LoadedKeeps ==
  ASSUME NEW table, NEW list, NEW some
  PROVE  /\ DOMAIN Loaded(table, list, some) = DOMAIN table \cup Labels(list, some)
         /\ \A m \in DOMAIN table : Loaded(table, list, some)[m] = table[m]
  BY DEF Loaded

(* and the values of those entries, when no label came twice. *)
Fresh(table, list, some) == some \in SUBSET Int /\ ~Again(table, list, some)

LEMMA FreshFirst ==
  ASSUME NEW table, NEW list, NEW some, Fresh(table, list, some), NEW i \in some
  PROVE  First(list, some, list[i][1]) = i
<1>1. \A j \in some : list[j][1] = list[i][1] => j = i
  <2> SUFFICES ASSUME NEW j \in some, list[j][1] = list[i][1], j # i
               PROVE  FALSE
    OBVIOUS
  <2>1. i \in Int /\ j \in Int
    BY DEF Fresh
  <2>2. j < i \/ i < j
    BY <2>1
  <2> QED  BY <2>2 DEF Fresh, Again
<1>2. i \in Int
  BY DEF Fresh
<1>3. i \in some /\ list[i][1] = list[i][1] /\ \A j \in some : list[j][1] = list[i][1] => i <= j
  BY <1>1, <1>2
<1> QED  BY <1>1, <1>3 DEF First

LEMMA FreshEntry ==
  ASSUME NEW table, NEW list, NEW some, Fresh(table, list, some), NEW i \in some
  PROVE  Loaded(table, list, some)[list[i][1]] =
           [value |-> list[i][2],
            place |-> Cardinality(DOMAIN table \cup Before(list, some, list[i][1]))]
<1>1. PICK l : l = list[i][1]
  OBVIOUS
<1>2. l \in Labels(list, some)
  BY <1>1 DEF Labels
<1>3. l \notin DOMAIN table
  BY <1>1 DEF Fresh, Again
<1>4. First(list, some, l) = i
  BY <1>1, FreshFirst
<1>5. Loaded(table, list, some)[l] =
        [value |-> list[First(list, some, l)][2],
         place |-> Cardinality(DOMAIN table \cup Before(list, some, l))]
  BY <1>2, <1>3 DEF Loaded
<1> QED  BY <1>1, <1>4, <1>5

LEMMA FreshValue ==
  ASSUME NEW table, NEW list, NEW some, Fresh(table, list, some), NEW i \in some
  PROVE  Loaded(table, list, some)[list[i][1]].value = list[i][2]
<1>1. Loaded(table, list, some)[list[i][1]] =
        [value |-> list[i][2],
         place |-> Cardinality(DOMAIN table \cup Before(list, some, list[i][1]))]
  BY FreshEntry
<1> QED  BY <1>1

LEMMA FreshPlace ==
  ASSUME NEW table, NEW list, NEW some, Fresh(table, list, some), NEW i \in some
  PROVE  Loaded(table, list, some)[list[i][1]].place =
           Cardinality(DOMAIN table \cup Before(list, some, list[i][1]))
<1>1. Loaded(table, list, some)[list[i][1]] =
        [value |-> list[i][2],
         place |-> Cardinality(DOMAIN table \cup Before(list, some, list[i][1]))]
  BY FreshEntry
<1> QED  BY <1>1

-----------------------------------------------------------------------------
(***************************************************************************)
(* The search for types that hold themselves.                              *)
(***************************************************************************)
Refs == {n \in NeedCheck : n \in UNION {NextTypes(x) : x \in Searched(n)}}

(* The search comes to the type it starts from, and on from every type it
   comes to. *)
LEMMA SearchGoesOn ==
  ASSUME NEW n \in Composite
  PROVE  n \in Searched(n) /\ \A x \in Searched(n) : NextTypes(x) \subseteq Searched(n)
<1>1. n \in Searched(n)
  BY DEF Searched
<1>2. ASSUME NEW x \in Searched(n), NEW y \in NextTypes(x)
      PROVE  y \in Searched(n)
  <2>1. y \in Composite
    BY DEF NextTypes
  <2>2. ASSUME NEW visited \in SUBSET Composite, n \in visited,
               \A z \in visited : NextTypes(z) \subseteq visited
        PROVE  y \in visited
    <3>1. x \in visited
      BY <2>2 DEF Searched
    <3> QED  BY <2>2, <3>1
  <2> QED  BY <2>1, <2>2 DEF Searched
<1> QED  BY <1>1, <1>2

(* No type is passed over and none is made up, whatever the fields are. *)
LEMMA SearchFinds ==
  OnCycle(Edges(Plain)) \subseteq Refs /\ Refs \subseteq OnCycle(Edges(Inside))
<1>1. ASSUME NEW x \in Composite
      PROVE  /\ Edges(Plain)[x] \subseteq NextTypes(x)
             /\ NextTypes(x) \subseteq Edges(Inside)[x]
  <2>0. x \in Declared /\ AllFields(x) = FieldTypes(x)
    BY DEF Declared, AllFields
  <2>1. ASSUME NEW m \in Edges(Plain)[x]
        PROVE  m \in NextTypes(x)
    <3>1. PICK t \in FieldTypes(x) : Plain(t) /\ m \in NamesIn(t)
      BY <2>0 DEF Edges
    <3>2. m = t.name /\ m \in Composite /\ ~IsPointer(t)
      BY <3>1 DEF Plain, NamesIn, ToSet, IsPointer
    <3> QED  BY <3>2 DEF NextTypes
  <2>2. ASSUME NEW m \in NextTypes(x)
        PROVE  m \in Edges(Inside)[x]
    <3>1. PICK t \in FieldTypes(x) : t.name = m /\ ~IsPointer(t) /\ m \in Composite
      BY DEF NextTypes
    <3>2. Inside(t) /\ m \in NamesIn(t) /\ m \in Declared
      BY <3>1 DEF Inside, IsPointer, NamesIn, Declared
    <3> QED  BY <2>0, <3>2 DEF Edges
  <2> QED  BY <2>1, <2>2
<1>2. ASSUME NEW n \in OnCycle(Edges(Plain))
      PROVE  n \in Refs
  <2> DEFINE S == {y \in Composite : \E x \in Searched(n) : y \in NextTypes(x)}
  <2>0. n \in Composite
    BY DEF OnCycle
  <2>1. S \in SUBSET Declared
    BY DEF Declared
  <2>2. Edges(Plain)[n] \subseteq S
    BY <1>1, <2>0, SearchGoesOn DEF NextTypes
  <2>3. ASSUME NEW x \in S
        PROVE  Edges(Plain)[x] \subseteq S
    <3>1. x \in Searched(n)
      BY <2>0, SearchGoesOn
    <3> QED  BY <1>1, <3>1 DEF NextTypes
  <2>4. n \in S
    BY <2>1, <2>2, <2>3 DEF OnCycle
  <2>5. NextTypes(n) # {}
    <3> SUFFICES ASSUME NextTypes(n) = {}
                 PROVE  FALSE
      OBVIOUS
    <3>1. Edges(Plain)[n] \subseteq {}
      BY <1>1, <2>0
    <3>2. n \in {}
      BY <3>1 DEF OnCycle
    <3> QED  BY <3>2
  <2> QED  BY <2>0, <2>4, <2>5 DEF Refs, NeedCheck
<1>3. ASSUME NEW n \in Refs
      PROVE  n \in OnCycle(Edges(Inside))
  <2>0. n \in Composite
    BY DEF Refs, NeedCheck
  <2>1. PICK x \in Searched(n) : n \in NextTypes(x)
    BY DEF Refs
  <2>2. ASSUME NEW S \in SUBSET Declared, Edges(Inside)[n] \subseteq S,
               \A y \in S : Edges(Inside)[y] \subseteq S
        PROVE  n \in S
    <3> DEFINE W == {n} \cup (S \cap Composite)
    <3>1. W \in SUBSET Composite /\ n \in W
      BY <2>0
    <3>2. ASSUME NEW y \in W
          PROVE  NextTypes(y) \subseteq W
      <4>1. NextTypes(y) \subseteq Edges(Inside)[y]
        BY <1>1, <3>1
      <4>2. Edges(Inside)[y] \subseteq S
        BY <2>2
      <4> QED  BY <4>1, <4>2 DEF NextTypes
    <3>3. x \in W
      BY <3>1, <3>2 DEF Searched
    <3>4. n \in Edges(Inside)[x]
      BY <1>1, <2>1, <3>1, <3>3
    <3> QED  BY <2>2, <3>3, <3>4
  <2> QED  BY <2>0, <2>2 DEF OnCycle
<1> QED  BY <1>2, <1>3

-----------------------------------------------------------------------------
(***************************************************************************)
(* The names an entry uses.                                                *)
(***************************************************************************)
LEMMA NamesWithin ==
  ASSUME NEW e, NEW scope
  PROVE  NamesUsed(e) \subseteq scope
         <=> /\ \A l \in DOMAIN e.field : NamesIn(e.field[l].value) \subseteq scope
             /\ \A k \in DOMAIN e.method : e.method[k] \subseteq scope
<1> DEFINE F == UNION {NamesIn(t) : t \in TypesIn(e.field)}
           M == UNION {e.method[k] : k \in DOMAIN e.method}
<1>1. NamesUsed(e) = F \cup M
  BY DEF NamesUsed
<1>2. F \subseteq scope <=> \A l \in DOMAIN e.field : NamesIn(e.field[l].value) \subseteq scope
  BY DEF TypesIn
<1>3. M \subseteq scope <=> \A k \in DOMAIN e.method : e.method[k] \subseteq scope
  OBVIOUS
<1> HIDE DEF F, M
<1> QED  BY <1>1, <1>2, <1>3

LEMMA SignatureWithin ==
  ASSUME NEW sig, NEW scope, NamesIn(sig.ret) \subseteq scope,
         \A p \in ToSet(sig.params) : NamesIn(p[2]) \subseteq scope
  PROVE  SignatureNames(sig) \subseteq scope
<1> DEFINE P == UNION {NamesIn(p[2]) : p \in ToSet(sig.params)}
<1>1. P \subseteq scope
  OBVIOUS
<1>2. SignatureNames(sig) = NamesIn(sig.ret) \cup P
  BY DEF SignatureNames
<1> HIDE DEF P
<1> QED  BY <1>1, <1>2

(* A type that is resolved without a report names what is in scope. *)
LEMMA ResolvedNames ==
  ASSUME NEW t, NEW gs, ~Reports(t, gs)
  PROVE  NamesIn(t) \subseteq Known \cup gs
  BY DEF Reports, Undefined, NamesIn

(* So does a signature, *)
LEMMA SignatureResolved ==
  ASSUME NEW sig, NEW gs, ~SignatureReports(sig, gs)
  PROVE  SignatureNames(sig) \subseteq Known \cup gs
<1>1. NamesIn(sig.ret) \subseteq Known \cup gs
  BY ResolvedNames DEF SignatureReports
<1>2. \A p \in ToSet(sig.params) : NamesIn(p[2]) \subseteq Known \cup gs
  BY ResolvedNames DEF SignatureReports
<1> QED  BY <1>1, <1>2, SignatureWithin

(* also against the symbols after the step. *)
LEMMA SignatureResolvedNext ==
  ASSUME NEW CONSTANT sig, NEW CONSTANT gs, ~(SignatureReports(sig, gs))'
  PROVE  SignatureNames(sig) \subseteq Known' \cup gs
<1>1. ASSUME NEW t, ~(Reports(t, gs))'
      PROVE  NamesIn(t) \subseteq Known' \cup gs
  BY <1>1 DEF Reports, Undefined, NamesIn
<1>2. ~(Reports(sig.ret, gs))' /\ \A p \in ToSet(sig.params) : ~(Reports(p[2], gs))'
  BY DEF SignatureReports
<1>3. NamesIn(sig.ret) \subseteq Known' \cup gs
  BY <1>1, <1>2
<1>4. \A p \in ToSet(sig.params) : NamesIn(p[2]) \subseteq Known' \cup gs
  BY <1>1, <1>2
<1> QED  BY <1>3, <1>4, SignatureWithin

LEMMA NamesOfNew ==
  ASSUME NEW params, NEW refEnum
  PROVE  NamesUsed(Entry(params, refEnum)) = {}
  BY NewEntry DEF NamesUsed, TypesIn

LEMMA NamesWithFields ==
  ASSUME NEW e, IsEntry(e), NEW fields, NEW gs, NEW scope,
         NamesUsed(e) \subseteq scope, Known \cup gs \subseteq scope, ~AnyReports(fields, gs),
         Fresh(e.field, fields, Kept(fields, gs))
  PROVE  NamesUsed(WithFields(e, fields, gs)) \subseteq scope
<1>1. PICK kept : kept = Kept(fields, gs)
  OBVIOUS
<1>2. kept \subseteq DOMAIN fields
  BY <1>1 DEF Kept
<1>3. \A i \in kept : NamesIn(fields[i][2]) \subseteq scope
  BY <1>2, ResolvedNames DEF AnyReports, ToSet
<1>4. PICK table : table = e.field
  OBVIOUS
<1>a. Fresh(table, fields, kept)
  BY <1>1, <1>4
<1> DEFINE got == Loaded(table, fields, kept)
<1>b. /\ DOMAIN got = DOMAIN table \cup Labels(fields, kept)
      /\ \A m \in DOMAIN table : got[m] = table[m]
  BY LoadedKeeps
<1>c. ASSUME NEW i \in kept
      PROVE  got[fields[i][1]].value = fields[i][2]
  BY <1>a, FreshValue
<1>d. /\ WithFields(e, fields, gs).field = got
      /\ WithFields(e, fields, gs).method = e.method
  BY <1>1, <1>4, FieldsPut
<1> HIDE DEF got
<1>6. ASSUME NEW l \in DOMAIN got
      PROVE  NamesIn(got[l].value) \subseteq scope
  <2>1. CASE l \in DOMAIN e.field
    BY <2>1, <1>4, <1>b, NamesWithin
  <2>2. CASE l \notin DOMAIN e.field
    BY <2>2, <1>3, <1>4, <1>b, <1>c, OneOfLabels
  <2> QED  BY <2>1, <2>2
<1>7. \A k \in DOMAIN e.method : e.method[k] \subseteq scope
  BY NamesWithin
<1>8. /\ \A l \in DOMAIN WithFields(e, fields, gs).field :
           NamesIn(WithFields(e, fields, gs).field[l].value) \subseteq scope
      /\ \A k \in DOMAIN WithFields(e, fields, gs).method :
           WithFields(e, fields, gs).method[k] \subseteq scope
  BY <1>d, <1>6, <1>7
<1> QED  BY <1>8, NamesWithin

LEMMA NamesWithTags ==
  ASSUME NEW e, IsEntry(e), NEW d
  PROVE  NamesUsed(WithTags(e, d)) = NamesUsed(e)
  BY TagsPut DEF NamesUsed

LEMMA NamesWithMethods ==
  ASSUME NEW name, NEW e, IsEntry(e), NEW methods, NEW gs, NEW scope,
         NamesUsed(e) \subseteq scope, Known \cup gs \subseteq scope,
         ~MethodsReport(name, e, methods, gs)
  PROVE  NamesUsed(WithMethods(name, e, methods)) \subseteq scope
<1> DEFINE w == WithMethods(name, e, methods)
<1>1. ASSUME NEW i \in Registered(e, methods)
      PROVE  MethodNames(name, e, methods[i]) \subseteq scope
  <2>1. methods[i] \in ToSet(methods)
    BY DEF Registered, ToSet
  <2>2. ~SignatureReports(SelfParams(methods[i].sig, SelfType(name, e)), gs)
    BY <2>1 DEF MethodsReport
  <2> QED  BY <2>2, SignatureResolved DEF MethodNames
<1>2. /\ w.field = e.field
      /\ \A k \in DOMAIN w.method :
           \/ k \in DOMAIN e.method /\ w.method[k] = e.method[k]
           \/ \E i \in Registered(e, methods) : w.method[k] = MethodNames(name, e, methods[i])
  BY MethodsPut
<1> HIDE DEF w
<1>3. /\ \A l \in DOMAIN e.field : NamesIn(e.field[l].value) \subseteq scope
      /\ \A k \in DOMAIN e.method : e.method[k] \subseteq scope
  BY NamesWithin
<1>4. \A k \in DOMAIN w.method : w.method[k] \subseteq scope
  BY <1>1, <1>2, <1>3
<1>5. NamesUsed(w) \subseteq scope
  BY <1>2, <1>3, <1>4, NamesWithin
<1> QED  BY <1>5 DEF w

-----------------------------------------------------------------------------
(***************************************************************************)
(* The tags of a union.                                                    *)
(***************************************************************************)
(* The labels of a table are numbered from 0. *)
Placed(field) ==
  /\ IsFiniteSet(DOMAIN field)
  /\ \A l \in DOMAIN field : field[l].place \in Nat /\ field[l].place < Cardinality(DOMAIN field)
  /\ \A l, m \in DOMAIN field : l # m => field[l].place # field[m].place

LEMMA SmallerSet ==
  ASSUME NEW S, IsFiniteSet(S), NEW T \in SUBSET S, NEW x \in S, x \notin T
  PROVE  Cardinality(T) \in Nat /\ Cardinality(S) \in Nat /\ Cardinality(T) < Cardinality(S)
<1>1. IsFiniteSet(T) /\ Cardinality(T) <= Cardinality(S)
  BY FS_Subset
<1>2. Cardinality(T) # Cardinality(S)
  BY FS_Subset
<1>3. Cardinality(T) \in Nat /\ Cardinality(S) \in Nat
  BY <1>1, FS_CardinalityType
<1> QED  BY <1>1, <1>2, <1>3

LEMMA LabelsFinite ==
  ASSUME NEW list, NEW some, IsFiniteSet(some)
  PROVE  IsFiniteSet(Labels(list, some))
<1> DEFINE f == [i \in some |-> list[i][1]]
           L == Labels(list, some)
<1>1. f \in [some -> L] /\ \A l \in L : \E i \in some : f[i] = l
  BY DEF Labels
<1> HIDE DEF f, L
<1>2. f \in Surjection(some, L)
  BY <1>1 DEF Surjection
<1>3. IsFiniteSet(L)
  BY <1>2, FS_Surjection
<1> QED  BY <1>3 DEF L

LEMMA LoadedPlaced ==
  ASSUME NEW table, NEW list, NEW some, Fresh(table, list, some), Placed(table),
         IsFiniteSet(some)
  PROVE  Placed(Loaded(table, list, some))
<1> DEFINE new == Loaded(table, list, some)
           D == DOMAIN table
           first(i) == {j \in some : j < i}
           P(i) == D \cup Labels(list, first(i))
<1>1. PICK all : all = DOMAIN new
  OBVIOUS
<1>2. /\ all = D \cup Labels(list, some)
      /\ \A m \in D : new[m] = table[m]
  <2>1. /\ DOMAIN new = D \cup Labels(list, some)
        /\ \A m \in D : new[m] = table[m]
    BY LoadedKeeps
  <2> QED  BY <1>1, <2>1
<1>3. IsFiniteSet(all)
  <2>1. IsFiniteSet(D)
    BY DEF Placed
  <2>2. IsFiniteSet(Labels(list, some))
    BY LabelsFinite
  <2> QED  BY <1>2, <2>1, <2>2, FS_Union
<1>4. ASSUME NEW i \in some
      PROVE  new[list[i][1]].place = Cardinality(P(i))
  <2>1. First(list, some, list[i][1]) = i
    BY FreshFirst
  <2>2. Before(list, some, list[i][1]) = Labels(list, first(i))
    BY <2>1 DEF Before
  <2>3. new[list[i][1]].place = Cardinality(D \cup Before(list, some, list[i][1]))
    BY FreshPlace
  <2> QED  BY <2>2, <2>3
<1>5. ASSUME NEW i \in some
      PROVE  /\ P(i) \in SUBSET all
             /\ list[i][1] \in all /\ list[i][1] \notin P(i) /\ list[i][1] \notin D
  <2>1. list[i][1] \in Labels(list, some) /\ Labels(list, first(i)) \subseteq Labels(list, some)
    BY DEF Labels
  <2>2. list[i][1] \notin D
    BY DEF Fresh, Again
  <2>3. list[i][1] \notin Labels(list, first(i))
    BY DEF Fresh, Again, Labels
  <2> QED  BY <1>2, <2>1, <2>2, <2>3
<1>6. ASSUME NEW i \in some, NEW j \in some, i < j
      PROVE  Cardinality(P(i)) < Cardinality(P(j))
  <2>1. i \in Int /\ j \in Int
    BY DEF Fresh
  <2>2. Labels(list, first(i)) \subseteq Labels(list, first(j))
    <3>1. \A k \in some : k \in Int
      BY DEF Fresh
    <3>2. ASSUME NEW k \in first(i)
          PROVE  k \in first(j)
      <4>1. k \in some /\ k \in Int /\ k < i
        BY <3>1
      <4> QED  BY <1>6, <2>1, <4>1
    <3>3. first(i) \subseteq first(j)
      BY <3>2
    <3> HIDE DEF first
    <3> QED  BY <3>3 DEF Labels
  <2>3. list[i][1] \in Labels(list, first(j))
    BY <1>6 DEF Labels
  <2>4. IsFiniteSet(P(j))
    BY <1>3, <1>5, FS_Subset
  <2> HIDE DEF first
  <2>5. P(i) \in SUBSET P(j) /\ list[i][1] \in P(j) /\ list[i][1] \notin P(i)
    BY <1>5, <2>2, <2>3
  <2> HIDE DEF P
  <2> QED  BY <2>4, <2>5, SmallerSet
<1>7. ASSUME NEW i \in some
      PROVE  /\ Cardinality(P(i)) \in Nat /\ Cardinality(P(i)) < Cardinality(all)
             /\ Cardinality(D) \in Nat /\ Cardinality(D) <= Cardinality(P(i))
  <2>1. Cardinality(P(i)) \in Nat /\ Cardinality(P(i)) < Cardinality(all)
    BY <1>3, <1>5, SmallerSet
  <2>2. IsFiniteSet(P(i))
    BY <1>3, <1>5, FS_Subset
  <2>3. D \in SUBSET P(i)
    OBVIOUS
  <2> HIDE DEF P
  <2>4. Cardinality(D) <= Cardinality(P(i))
    BY <2>2, <2>3, FS_Subset
  <2>5. Cardinality(D) \in Nat
    BY FS_CardinalityType DEF Placed
  <2> QED  BY <2>1, <2>4, <2>5
<1>8. Cardinality(D) \in Nat /\ Cardinality(all) \in Nat /\ Cardinality(D) <= Cardinality(all)
  <2>1. D \in SUBSET all
    BY <1>2
  <2>2. Cardinality(D) <= Cardinality(all)
    BY <1>3, <2>1, FS_Subset
  <2> QED  BY <1>3, <2>2, FS_CardinalityType DEF Placed
<1>9. ASSUME NEW l \in all
      PROVE  \/ l \in D /\ new[l] = table[l] /\ new[l].place \in Nat /\ new[l].place < Cardinality(D)
             \/ \E i \in some : l = list[i][1] /\ new[l].place = Cardinality(P(i)) /\ l \notin D
  <2>1. CASE l \in D
    BY <2>1, <1>2 DEF Placed
  <2>2. CASE l \notin D
    <3>1. PICK i \in some : l = list[i][1]
      BY <2>2, <1>2 DEF Labels
    <3> QED  BY <2>2, <3>1, <1>4
  <2> QED  BY <2>1, <2>2
<1> HIDE DEF new, P
<1>10. ASSUME NEW l \in all
       PROVE  new[l].place \in Nat /\ new[l].place < Cardinality(all)
  BY <1>7, <1>8, <1>9
<1>11. ASSUME NEW l \in all, NEW m \in all, l # m
       PROVE  new[l].place # new[m].place
  <2>1. CASE l \in D /\ m \in D
    BY <2>1, <1>2, <1>11 DEF Placed
  <2>2. CASE l \in D /\ m \notin D
    BY <2>2, <1>7, <1>9
  <2>3. CASE l \notin D /\ m \in D
    BY <2>3, <1>7, <1>9
  <2>4. CASE l \notin D /\ m \notin D
    <3>1. PICK i \in some : l = list[i][1] /\ new[l].place = Cardinality(P(i))
      BY <2>4, <1>9
    <3>2. PICK j \in some : m = list[j][1] /\ new[m].place = Cardinality(P(j))
      BY <2>4, <1>9
    <3>3. i \in Int /\ j \in Int /\ i # j
      BY <3>1, <3>2, <1>11 DEF Fresh
    <3>4. Cardinality(P(i)) \in Nat /\ Cardinality(P(j)) \in Nat
      BY <1>7
    <3>5. CASE i < j
      BY <3>1, <3>2, <3>4, <3>5, <1>6
    <3>6. CASE j < i
      BY <3>1, <3>2, <3>4, <3>6, <1>6
    <3> QED  BY <3>3, <3>5, <3>6
  <2> QED  BY <2>1, <2>2, <2>3, <2>4
<1>12. Placed(new)
  BY <1>1, <1>3, <1>10, <1>11 DEF Placed
<1> QED  BY <1>12 DEF new

-----------------------------------------------------------------------------
(***************************************************************************)
(* The invariant.  The tables are as the phases fill them; what is said of *)
(* the names and the tags holds as long as no error was reported, for then *)
(* each declaration has a name of its own.                                 *)
(***************************************************************************)
Decls ==
  [kind: {"struct"}, name: Names, params: ParamLists]
  \cup [kind: {"union"}, name: Names, refEnum: Names \cup DOMAIN ImportedEnums \cup {Untagged},
        fields: UnionLists]

TypesInv ==
  /\ errors \in BOOLEAN
  /\ phase \in {"enums", "symbols", "fields", "functions", "impls", "done", "stopped", "crashed"}
  /\ decls \in Seq(Decls) /\ at \in 0..Len(decls)

TablesInv ==
  /\ \A n \in DOMAIN structs : n \in Known /\ IsEntry(structs[n]) /\ structs[n].params = << >>
  /\ \A n \in DOMAIN templates : n \in Known /\ IsEntry(templates[n])
  /\ \A n \in DOMAIN unions : n \in Known /\ IsEntry(unions[n])
  /\ \A n \in Known : KindOf(n) = "enum" => n \in DOMAIN enums

PhaseInv ==
  /\ phase \in {"functions", "impls", "done"} => at = Len(decls)
  /\ phase = "done" => ~errors

(* The members of a union have their values in the enum it refers to. *)
EnumFits(refEnum, labels) ==
  refEnum = Untagged
  \/ (refEnum \in Known /\ KindOf(refEnum) = "enum" /\ labels \subseteq DOMAIN enums[refEnum])

DeclFits(d) ==
  IF d.kind = "struct"
  THEN IF d.params = NotGeneric THEN d.name \in DOMAIN structs
       ELSE d.name \in DOMAIN templates /\ templates[d.name].params = d.params
  ELSE /\ d.name \in DOMAIN unions /\ unions[d.name].refEnum = d.refEnum
       /\ EnumFits(d.refEnum, ToSet(LabelsOf(d.fields)))
DeclsFit == \A i \in DOMAIN decls : DeclFits(decls[i])

TagsOf(u) ==
  /\ Placed(u.field) /\ DOMAIN u.tags = DOMAIN u.field
  /\ EnumFits(u.refEnum, DOMAIN u.field)
  /\ \A l \in DOMAIN u.field :
       u.tags[l] = IF u.refEnum = Untagged THEN u.field[l].place ELSE enums[u.refEnum][l]
TagsFit == \A n \in DOMAIN unions : TagsOf(unions[n])

(* A union has its members, or its declaration is still to come. *)
Pending(i, n) == i > at /\ decls[i].kind = "union" /\ decls[i].name = n
UnionsFilled ==
  \A n \in DOMAIN unions : DOMAIN unions[n].field # {} \/ \E i \in DOMAIN decls : Pending(i, n)

StructNames == \A n \in DOMAIN structs : NamesUsed(structs[n]) \subseteq Known
TemplateNames ==
  \A n \in DOMAIN templates : NamesUsed(templates[n]) \subseteq Known \cup ToSet(templates[n].params)
FunctionNames ==
  \A n \in DOMAIN functions : functions[n].names \subseteq Known \cup ToSet(functions[n].params)
UnionNames == \A n \in DOMAIN unions : NamesUsed(unions[n]) \subseteq Known \cup LeftBehind

CleanInv ==
  ~errors =>
    /\ DeclsFit /\ TagsFit /\ UnionsFilled /\ generics \subseteq LeftBehind
    /\ StructNames /\ TemplateNames /\ FunctionNames /\ UnionNames

BaseInv == TypesInv /\ TablesInv /\ PhaseInv /\ CleanInv

-----------------------------------------------------------------------------
(***************************************************************************)
(* What every step leaves alone: symbols and enums that are known, and     *)
(* what of a declaration is known from its name.                           *)
(***************************************************************************)
Stays ==
  \A n \in Known : /\ n \in Known' /\ symbols'[n] = symbols[n]
                   /\ n \in DOMAIN enums => n \in DOMAIN enums' /\ enums'[n] = enums[n]
Grows ==
  /\ \A n \in DOMAIN structs : n \in DOMAIN structs'
  /\ \A n \in DOMAIN templates :
       n \in DOMAIN templates' /\ templates'[n].params = templates[n].params
  /\ \A n \in DOMAIN unions : n \in DOMAIN unions' /\ unions'[n].refEnum = unions[n].refEnum

LEMMA StaysSame ==
  ASSUME UNCHANGED <<symbols, enums>>
  PROVE  Stays /\ Known' = Known
  BY DEF Stays, Known

LEMMA StaysDeclared ==
  ASSUME NEW CONSTANT name, name \notin Known, NEW CONSTANT kind, Declare(name, kind),
         UNCHANGED enums
  PROVE  /\ Stays /\ Known' = Known \cup {name}
         /\ \A n \in Known' : \/ n \in Known /\ symbols'[n] = symbols[n]
                              \/ n = name /\ symbols'[n].kind = kind
<1>1. /\ DOMAIN symbols' = DOMAIN symbols \cup {name}
      /\ symbols'[name] = [kind |-> kind, public |-> TRUE]
      /\ \A n \in DOMAIN symbols : n # name => symbols'[n] = symbols[n]
  BY DEF Declare, Put
<1>2. symbols'[name].kind = kind
  BY <1>1
<1>3. Known' = Known \cup {name} /\ \A n \in Known : symbols'[n] = symbols[n]
  BY <1>1 DEF Known
<1>4. Stays
  BY <1>3 DEF Stays
<1> QED  BY <1>2, <1>3, <1>4

LEMMA StaysEnum ==
  ASSUME NEW CONSTANT name, name \notin Known, Declare(name, "enum"), NEW STATE members,
         enums' = Put(enums, name, members)
  PROVE  /\ Stays /\ Known' = Known \cup {name} /\ name \in DOMAIN enums'
         /\ \A n \in Known : symbols'[n] = symbols[n]
<1>1. /\ DOMAIN symbols' = DOMAIN symbols \cup {name}
      /\ \A n \in DOMAIN symbols : n # name => symbols'[n] = symbols[n]
  BY DEF Declare, Put
<1>2. /\ DOMAIN enums' = DOMAIN enums \cup {name}
      /\ \A n \in DOMAIN enums : n # name => enums'[n] = enums[n]
  BY DEF Put
<1> QED  BY <1>1, <1>2 DEF Stays, Known

LEMMA LeftStays ==
  ASSUME Grows
  PROVE  LeftBehind \subseteq LeftBehind'
  BY DEF Grows, LeftBehind

LEMMA EnumStays ==
  ASSUME TablesInv, Stays, NEW CONSTANT r, NEW CONSTANT labels, EnumFits(r, labels)
  PROVE  EnumFits(r, labels)' /\ (r # Untagged => enums'[r] = enums[r])
<1>1. CASE r = Untagged
  BY <1>1 DEF EnumFits
<1>2. CASE r # Untagged
  <2>1. r \in Known /\ KindOf(r) = "enum" /\ labels \subseteq DOMAIN enums[r] /\ r \in DOMAIN enums
    BY <1>2 DEF EnumFits, TablesInv
  <2>2. r \in Known' /\ symbols'[r] = symbols[r] /\ enums'[r] = enums[r]
    BY <2>1 DEF Stays
  <2> QED  BY <2>1, <2>2 DEF EnumFits, KindOf
<1> QED  BY <1>1, <1>2

LEMMA TagsStay ==
  ASSUME TablesInv, Stays, NEW CONSTANT u, TagsOf(u)
  PROVE  TagsOf(u)'
<1>1. EnumFits(u.refEnum, DOMAIN u.field)' /\ (u.refEnum # Untagged => enums'[u.refEnum] = enums[u.refEnum])
  BY EnumStays DEF TagsOf
<1> QED  BY <1>1 DEF TagsOf

LEMMA DeclStays ==
  ASSUME TablesInv, Stays, Grows, NEW CONSTANT d, DeclFits(d)
  PROVE  DeclFits(d)'
<1>1. CASE d.kind = "struct"
  BY <1>1 DEF DeclFits, Grows
<1>2. CASE d.kind # "struct"
  <2>1. d.name \in DOMAIN unions /\ unions[d.name].refEnum = d.refEnum
    BY <1>2 DEF DeclFits
  <2>2. d.name \in DOMAIN unions' /\ unions'[d.name].refEnum = d.refEnum
    BY <2>1 DEF Grows
  <2>3. EnumFits(d.refEnum, ToSet(LabelsOf(d.fields)))'
    BY <1>2, EnumStays DEF DeclFits
  <2> QED  BY <1>2, <2>2, <2>3 DEF DeclFits
<1> QED  BY <1>1, <1>2

LEMMA DeclsStay ==
  ASSUME TablesInv, Stays, Grows, DeclsFit, UNCHANGED decls
  PROVE  DeclsFit'
<1> SUFFICES ASSUME NEW i \in DOMAIN decls
             PROVE  DeclFits(decls[i])'
  BY DEF DeclsFit
<1>1. PICK d : d = decls[i]
  OBVIOUS
<1>2. DeclFits(d)'
  BY <1>1, DeclStays DEF DeclsFit
<1> QED  BY <1>1, <1>2

(* A table that is not touched, and one that gets an entry. *)
LEMMA StructsStay ==
  ASSUME Stays, StructNames, UNCHANGED structs
  PROVE  StructNames'
  BY DEF StructNames, Stays

LEMMA StructsPut ==
  ASSUME Stays, StructNames, NEW CONSTANT name, NEW CONSTANT e, structs' = Put(structs, name, e),
         NamesUsed(e) \subseteq Known'
  PROVE  StructNames'
<1>1. /\ DOMAIN structs' = DOMAIN structs \cup {name} /\ structs'[name] = e
      /\ \A n \in DOMAIN structs : n # name => structs'[n] = structs[n]
  BY DEF Put
<1>2. Known \subseteq Known'
  BY DEF Stays
<1> QED  BY <1>1, <1>2 DEF StructNames

LEMMA TemplatesStay ==
  ASSUME Stays, TemplateNames, UNCHANGED templates
  PROVE  TemplateNames'
<1>1. Known \subseteq Known'
  BY DEF Stays
<1> QED  BY <1>1 DEF TemplateNames

LEMMA TemplatesPut ==
  ASSUME Stays, TemplateNames, NEW CONSTANT name, NEW CONSTANT e,
         templates' = Put(templates, name, e), NamesUsed(e) \subseteq Known' \cup ToSet(e.params)
  PROVE  TemplateNames'
<1>1. /\ DOMAIN templates' = DOMAIN templates \cup {name} /\ templates'[name] = e
      /\ \A n \in DOMAIN templates : n # name => templates'[n] = templates[n]
  BY DEF Put
<1>2. Known \subseteq Known'
  BY DEF Stays
<1> QED  BY <1>1, <1>2 DEF TemplateNames

LEMMA FunctionsStay ==
  ASSUME Stays, FunctionNames, UNCHANGED functions
  PROVE  FunctionNames'
<1>1. Known \subseteq Known'
  BY DEF Stays
<1> QED  BY <1>1 DEF FunctionNames

LEMMA UnionsStay ==
  ASSUME Stays, Grows, UnionNames, UNCHANGED unions
  PROVE  UnionNames'
<1>1. Known \subseteq Known'
  BY DEF Stays
<1> QED  BY <1>1, LeftStays DEF UnionNames

LEMMA UnionsPut ==
  ASSUME Stays, Grows, UnionNames, NEW CONSTANT name, NEW CONSTANT e,
         unions' = Put(unions, name, e), NamesUsed(e) \subseteq Known' \cup LeftBehind'
  PROVE  UnionNames'
<1>1. /\ DOMAIN unions' = DOMAIN unions \cup {name} /\ unions'[name] = e
      /\ \A n \in DOMAIN unions : n # name => unions'[n] = unions[n]
  BY DEF Put
<1>2. Known \subseteq Known'
  BY DEF Stays
<1> QED  BY <1>1, <1>2, LeftStays DEF UnionNames

LEMMA TagsFitStay ==
  ASSUME TablesInv, Stays, TagsFit, UNCHANGED unions
  PROVE  TagsFit'
<1> SUFFICES ASSUME NEW n \in DOMAIN unions
             PROVE  TagsOf(unions[n])'
  BY DEF TagsFit
<1>1. PICK u : u = unions[n]
  OBVIOUS
<1>2. TagsOf(u)'
  BY <1>1, TagsStay DEF TagsFit
<1> QED  BY <1>1, <1>2

LEMMA TagsFitPut ==
  ASSUME TablesInv, Stays, TagsFit, NEW CONSTANT name, NEW CONSTANT e,
         unions' = Put(unions, name, e), TagsOf(e)'
  PROVE  TagsFit'
<1>1. /\ DOMAIN unions' = DOMAIN unions \cup {name} /\ unions'[name] = e
      /\ \A n \in DOMAIN unions : n # name => unions'[n] = unions[n]
  BY DEF Put
<1> SUFFICES ASSUME NEW n \in DOMAIN unions'
             PROVE  TagsOf(unions[n])'
  BY DEF TagsFit
<1>2. PICK u : u = unions'[n]
  OBVIOUS
<1>3. TagsOf(u)'
  <2>1. CASE n = name
    BY <1>1, <1>2, <2>1
  <2>2. CASE n # name
    BY <1>1, <1>2, <2>2, TagsStay DEF TagsFit
  <2> QED  BY <2>1, <2>2
<1> QED  BY <1>2, <1>3

-----------------------------------------------------------------------------
(***************************************************************************)
(* Every action keeps the invariant.                                       *)
(***************************************************************************)
LEMMA InitHolds ==
  Init => BaseInv
<1> SUFFICES ASSUME Init PROVE BaseInv
  OBVIOUS
<1>1. DOMAIN NoEntries = {}
  BY DEF NoEntries
<1>2. TypesInv
  <2>1. << >> \in Seq(Decls) /\ Len(<< >>) = 0
    OBVIOUS
  <2>2. decls = << >> /\ at = 0
    BY DEF Init
  <2>3. at \in 0..Len(decls) /\ decls \in Seq(Decls)
    BY <2>1, <2>2
  <2> QED  BY <2>3 DEF Init, TypesInv
<1>3. TablesInv
  BY <1>1, ImportedAssumption DEF Init, TablesInv, Known, KindOf
<1>4. PhaseInv
  BY DEF Init, PhaseInv
<1>5. DeclsFit /\ TagsFit /\ UnionsFilled /\ generics \subseteq LeftBehind
  BY <1>1 DEF Init, DeclsFit, TagsFit, UnionsFilled
<1>6. StructNames /\ TemplateNames /\ FunctionNames /\ UnionNames
  BY <1>1 DEF Init, StructNames, TemplateNames, FunctionNames, UnionNames
<1> QED  BY <1>2, <1>3, <1>4, <1>5, <1>6 DEF BaseInv, CleanInv

(* What holds of tables that are not touched. *)
LEMMA FilledStays ==
  ASSUME UnionsFilled, UNCHANGED <<unions, decls, at>>
  PROVE  UnionsFilled'
  BY DEF UnionsFilled, Pending

LEMMA GrowsSame ==
  ASSUME UNCHANGED <<structs, templates, unions>>
  PROVE  Grows
  BY DEF Grows

LEMMA RestStays ==
  ASSUME BaseInv, ~errors, Stays, UNCHANGED <<structs, templates, unions, functions, decls, at>>
  PROVE  /\ DeclsFit' /\ TagsFit' /\ UnionsFilled' /\ StructNames' /\ TemplateNames'
         /\ FunctionNames' /\ UnionNames' /\ LeftBehind' = LeftBehind
<1>1. /\ TablesInv /\ DeclsFit /\ TagsFit /\ UnionsFilled
      /\ StructNames /\ TemplateNames /\ FunctionNames /\ UnionNames
  BY DEF BaseInv, CleanInv
<1>2. Grows
  BY GrowsSame
<1>3. DeclsFit'
  BY <1>1, <1>2, DeclsStay
<1>4. TagsFit'
  BY <1>1, TagsFitStay
<1>5. UnionsFilled'
  BY <1>1, FilledStays
<1>6. StructNames' /\ TemplateNames' /\ FunctionNames'
  BY <1>1, StructsStay, TemplatesStay, FunctionsStay
<1>7. UnionNames'
  BY <1>1, <1>2, UnionsStay
<1>8. LeftBehind' = LeftBehind
  BY DEF LeftBehind
<1> QED  BY <1>3, <1>4, <1>5, <1>6, <1>7, <1>8

LEMMA EnumStep ==
  ASSUME BaseInv, NEW CONSTANT name, NEW CONSTANT members, RegistSingleEnum(name, members)
  PROVE  BaseInv'
<1>0. /\ phase = "enums"
      /\ UNCHANGED <<phase, structs, templates, unions, functions, decls, at, generics>>
  BY DEF RegistSingleEnum
<1>1. CASE name \in Known
  <2>1. errors' = TRUE /\ UNCHANGED <<symbols, enums>>
    BY <1>1 DEF RegistSingleEnum, Report, BaseInv, TypesInv
  <2>2. TypesInv'
    BY <1>0, <2>1 DEF BaseInv, TypesInv
  <2>3. TablesInv'
    BY <1>0, <2>1 DEF BaseInv, TablesInv, Known, KindOf
  <2>4. PhaseInv' /\ CleanInv'
    BY <1>0, <2>1 DEF PhaseInv, CleanInv
  <2> QED  BY <2>2, <2>3, <2>4 DEF BaseInv
<1>2. CASE name \notin Known
  <2>1. PICK m : Declare(name, "enum") /\ enums' = Put(enums, name, m)
    BY <1>2 DEF RegistSingleEnum
  <2>2. PICK bad : errors' = (errors \/ bad)
    BY <1>2 DEF RegistSingleEnum, Report
  <2>3. /\ Stays /\ Known' = Known \cup {name} /\ name \in DOMAIN enums'
        /\ \A n \in Known : symbols'[n] = symbols[n]
    BY <1>2, <2>1, StaysEnum
  <2>4. TypesInv'
    <3>1. errors' \in BOOLEAN
      BY <2>2, Zenon DEF BaseInv, TypesInv
    <3> QED  BY <1>0, <3>1 DEF BaseInv, TypesInv
  <2>5. TablesInv'
    <3>1. \A n \in Known' : KindOf(n)' = "enum" => n \in DOMAIN enums'
      BY <2>3 DEF BaseInv, TablesInv, Stays, KindOf
    <3> QED  BY <1>0, <2>3, <3>1 DEF BaseInv, TablesInv
  <2>6. PhaseInv'
    BY <1>0 DEF PhaseInv
  <2>7. ASSUME ~errors'
        PROVE  /\ DeclsFit' /\ TagsFit' /\ UnionsFilled' /\ StructNames' /\ TemplateNames'
               /\ FunctionNames' /\ UnionNames' /\ generics' \subseteq LeftBehind'
    <3>1. ~errors
      BY <2>2, <2>7, Zenon
    <3>2. generics' \subseteq LeftBehind
      BY <1>0, <3>1 DEF BaseInv, CleanInv
    <3> QED  BY <1>0, <2>3, <3>1, <3>2, RestStays
  <2> QED  BY <2>4, <2>5, <2>6, <2>7 DEF BaseInv, CleanInv
<1> QED  BY <1>1, <1>2

LEMMA StructSymbolStep ==
  ASSUME BaseInv, NEW CONSTANT name \in Names, NEW CONSTANT params \in ParamLists,
         RegistSingleStructSymbol(name, params)
  PROVE  BaseInv'
<1> DEFINE d == [kind |-> "struct", name |-> name, params |-> params]
<1>0. /\ phase = "symbols" /\ decls' = Append(decls, d)
      /\ UNCHANGED <<phase, enums, unions, functions, at, generics>>
  BY DEF RegistSingleStructSymbol
<1>1. d \in Decls
  BY DEF Decls
<1>2. /\ decls' \in Seq(Decls) /\ Len(decls') = Len(decls) + 1 /\ at' \in 0..Len(decls')
      /\ DOMAIN decls' = DOMAIN decls \cup {Len(decls) + 1}
      /\ \A i \in DOMAIN decls : decls'[i] = decls[i]
      /\ decls'[Len(decls) + 1] = d
  BY <1>0, <1>1 DEF BaseInv, TypesInv
<1> HIDE DEF d
<1>3. PhaseInv'
  BY <1>0 DEF PhaseInv
<1>4. CASE name \in Known
  <2>1. errors' = TRUE /\ UNCHANGED <<symbols, structs, templates>>
    BY <1>4 DEF RegistSingleStructSymbol, Report, BaseInv, TypesInv
  <2>2. TypesInv'
    BY <1>0, <1>2, <2>1 DEF BaseInv, TypesInv
  <2>3. TablesInv'
    BY <1>0, <2>1 DEF BaseInv, TablesInv, Known, KindOf
  <2>4. CleanInv'
    BY <2>1 DEF CleanInv
  <2> QED  BY <1>3, <2>2, <2>3, <2>4 DEF BaseInv
<1>5. CASE name \notin Known
  <2>1. Declare(name, "struct")
    BY <1>5 DEF RegistSingleStructSymbol
  <2>2. PICK bad : errors' = (errors \/ bad)
    BY <1>5 DEF RegistSingleStructSymbol, Report
  <2>3. PICK e : e = Entry(IF params = NotGeneric THEN << >> ELSE params, "")
    OBVIOUS
  <2>4. IF params = NotGeneric
        THEN structs' = Put(structs, name, e) /\ templates' = templates
        ELSE templates' = Put(templates, name, e) /\ structs' = structs
    BY <1>5, <2>3 DEF RegistSingleStructSymbol
  <2>5. /\ IsEntry(e) /\ e.params = IF params = NotGeneric THEN << >> ELSE params
        /\ NamesUsed(e) = {}
    BY <2>3, NewEntry, NamesOfNew
  <2>6. /\ Stays /\ Known' = Known \cup {name}
        /\ \A n \in Known' : \/ n \in Known /\ symbols'[n] = symbols[n]
                             \/ n = name /\ symbols'[n].kind = "struct"
    BY <1>0, <1>5, <2>1, StaysDeclared
  <2>7. TypesInv'
    <3>1. errors' \in BOOLEAN
      BY <2>2, Zenon DEF BaseInv, TypesInv
    <3> QED  BY <1>0, <1>2, <3>1 DEF BaseInv, TypesInv
  <2>8. name \notin DOMAIN structs /\ name \notin DOMAIN templates
    BY <1>5 DEF BaseInv, TablesInv
  <2>9. /\ DOMAIN structs' = DOMAIN structs \cup (IF params = NotGeneric THEN {name} ELSE {})
        /\ \A n \in DOMAIN structs : structs'[n] = structs[n]
        /\ params = NotGeneric => structs'[name] = e
        /\ DOMAIN templates' = DOMAIN templates \cup (IF params = NotGeneric THEN {} ELSE {name})
        /\ \A n \in DOMAIN templates : templates'[n] = templates[n]
        /\ params # NotGeneric => templates'[name] = e
    BY <2>4, <2>8 DEF Put
  <2>10. TablesInv'
    <3>1. \A n \in Known' : KindOf(n)' = "enum" => n \in DOMAIN enums'
      BY <1>0, <2>6 DEF BaseInv, TablesInv, KindOf
    <3>2. \A n \in DOMAIN structs' : n \in Known' /\ IsEntry(structs'[n]) /\ structs'[n].params = << >>
      BY <2>5, <2>6, <2>9 DEF BaseInv, TablesInv
    <3>3. \A n \in DOMAIN templates' : n \in Known' /\ IsEntry(templates'[n])
      BY <2>5, <2>6, <2>9 DEF BaseInv, TablesInv
    <3>4. \A n \in DOMAIN unions' : n \in Known' /\ IsEntry(unions'[n])
      BY <1>0, <2>6 DEF BaseInv, TablesInv
    <3> QED  BY <3>1, <3>2, <3>3, <3>4 DEF TablesInv
  <2>11. ASSUME ~errors'
         PROVE  /\ DeclsFit' /\ TagsFit' /\ UnionsFilled' /\ StructNames' /\ TemplateNames'
                /\ FunctionNames' /\ UnionNames' /\ generics' \subseteq LeftBehind'
    <3>0. ~errors
      BY <2>2, <2>11, Zenon
    <3>1. /\ TablesInv /\ DeclsFit /\ TagsFit /\ UnionsFilled /\ generics \subseteq LeftBehind
          /\ StructNames /\ TemplateNames /\ FunctionNames /\ UnionNames
      BY <3>0 DEF BaseInv, CleanInv
    <3>2. Grows
      BY <1>0, <2>9 DEF Grows
    <3>3. DeclsFit'
      <4>1. DeclFits(d)'
        BY <2>5, <2>9 DEF DeclFits, d
      <4>2. ASSUME NEW i \in DOMAIN decls'
            PROVE  DeclFits(decls[i])'
        <5>1. PICK c : c = decls'[i]
          OBVIOUS
        <5>2. CASE i \in DOMAIN decls
          <6>1. DeclFits(c)
            BY <1>2, <3>1, <5>1, <5>2 DEF DeclsFit
          <6>2. DeclFits(c)'
            BY <2>6, <3>1, <3>2, <6>1, DeclStays
          <6> QED  BY <5>1, <6>2
        <5>3. CASE i \notin DOMAIN decls
          BY <1>2, <4>1, <5>3
        <5> QED  BY <5>2, <5>3
      <4> QED  BY <4>2 DEF DeclsFit
    <3>4. TagsFit'
      BY <1>0, <2>6, <3>1, TagsFitStay
    <3>5. UnionsFilled'
      BY <1>0, <1>2, <3>1 DEF UnionsFilled, Pending
    <3>6. StructNames'
      <4>1. CASE params = NotGeneric
        BY <2>4, <2>5, <2>6, <3>1, <4>1, StructsPut
      <4>2. CASE params # NotGeneric
        BY <2>4, <2>6, <3>1, <4>2, StructsStay
      <4> QED  BY <4>1, <4>2
    <3>7. TemplateNames'
      <4>1. CASE params = NotGeneric
        BY <2>4, <2>6, <3>1, <4>1, TemplatesStay
      <4>2. CASE params # NotGeneric
        BY <2>4, <2>5, <2>6, <3>1, <4>2, TemplatesPut
      <4> QED  BY <4>1, <4>2
    <3>8. FunctionNames' /\ UnionNames'
      BY <1>0, <2>6, <3>1, <3>2, FunctionsStay, UnionsStay
    <3>9. generics' \subseteq LeftBehind'
      BY <1>0, <3>1, <3>2, LeftStays
    <3> QED  BY <3>3, <3>4, <3>5, <3>6, <3>7, <3>8, <3>9
  <2> QED  BY <1>3, <2>7, <2>10, <2>11 DEF BaseInv, CleanInv
<1> QED  BY <1>4, <1>5

LEMMA UnionSymbolStep ==
  ASSUME BaseInv, NEW CONSTANT name \in Names,
         NEW CONSTANT refEnum \in Names \cup DOMAIN ImportedEnums \cup {Untagged},
         NEW CONSTANT fields \in UnionLists, RegistSingleUnionSymbol(name, refEnum, fields)
  PROVE  BaseInv'
<1> DEFINE d == [kind |-> "union", name |-> name, refEnum |-> refEnum, fields |-> fields]
<1>0. /\ phase = "symbols" /\ decls' = Append(decls, d)
      /\ UNCHANGED <<phase, enums, structs, templates, functions, at, generics>>
  BY DEF RegistSingleUnionSymbol
<1>1. d \in Decls
  BY DEF Decls
<1>2. /\ decls' \in Seq(Decls) /\ Len(decls') = Len(decls) + 1 /\ at' \in 0..Len(decls')
      /\ DOMAIN decls' = DOMAIN decls \cup {Len(decls) + 1}
      /\ \A i \in DOMAIN decls : decls'[i] = decls[i]
      /\ decls'[Len(decls) + 1] = d
      /\ Len(decls) + 1 > at'
  BY <1>0, <1>1 DEF BaseInv, TypesInv
<1> HIDE DEF d
<1>3. PhaseInv'
  BY <1>0 DEF PhaseInv
<1>4. CASE name \in Known
  <2>1. errors' = TRUE /\ UNCHANGED <<symbols, unions>>
    BY <1>4 DEF RegistSingleUnionSymbol, Report, BaseInv, TypesInv
  <2>2. TypesInv'
    BY <1>0, <1>2, <2>1 DEF BaseInv, TypesInv
  <2>3. TablesInv'
    BY <1>0, <2>1 DEF BaseInv, TablesInv, Known, KindOf
  <2>4. CleanInv'
    BY <2>1 DEF CleanInv
  <2> QED  BY <1>3, <2>2, <2>3, <2>4 DEF BaseInv
<1>5. CASE name \notin Known
  <2>1. Declare(name, "union")
    BY <1>5 DEF RegistSingleUnionSymbol
  <2>2. errors' = (errors \/ RefEnumRefused(refEnum, LabelsOf(fields)))
    BY <1>5 DEF RegistSingleUnionSymbol, Report
  <2>3. PICK e : e = Entry(<< >>, refEnum)
    OBVIOUS
  <2>4. unions' = Put(unions, name, e)
    BY <1>5, <2>3 DEF RegistSingleUnionSymbol
  <2>5. /\ IsEntry(e) /\ e.refEnum = refEnum /\ NamesUsed(e) = {}
        /\ DOMAIN e.field = {} /\ DOMAIN e.tags = {}
    BY <2>3, NewEntry, NamesOfNew
  <2>6. /\ Stays /\ Known' = Known \cup {name}
        /\ \A n \in Known' : \/ n \in Known /\ symbols'[n] = symbols[n]
                             \/ n = name /\ symbols'[n].kind = "union"
    BY <1>0, <1>5, <2>1, StaysDeclared
  <2>7. TypesInv'
    <3>1. errors' \in BOOLEAN
      BY <2>2, Zenon DEF BaseInv, TypesInv
    <3> QED  BY <1>0, <1>2, <3>1 DEF BaseInv, TypesInv
  <2>8. name \notin DOMAIN unions
    BY <1>5 DEF BaseInv, TablesInv
  <2>9. /\ DOMAIN unions' = DOMAIN unions \cup {name}
        /\ \A n \in DOMAIN unions : unions'[n] = unions[n]
        /\ unions'[name] = e
    BY <2>4, <2>8 DEF Put
  <2>10. TablesInv'
    <3>1. \A n \in Known' : KindOf(n)' = "enum" => n \in DOMAIN enums'
      BY <1>0, <2>6 DEF BaseInv, TablesInv, KindOf
    <3>2. \A n \in DOMAIN structs' : n \in Known' /\ IsEntry(structs'[n]) /\ structs'[n].params = << >>
      BY <1>0, <2>6 DEF BaseInv, TablesInv
    <3>3. \A n \in DOMAIN templates' : n \in Known' /\ IsEntry(templates'[n])
      BY <1>0, <2>6 DEF BaseInv, TablesInv
    <3>4. \A n \in DOMAIN unions' : n \in Known' /\ IsEntry(unions'[n])
      BY <2>5, <2>6, <2>9 DEF BaseInv, TablesInv
    <3> QED  BY <3>1, <3>2, <3>3, <3>4 DEF TablesInv
  <2>11. ASSUME ~errors'
         PROVE  /\ DeclsFit' /\ TagsFit' /\ UnionsFilled' /\ StructNames' /\ TemplateNames'
                /\ FunctionNames' /\ UnionNames' /\ generics' \subseteq LeftBehind'
    <3>0. ~errors /\ ~RefEnumRefused(refEnum, LabelsOf(fields))
      BY <2>2, <2>11, Zenon
    <3>1. /\ TablesInv /\ DeclsFit /\ TagsFit /\ UnionsFilled /\ generics \subseteq LeftBehind
          /\ StructNames /\ TemplateNames /\ FunctionNames /\ UnionNames
      BY <3>0 DEF BaseInv, CleanInv
    <3>2. Grows
      BY <1>0, <2>9 DEF Grows
    <3>a. EnumFits(refEnum, ToSet(LabelsOf(fields)))'
      <4>1. \/ refEnum = Untagged
            \/ UsableEnum(refEnum) /\ ToSet(LabelsOf(fields)) \subseteq DOMAIN enums[refEnum]
        BY <3>0 DEF RefEnumRefused
      <4> QED  BY <1>0, <4>1 DEF EnumFits, UsableEnum, Known, KindOf
    <3>3. DeclsFit'
      <4>1. DeclFits(d)'
        BY <2>5, <2>9, <3>a DEF DeclFits, d
      <4>2. ASSUME NEW i \in DOMAIN decls'
            PROVE  DeclFits(decls[i])'
        <5>1. PICK c : c = decls'[i]
          OBVIOUS
        <5>2. CASE i \in DOMAIN decls
          <6>1. DeclFits(c)
            BY <1>2, <3>1, <5>1, <5>2 DEF DeclsFit
          <6>2. DeclFits(c)'
            BY <2>6, <3>1, <3>2, <6>1, DeclStays
          <6> QED  BY <5>1, <6>2
        <5>3. CASE i \notin DOMAIN decls
          BY <1>2, <4>1, <5>3
        <5> QED  BY <5>2, <5>3
      <4> QED  BY <4>2 DEF DeclsFit
    <3>4. TagsFit'
      <4>1. Placed(e.field)
        BY <2>5, FS_EmptySet DEF Placed
      <4>2. EnumFits(e.refEnum, DOMAIN e.field)'
        BY <2>5, <3>a DEF EnumFits
      <4>3. TagsOf(e)'
        BY <2>5, <4>1, <4>2 DEF TagsOf
      <4> QED  BY <2>4, <2>6, <3>1, <4>3, TagsFitPut
    <3>5. UnionsFilled'
      <4>1. ASSUME NEW n \in DOMAIN unions
            PROVE  DOMAIN unions'[n].field # {} \/ \E i \in DOMAIN decls' : Pending(i, n)'
        BY <1>0, <1>2, <2>9, <3>1 DEF UnionsFilled, Pending
      <4>2. PICK k : k = Len(decls) + 1
        OBVIOUS
      <4>3. k \in DOMAIN decls' /\ Pending(k, name)'
        BY <1>2, <4>2 DEF Pending, d
      <4> QED  BY <2>9, <4>1, <4>3 DEF UnionsFilled
    <3>6. StructNames' /\ TemplateNames' /\ FunctionNames'
      BY <1>0, <2>6, <3>1, StructsStay, TemplatesStay, FunctionsStay
    <3>7. UnionNames'
      BY <2>4, <2>5, <2>6, <3>1, <3>2, UnionsPut
    <3>8. generics' \subseteq LeftBehind'
      BY <1>0, <3>1, <3>2, LeftStays
    <3> QED  BY <3>3, <3>4, <3>5, <3>6, <3>7, <3>8
  <2> QED  BY <1>3, <2>7, <2>10, <2>11 DEF BaseInv, CleanInv
<1> QED  BY <1>4, <1>5

LEMMA StructFieldStep ==
  ASSUME BaseInv, NEW CONSTANT fields \in FieldLists, RegistSingleStructField(fields)
  PROVE  BaseInv'
<1>1. PICK d : d = decls[at + 1]
  OBVIOUS
<1>2. PICK gs : gs = ToSet(Template(d.params))
  OBVIOUS
<1>0. /\ phase = "fields" /\ at < Len(decls) /\ d.kind = "struct" /\ at' = at + 1
      /\ UNCHANGED <<symbols, enums, unions, functions, decls>>
  BY <1>1 DEF RegistSingleStructField, FieldPhase
<1>3. /\ at + 1 \in DOMAIN decls /\ at' \in 0..Len(decls')
      /\ decls' \in Seq(Decls)
  BY <1>0 DEF BaseInv, TypesInv
<1>4. Stays /\ Known' = Known /\ \A n \in Known : KindOf(n)' = KindOf(n)
  BY <1>0, StaysSame DEF KindOf
<1>5. UnionsFilled => UnionsFilled'
  <2> SUFFICES ASSUME UnionsFilled PROVE UnionsFilled'
    OBVIOUS
  <2>1. at \in Int
    BY DEF BaseInv, TypesInv
  <2>2. ASSUME NEW n, NEW i \in DOMAIN decls, Pending(i, n)
        PROVE  Pending(i, n)'
    <3>1. i # at + 1 /\ i \in Int
      BY <1>0, <1>1, <2>2 DEF Pending, BaseInv, TypesInv
    <3> QED  BY <1>0, <2>1, <2>2, <3>1 DEF Pending
  <2> QED  BY <1>0, <2>2 DEF UnionsFilled
<1>6. CASE UNCHANGED <<structs, templates, generics, errors>> /\ phase' \in {"fields", "crashed"}
  <2>1. TypesInv'
    BY <1>3, <1>6 DEF BaseInv, TypesInv
  <2>2. TablesInv'
    BY <1>0, <1>6 DEF BaseInv, TablesInv, Known, KindOf
  <2>3. PhaseInv'
    BY <1>6 DEF PhaseInv
  <2>4. CleanInv'
    <3> SUFFICES ASSUME ~errors'
                 PROVE  CleanInv'
      BY DEF CleanInv
    <3>1. /\ TablesInv /\ DeclsFit /\ TagsFit /\ UnionsFilled /\ generics \subseteq LeftBehind
          /\ StructNames /\ TemplateNames /\ FunctionNames /\ UnionNames
      BY <1>6 DEF BaseInv, CleanInv
    <3>2. Grows
      BY <1>0, <1>6, GrowsSame
    <3>3. DeclsFit' /\ TagsFit' /\ UnionsFilled'
      BY <1>0, <1>4, <1>5, <3>1, <3>2, DeclsStay, TagsFitStay
    <3>4. StructNames' /\ TemplateNames' /\ FunctionNames' /\ UnionNames'
      BY <1>0, <1>4, <1>6, <3>1, <3>2, StructsStay, TemplatesStay, FunctionsStay, UnionsStay
    <3>5. generics' \subseteq LeftBehind'
      BY <1>6, <3>1, <3>2, LeftStays
    <3> QED  BY <3>3, <3>4, <3>5 DEF CleanInv
  <2> QED  BY <2>1, <2>2, <2>3, <2>4 DEF BaseInv
<1>7. CASE ~(UNCHANGED <<structs, templates, generics, errors>> /\ phase' \in {"fields", "crashed"})
  <2>1. PICK own : own = IF d.params = NotGeneric THEN structs ELSE templates
    OBVIOUS
  <2>2. PICK e : e = own[d.name]
    OBVIOUS
  <2>3. PICK w : w = WithFields(e, fields, gs)
    OBVIOUS
  <2>4. /\ d.name \in DOMAIN own /\ generics' = gs /\ phase' = phase
        /\ errors' = (errors \/ (AnyReports(fields, gs) \/ Again(e.field, fields, Kept(fields, gs))))
        /\ IF d.params = NotGeneric
           THEN structs' = Put(structs, d.name, w) /\ templates' = templates
           ELSE templates' = Put(templates, d.name, w) /\ structs' = structs
    BY <1>0, <1>1, <1>2, <1>7, <2>1, <2>2, <2>3 DEF RegistSingleStructField, Report
  <2>5. /\ IsEntry(e) /\ d.name \in Known
        /\ d.params = NotGeneric => e.params = << >>
    BY <2>1, <2>2, <2>4 DEF BaseInv, TablesInv
  <2>6. IsEntry(w) /\ w.params = e.params
    BY <2>3, <2>5, FieldsPut
  <2>7. /\ DOMAIN structs' = DOMAIN structs /\ DOMAIN templates' = DOMAIN templates
        /\ \A n \in DOMAIN structs :
             \/ structs'[n] = structs[n]
             \/ d.params = NotGeneric /\ n = d.name /\ structs'[n] = w
        /\ \A n \in DOMAIN templates :
             \/ templates'[n] = templates[n]
             \/ d.params # NotGeneric /\ n = d.name /\ templates'[n] = w
    <3>1. CASE d.params = NotGeneric
      <4>1. structs' = Put(structs, d.name, w) /\ d.name \in DOMAIN structs /\ templates' = templates
        BY <2>1, <2>4, <3>1
      <4> QED  BY <3>1, <4>1 DEF Put
    <3>2. CASE d.params # NotGeneric
      <4>1. templates' = Put(templates, d.name, w) /\ d.name \in DOMAIN templates /\ structs' = structs
        BY <2>1, <2>4, <3>2
      <4> QED  BY <3>2, <4>1 DEF Put
    <3> QED  BY <3>1, <3>2
  <2>8. TypesInv'
    <3>1. errors' \in BOOLEAN
      BY <2>4, Zenon DEF BaseInv, TypesInv
    <3> QED  BY <1>0, <1>3, <2>4, <3>1 DEF TypesInv
  <2>9. TablesInv'
    <3>1. \A n \in DOMAIN structs' : n \in Known' /\ IsEntry(structs'[n]) /\ structs'[n].params = << >>
      BY <1>4, <2>5, <2>6, <2>7 DEF BaseInv, TablesInv
    <3>2. \A n \in DOMAIN templates' : n \in Known' /\ IsEntry(templates'[n])
      BY <1>4, <2>5, <2>6, <2>7 DEF BaseInv, TablesInv
    <3>3. /\ \A n \in DOMAIN unions' : n \in Known' /\ IsEntry(unions'[n])
          /\ \A n \in Known' : KindOf(n)' = "enum" => n \in DOMAIN enums'
      BY <1>0, <1>4 DEF BaseInv, TablesInv
    <3> QED  BY <3>1, <3>2, <3>3 DEF TablesInv
  <2>10. PhaseInv'
    BY <1>0, <2>4 DEF PhaseInv
  <2>11. Grows
    <3>1. \A n \in DOMAIN templates : n \in DOMAIN templates' /\ templates'[n].params = templates[n].params
      BY <2>1, <2>2, <2>6, <2>7
    <3> QED  BY <1>0, <2>7, <3>1 DEF Grows
  <2>12. ASSUME ~errors'
         PROVE  /\ DeclsFit' /\ TagsFit' /\ UnionsFilled' /\ StructNames' /\ TemplateNames'
                /\ FunctionNames' /\ UnionNames' /\ generics' \subseteq LeftBehind'
    <3>0. ~errors /\ ~AnyReports(fields, gs) /\ ~Again(e.field, fields, Kept(fields, gs))
      BY <2>4, <2>12, Zenon
    <3>1. /\ TablesInv /\ DeclsFit /\ TagsFit /\ UnionsFilled /\ generics \subseteq LeftBehind
          /\ StructNames /\ TemplateNames /\ FunctionNames /\ UnionNames
      BY <3>0 DEF BaseInv, CleanInv
    <3>2. Fresh(e.field, fields, Kept(fields, gs))
      BY <3>0, ListsAssumption, ListFacts DEF Fresh, AreLists, Kept
    <3>3. DeclsFit' /\ TagsFit' /\ UnionsFilled'
      BY <1>0, <1>4, <1>5, <2>11, <3>1, DeclsStay, TagsFitStay
    <3>4. DeclFits(d)
      BY <1>1, <1>3, <3>1 DEF DeclsFit
    <3>5. CASE d.params = NotGeneric
      <4>1. gs = {}
        BY <1>2, <3>5 DEF Template, ToSet
      <4>2. NamesUsed(e) \subseteq Known
        BY <2>1, <2>2, <2>4, <3>1, <3>5 DEF StructNames
      <4>3. NamesUsed(w) \subseteq Known
        BY <2>3, <2>5, <3>0, <3>2, <4>1, <4>2, NamesWithFields
      <4>4. StructNames'
        BY <1>4, <2>4, <3>1, <3>5, <4>3, StructsPut
      <4>5. TemplateNames' /\ FunctionNames' /\ UnionNames'
        BY <1>0, <1>4, <2>4, <2>11, <3>1, <3>5, TemplatesStay, FunctionsStay, UnionsStay
      <4>6. generics' \subseteq LeftBehind'
        BY <2>4, <4>1
      <4> QED  BY <3>3, <4>4, <4>5, <4>6
    <3>6. CASE d.params # NotGeneric
      <4>1. e.params = d.params /\ gs = ToSet(d.params)
        BY <1>0, <1>2, <2>1, <2>2, <3>4, <3>6 DEF DeclFits, Template
      <4>2. NamesUsed(e) \subseteq Known \cup gs
        BY <2>1, <2>2, <2>4, <3>1, <3>6, <4>1 DEF TemplateNames
      <4>3. NamesUsed(w) \subseteq Known \cup gs
        BY <2>3, <2>5, <3>0, <3>2, <4>2, NamesWithFields
      <4>4. TemplateNames'
        BY <1>4, <2>4, <2>6, <3>1, <3>6, <4>1, <4>3, TemplatesPut
      <4>5. StructNames' /\ FunctionNames' /\ UnionNames'
        BY <1>0, <1>4, <2>4, <2>11, <3>1, <3>6, StructsStay, FunctionsStay, UnionsStay
      <4>6. gs \subseteq LeftBehind
        BY <2>1, <2>2, <2>4, <3>6, <4>1 DEF LeftBehind
      <4>7. generics' \subseteq LeftBehind'
        BY <2>4, <2>11, <4>6, LeftStays
      <4> QED  BY <3>3, <4>4, <4>5, <4>7
    <3> QED  BY <3>5, <3>6
  <2> QED  BY <2>8, <2>9, <2>10, <2>12 DEF BaseInv, CleanInv
<1> QED  BY <1>6, <1>7

(* The members of a union that are put in without a report have tags. *)
LEMMA TagsOfMembers ==
  ASSUME NEW u, NEW d, NEW gs, IsEntry(u), TagsOf(u), u.refEnum = d.refEnum,
         EnumFits(d.refEnum, ToSet(LabelsOf(d.fields))), IsFiniteSet(DOMAIN d.fields),
         Fresh(u.field, d.fields, Kept(d.fields, gs)), ~AnyReports(d.fields, gs)
  PROVE  /\ TagsOf(WithTags(WithFields(u, d.fields, gs), d))
         /\ DOMAIN d.fields # {} => DOMAIN WithTags(WithFields(u, d.fields, gs), d).field # {}
<1>1. PICK w : w = WithFields(u, d.fields, gs)
  OBVIOUS
<1>2. PICK v : v = WithTags(w, d)
  OBVIOUS
<1>3. PICK kept : kept = Kept(d.fields, gs)
  OBVIOUS
<1>4. kept = DOMAIN d.fields
  <2>1. \A i \in DOMAIN d.fields : ~IsError(d.fields[i][2], gs)
    BY DEF AnyReports, ToSet, Reports
  <2> QED  BY <1>3, <2>1 DEF Kept
<1>5. PICK field : field = Loaded(u.field, d.fields, kept)
  OBVIOUS
<1>6. IsEntry(w) /\ w.refEnum = u.refEnum /\ w.tags = u.tags /\ w.field = field
  BY <1>1, <1>3, <1>5, FieldsPut
<1>7. PICK new : new = Tags(d, field)
  OBVIOUS
<1>8. /\ IsEntry(v) /\ v.refEnum = u.refEnum /\ v.field = field
      /\ DOMAIN v.tags = DOMAIN u.tags \cup DOMAIN new
      /\ \A m \in DOMAIN u.tags : v.tags[m] = u.tags[m]
      /\ \A m \in DOMAIN new \ DOMAIN u.tags : v.tags[m] = new[m]
  BY <1>2, <1>6, <1>7, TagsPut
<1>9. /\ DOMAIN field = DOMAIN u.field \cup Labels(d.fields, kept)
      /\ \A m \in DOMAIN u.field : field[m] = u.field[m]
  <2>1. PICK table : table = u.field
    OBVIOUS
  <2>2. PICK list : list = d.fields
    OBVIOUS
  <2>3. /\ DOMAIN Loaded(table, list, kept) = DOMAIN table \cup Labels(list, kept)
        /\ \A m \in DOMAIN table : Loaded(table, list, kept)[m] = table[m]
    BY LoadedKeeps
  <2> QED  BY <1>5, <2>1, <2>2, <2>3
<1>10. Labels(d.fields, kept) = ToSet(LabelsOf(d.fields))
  BY <1>4 DEF Labels, ToSet, LabelsOf
<1>11. Placed(field)
  <2>1. Placed(u.field)
    BY DEF TagsOf
  <2>2. Fresh(u.field, d.fields, kept) /\ IsFiniteSet(kept)
    BY <1>3, <1>4
  <2> QED  BY <1>5, <2>1, <2>2, LoadedPlaced
<1>12. DOMAIN u.tags = DOMAIN u.field
  BY DEF TagsOf
<1>13. TagsOf(v)
  <2>1. CASE d.refEnum = Untagged
    <3>1. new = [m \in DOMAIN field |-> field[m].place]
      BY <1>7, <2>1 DEF Tags
    <3>2. DOMAIN v.tags = DOMAIN field
      BY <1>8, <1>9, <1>12, <3>1
    <3>3. ASSUME NEW l \in DOMAIN field
          PROVE  v.tags[l] = field[l].place
      <4>1. CASE l \in DOMAIN u.field
        BY <1>8, <1>9, <1>12, <2>1, <4>1 DEF TagsOf
      <4>2. CASE l \notin DOMAIN u.field
        BY <1>8, <1>12, <3>1, <4>2
      <4> QED  BY <4>1, <4>2
    <3>4. EnumFits(v.refEnum, DOMAIN v.field)
      BY <1>8, <2>1 DEF EnumFits
    <3> QED  BY <1>8, <1>11, <2>1, <3>2, <3>3, <3>4 DEF TagsOf
  <2>2. CASE d.refEnum # Untagged
    <3>1. /\ d.refEnum \in Known /\ KindOf(d.refEnum) = "enum"
          /\ ToSet(LabelsOf(d.fields)) \subseteq DOMAIN enums[d.refEnum]
          /\ DOMAIN u.field \subseteq DOMAIN enums[d.refEnum]
      BY <2>2 DEF EnumFits, TagsOf
    <3>2. PICK r : r = enums[d.refEnum]
      OBVIOUS
    <3>3. new = [m \in ToSet(LabelsOf(d.fields)) \cap DOMAIN r |-> r[m]]
      BY <1>7, <2>2, <3>1, <3>2 DEF Tags
    <3>4. /\ DOMAIN new = ToSet(LabelsOf(d.fields))
          /\ \A m \in DOMAIN new : new[m] = r[m]
      BY <3>1, <3>2, <3>3
    <3>5. DOMAIN v.tags = DOMAIN field /\ DOMAIN field \subseteq DOMAIN r
      BY <1>8, <1>9, <1>10, <1>12, <3>1, <3>2, <3>4
    <3>6. ASSUME NEW l \in DOMAIN field
          PROVE  v.tags[l] = r[l]
      <4>1. CASE l \in DOMAIN u.field
        BY <1>8, <1>12, <2>2, <3>2, <4>1 DEF TagsOf
      <4>2. CASE l \notin DOMAIN u.field
        BY <1>8, <1>9, <1>10, <1>12, <3>4, <4>2
      <4> QED  BY <4>1, <4>2
    <3>7. EnumFits(v.refEnum, DOMAIN v.field)
      BY <1>8, <3>1, <3>2, <3>5 DEF EnumFits
    <3> QED  BY <1>8, <1>11, <2>2, <3>2, <3>5, <3>6, <3>7 DEF TagsOf
  <2> QED  BY <2>1, <2>2
<1>14. ASSUME DOMAIN d.fields # {}
       PROVE  DOMAIN v.field # {}
  <2>1. PICK i : i \in DOMAIN d.fields
    BY <1>14
  <2>2. d.fields[i][1] \in Labels(d.fields, kept)
    BY <1>4, <2>1 DEF Labels
  <2> QED  BY <1>8, <1>9, <2>2
<1> QED  BY <1>1, <1>2, <1>13, <1>14

LEMMA UnionMemberStep ==
  ASSUME BaseInv, RegistSingleUnionMember
  PROVE  BaseInv'
<1>1. PICK d : d = decls[at + 1]
  OBVIOUS
<1>0. /\ phase = "fields" /\ at < Len(decls) /\ d.kind = "union" /\ at' = at + 1
      /\ UNCHANGED <<phase, symbols, enums, structs, templates, functions, decls, generics>>
  BY <1>1 DEF RegistSingleUnionMember, FieldPhase
<1>2. at \in Int /\ at + 1 \in DOMAIN decls /\ at' \in 0..Len(decls') /\ decls' \in Seq(Decls)
  BY <1>0 DEF BaseInv, TypesInv
<1>3. Stays /\ Known' = Known /\ \A n \in Known : KindOf(n)' = KindOf(n)
  BY <1>0, StaysSame DEF KindOf
<1>4. PhaseInv'
  BY <1>0 DEF PhaseInv
<1>5. ASSUME UnionsFilled, NEW n \in DOMAIN unions, n # d.name
      PROVE  DOMAIN unions[n].field # {} \/ \E i \in DOMAIN decls : Pending(i, n)'
  <2>1. CASE DOMAIN unions[n].field # {}
    BY <2>1
  <2>2. CASE DOMAIN unions[n].field = {}
    <3>1. PICK i \in DOMAIN decls : Pending(i, n)
      BY <1>5, <2>2 DEF UnionsFilled
    <3>2. i # at + 1 /\ i \in Int
      BY <1>1, <1>5, <3>1 DEF Pending, BaseInv, TypesInv
    <3>3. Pending(i, n)'
      BY <1>0, <1>2, <3>1, <3>2 DEF Pending
    <3> QED  BY <3>3
  <2> QED  BY <2>1, <2>2
<1>6. CASE d.name \notin DOMAIN unions
  <2>1. UNCHANGED <<unions, errors>>
    BY <1>1, <1>6 DEF RegistSingleUnionMember
  <2>2. TypesInv'
    BY <1>0, <1>2, <2>1 DEF BaseInv, TypesInv
  <2>3. TablesInv'
    BY <1>0, <2>1 DEF BaseInv, TablesInv, Known, KindOf
  <2>4. errors'
    <3> SUFFICES ASSUME ~errors PROVE FALSE
      BY <2>1, Zenon
    <3>1. DeclFits(d)
      BY <1>1, <1>2 DEF BaseInv, CleanInv, DeclsFit
    <3> QED  BY <1>0, <1>6, <3>1 DEF DeclFits
  <2> QED  BY <1>4, <2>2, <2>3, <2>4 DEF BaseInv, CleanInv
<1>7. CASE d.name \in DOMAIN unions /\ d.fields = << >>
  <2>1. UNCHANGED unions /\ errors' = TRUE
    BY <1>1, <1>7 DEF RegistSingleUnionMember, Report, BaseInv, TypesInv
  <2>2. TypesInv'
    BY <1>0, <1>2, <2>1 DEF BaseInv, TypesInv
  <2>3. TablesInv'
    BY <1>0, <2>1 DEF BaseInv, TablesInv, Known, KindOf
  <2> QED  BY <1>4, <2>1, <2>2, <2>3 DEF BaseInv, CleanInv
<1>8. CASE d.name \in DOMAIN unions /\ d.fields # << >>
  <2>1. PICK u : u = unions[d.name]
    OBVIOUS
  <2>2. PICK w : w = WithFields(u, d.fields, generics)
    OBVIOUS
  <2>3. PICK v : v = WithTags(w, d)
    OBVIOUS
  <2>4. PICK bad : bad = \E f \in ToSet(d.fields) : f[2].ref
    OBVIOUS
  <2>5. /\ unions' = Put(unions, d.name, v)
        /\ errors' = (errors \/ (\/ AnyReports(d.fields, generics)
                                 \/ Again(u.field, d.fields, Kept(d.fields, generics))
                                 \/ bad))
    BY <1>1, <1>8, <2>1, <2>2, <2>3, <2>4 DEF RegistSingleUnionMember, Report
  <2>6. IsEntry(u) /\ d.name \in Known
    BY <1>8, <2>1 DEF BaseInv, TablesInv
  <2>7. IsEntry(w) /\ w.refEnum = u.refEnum
    BY <2>2, <2>6, FieldsPut
  <2>8. IsEntry(v) /\ v.refEnum = u.refEnum /\ NamesUsed(v) = NamesUsed(w)
    BY <2>3, <2>7, TagsPut, NamesWithTags
  <2>9. /\ DOMAIN unions' = DOMAIN unions /\ unions'[d.name] = v
        /\ \A n \in DOMAIN unions : n # d.name => unions'[n] = unions[n]
    BY <1>8, <2>5 DEF Put
  <2>10. TypesInv'
    <3>1. errors' \in BOOLEAN
      BY <2>5, Zenon DEF BaseInv, TypesInv
    <3> QED  BY <1>0, <1>2, <3>1 DEF BaseInv, TypesInv
  <2>11. TablesInv'
    <3>1. /\ \A n \in DOMAIN structs' : n \in Known' /\ IsEntry(structs'[n]) /\ structs'[n].params = << >>
          /\ \A n \in DOMAIN templates' : n \in Known' /\ IsEntry(templates'[n])
          /\ \A n \in Known' : KindOf(n)' = "enum" => n \in DOMAIN enums'
      BY <1>0, <1>3 DEF BaseInv, TablesInv
    <3>2. \A n \in DOMAIN unions' : n \in Known' /\ IsEntry(unions'[n])
      BY <1>3, <2>8, <2>9 DEF BaseInv, TablesInv
    <3> QED  BY <3>1, <3>2 DEF TablesInv
  <2>12. Grows
    <3>1. \A n \in DOMAIN unions : n \in DOMAIN unions' /\ unions'[n].refEnum = unions[n].refEnum
      BY <2>1, <2>8, <2>9
    <3> QED  BY <1>0, <3>1 DEF Grows
  <2>13. ASSUME ~errors'
         PROVE  /\ DeclsFit' /\ TagsFit' /\ UnionsFilled' /\ StructNames' /\ TemplateNames'
                /\ FunctionNames' /\ UnionNames' /\ generics' \subseteq LeftBehind'
    <3>0. /\ ~errors /\ ~AnyReports(d.fields, generics)
          /\ ~Again(u.field, d.fields, Kept(d.fields, generics))
      BY <2>5, <2>13, Zenon
    <3>1. /\ TablesInv /\ DeclsFit /\ TagsFit /\ UnionsFilled /\ generics \subseteq LeftBehind
          /\ StructNames /\ TemplateNames /\ FunctionNames /\ UnionNames
      BY <3>0 DEF BaseInv, CleanInv
    <3>2. DeclFits(d)
      BY <1>1, <1>2, <3>1 DEF DeclsFit
    <3>3. u.refEnum = d.refEnum /\ EnumFits(d.refEnum, ToSet(LabelsOf(d.fields)))
      BY <1>0, <2>1, <3>2 DEF DeclFits
    <3>4. d.fields \in UnionLists
      BY <1>0, <1>1, <1>2 DEF BaseInv, TypesInv, Decls
    <3>5. PICK fields : fields = d.fields
      OBVIOUS
    <3>6. /\ IsFiniteSet(DOMAIN fields) /\ DOMAIN fields \subseteq Int /\ DOMAIN fields # {}
      BY <1>8, <3>4, <3>5, ListsAssumption, ListFacts DEF AreLists
    <3>7. Fresh(u.field, d.fields, Kept(d.fields, generics))
      BY <3>0, <3>5, <3>6 DEF Fresh, Kept
    <3>8. TagsOf(u)
      BY <1>8, <2>1, <3>1 DEF TagsFit
    <3>9. TagsOf(v)
      BY <2>2, <2>3, <2>6, <3>0, <3>3, <3>5, <3>6, <3>7, <3>8, TagsOfMembers
    <3>10. DOMAIN v.field # {}
      BY <2>2, <2>3, <2>6, <3>0, <3>3, <3>5, <3>6, <3>7, <3>8, TagsOfMembers
    <3>11. TagsFit'
      <4>1. TagsOf(v)'
        BY <1>3, <3>1, <3>9, TagsStay
      <4> QED  BY <1>3, <2>5, <3>1, <4>1, TagsFitPut
    <3>12. UnionsFilled'
      BY <1>0, <1>5, <2>9, <3>1, <3>10 DEF UnionsFilled
    <3>13. DeclsFit' /\ StructNames' /\ TemplateNames' /\ FunctionNames'
      BY <1>0, <1>3, <2>12, <3>1, DeclsStay, StructsStay, TemplatesStay, FunctionsStay
    <3>14. UnionNames'
      <4>1. NamesUsed(u) \subseteq Known \cup LeftBehind
        BY <1>8, <2>1, <3>1 DEF UnionNames
      <4>2. Known \cup generics \subseteq Known \cup LeftBehind
        BY <3>1
      <4>3. NamesUsed(w) \subseteq Known \cup LeftBehind
        BY <2>2, <2>6, <3>0, <3>7, <4>1, <4>2, NamesWithFields
      <4>4. NamesUsed(v) \subseteq Known' \cup LeftBehind'
        BY <1>3, <2>8, <2>12, <4>3, LeftStays
      <4> QED  BY <1>3, <2>5, <2>12, <3>1, <4>4, UnionsPut
    <3>15. generics' \subseteq LeftBehind'
      BY <1>0, <2>12, <3>1, LeftStays
    <3> QED  BY <3>11, <3>12, <3>13, <3>14, <3>15
  <2> QED  BY <1>4, <2>10, <2>11, <2>13 DEF BaseInv, CleanInv
<1> QED  BY <1>6, <1>7, <1>8

LEMMA SelfReferenceStep ==
  ASSUME BaseInv, CheckSelfReference
  PROVE  BaseInv' /\ SelfReferencesFound'
<1>1. /\ at = Len(decls) /\ selfRefs' = Refs
      /\ phase' = IF errors' THEN "stopped" ELSE "functions"
      /\ UNCHANGED <<symbols, enums, structs, templates, unions, functions, decls, at, generics>>
  BY DEF CheckSelfReference, Refs, tables
<1>2. PICK bad : errors' = (errors \/ bad)
  BY DEF CheckSelfReference, Report
<1>3. errors' \in BOOLEAN
  BY <1>2, Zenon DEF BaseInv, TypesInv
<1>4. TypesInv'
  BY <1>1, <1>3 DEF BaseInv, TypesInv
<1>5. TablesInv'
  BY <1>1 DEF BaseInv, TablesInv, Known, KindOf
<1>6. PhaseInv'
  BY <1>1 DEF PhaseInv
<1>7. ASSUME ~errors'
      PROVE  /\ DeclsFit' /\ TagsFit' /\ UnionsFilled' /\ StructNames' /\ TemplateNames'
             /\ FunctionNames' /\ UnionNames' /\ generics' \subseteq LeftBehind'
  <2>1. ~errors
    BY <1>2, <1>7, Zenon
  <2>2. generics' \subseteq LeftBehind /\ Stays
    BY <1>1, <2>1, StaysSame DEF BaseInv, CleanInv
  <2> QED  BY <1>1, <2>1, <2>2, RestStays
<1>8. SelfReferencesFound'
  <2>1. /\ OnCycle(Edges(Plain))' = OnCycle(Edges(Plain))
        /\ OnCycle(Edges(Inside))' = OnCycle(Edges(Inside))
    BY <1>1 DEF OnCycle, Edges, Plain, Inside, Composite, Declared, AllFields, FieldTypes
  <2> QED  BY <1>1, <2>1, SearchFinds DEF SelfReferencesFound
<1> QED  BY <1>4, <1>5, <1>6, <1>7, <1>8 DEF BaseInv, CleanInv

LEMMA GlobalFuncStep ==
  ASSUME BaseInv, NEW CONSTANT name, NEW CONSTANT params, NEW CONSTANT sig, NEW CONSTANT extern,
         RegistSingleGlobalFunc(name, params, sig, extern)
  PROVE  BaseInv'
<1>0. /\ phase = "functions"
      /\ UNCHANGED <<phase, enums, structs, templates, unions, decls, at>>
  BY DEF RegistSingleGlobalFunc
<1>1. PhaseInv'
  BY <1>0 DEF BaseInv, PhaseInv
<1>2. CASE name \in Known
  <2>1. errors' = TRUE /\ UNCHANGED <<symbols, functions, generics>>
    BY <1>2 DEF RegistSingleGlobalFunc, Report, BaseInv, TypesInv
  <2>2. TypesInv'
    BY <1>0, <2>1 DEF BaseInv, TypesInv
  <2>3. TablesInv'
    BY <1>0, <2>1 DEF BaseInv, TablesInv, Known, KindOf
  <2> QED  BY <1>1, <2>1, <2>2, <2>3 DEF BaseInv, CleanInv
<1>3. CASE name \notin Known
  <2>1. Declare(name, "func") /\ generics' = {}
    BY <1>3 DEF RegistSingleGlobalFunc
  <2>2. PICK ps : ps = Template(params)
    OBVIOUS
  <2>3. PICK gs : gs = ToSet(ps)
    OBVIOUS
  <2>4. PICK f : f = [params |-> ps, names |-> SignatureNames(sig)]
    OBVIOUS
  <2>5. functions' = Put(functions, name, f)
    BY <1>3, <2>2, <2>4 DEF RegistSingleGlobalFunc
  <2>6. PICK bad : errors' = (errors \/ (SignatureReports(sig, gs)' \/ bad))
    <3>1. errors' = (errors \/ (\/ SignatureReports(sig, ToSet(Template(params)))'
                                \/ ParamsRefused(params) \/ (extern /\ params # NotGeneric)))
      BY <1>3 DEF RegistSingleGlobalFunc, Report
    <3>2. ToSet(Template(params)) = gs
      BY <2>2, <2>3
    <3>3. SignatureReports(sig, ToSet(Template(params)))' = SignatureReports(sig, gs)'
      BY <3>2
    <3> QED  BY <3>1, <3>3
  <2>7. /\ Stays /\ Known' = Known \cup {name}
        /\ \A n \in Known' : \/ n \in Known /\ symbols'[n] = symbols[n]
                             \/ n = name /\ symbols'[n].kind = "func"
    BY <1>0, <1>3, <2>1, StaysDeclared
  <2>8. TypesInv'
    <3>1. errors' \in BOOLEAN
      BY <2>6, Zenon DEF BaseInv, TypesInv
    <3> QED  BY <1>0, <3>1 DEF BaseInv, TypesInv
  <2>9. TablesInv'
    <3>1. \A n \in Known' : KindOf(n)' = "enum" => n \in DOMAIN enums'
      BY <1>0, <2>7 DEF BaseInv, TablesInv, KindOf
    <3> QED  BY <1>0, <2>7, <3>1 DEF BaseInv, TablesInv
  <2>10. ASSUME ~errors'
         PROVE  /\ DeclsFit' /\ TagsFit' /\ UnionsFilled' /\ StructNames' /\ TemplateNames'
                /\ FunctionNames' /\ UnionNames' /\ generics' \subseteq LeftBehind'
    <3>0. ~errors /\ ~SignatureReports(sig, gs)'
      BY <2>6, <2>10, Zenon
    <3>1. /\ TablesInv /\ DeclsFit /\ TagsFit /\ UnionsFilled
          /\ StructNames /\ TemplateNames /\ FunctionNames /\ UnionNames
      BY <3>0 DEF BaseInv, CleanInv
    <3>2. Grows
      BY <1>0, GrowsSame
    <3>3. DeclsFit' /\ TagsFit'
      BY <1>0, <2>7, <3>1, <3>2, DeclsStay, TagsFitStay
    <3>4. UnionsFilled'
      BY <1>0, <3>1, FilledStays
    <3>5. StructNames' /\ TemplateNames' /\ UnionNames'
      BY <1>0, <2>7, <3>1, <3>2, StructsStay, TemplatesStay, UnionsStay
    <3>6. f.names \subseteq Known' \cup ToSet(f.params)
      BY <2>3, <2>4, <3>0, SignatureResolvedNext
    <3>7. FunctionNames'
      <4>1. /\ DOMAIN functions' = DOMAIN functions \cup {name} /\ functions'[name] = f
            /\ \A n \in DOMAIN functions : n # name => functions'[n] = functions[n]
        BY <2>5 DEF Put
      <4>2. Known \subseteq Known'
        BY <2>7
      <4> QED  BY <3>1, <3>6, <4>1, <4>2 DEF FunctionNames
    <3> QED  BY <2>1, <3>3, <3>4, <3>5, <3>7
  <2> QED  BY <1>1, <2>8, <2>9, <2>10 DEF BaseInv, CleanInv
<1> QED  BY <1>2, <1>3

LEMMA MethodsLeave ==
  ASSUME NEW name, NEW e, IsEntry(e), NEW methods, NEW w, w = WithMethods(name, e, methods)
  PROVE  /\ IsEntry(w) /\ w.params = e.params /\ w.field = e.field
         /\ w.refEnum = e.refEnum /\ w.tags = e.tags
<1> DEFINE v == WithMethods(name, e, methods)
<1>1. /\ IsEntry(v) /\ v.params = e.params /\ v.field = e.field
      /\ v.refEnum = e.refEnum /\ v.tags = e.tags
  BY MethodsPut
<1>2. w = v
  OBVIOUS
<1> HIDE DEF v
<1> QED  BY <1>1, <1>2

(* An impl leaves the fields of every declaration as they are. *)
SameFields ==
  /\ DOMAIN structs' = DOMAIN structs /\ DOMAIN templates' = DOMAIN templates
  /\ DOMAIN unions' = DOMAIN unions
  /\ \A n \in DOMAIN structs : structs'[n].field = structs[n].field
  /\ \A n \in DOMAIN templates : templates'[n].field = templates[n].field
  /\ \A n \in DOMAIN unions : unions'[n].field = unions[n].field

LEMMA ImplForStructStep ==
  ASSUME BaseInv, NEW CONSTANT name, NEW CONSTANT params, NEW CONSTANT methods,
         phase = "impls", RegistImplForStruct(name, params, methods),
         UNCHANGED <<phase, symbols, enums, functions, decls, at>>
  PROVE  BaseInv' /\ SameFields
<1>1. Stays /\ Known' = Known
  BY StaysSame
<1>2. PhaseInv'
  BY DEF BaseInv, PhaseInv
<1>3. UNCHANGED unions /\ name \in DOMAIN structs \cup DOMAIN templates
  BY DEF RegistImplForStruct
<1>4. CASE ImplRefused(name, params, methods)
  <2>1. errors' = TRUE /\ UNCHANGED <<structs, templates, generics>>
    BY <1>4 DEF RegistImplForStruct, Report, BaseInv, TypesInv
  <2>2. TypesInv'
    BY <2>1 DEF BaseInv, TypesInv
  <2>3. TablesInv'
    BY <1>3, <2>1 DEF BaseInv, TablesInv, Known, KindOf
  <2>4. SameFields
    BY <1>3, <2>1 DEF SameFields
  <2> QED  BY <1>2, <2>1, <2>2, <2>3, <2>4 DEF BaseInv, CleanInv
<1>5. CASE ~ImplRefused(name, params, methods)
  <2>1. PICK e : e = (IF name \in DOMAIN structs THEN structs ELSE templates)[name]
    OBVIOUS
  <2>2. PICK gs : gs = ToSet(e.params)
    OBVIOUS
  <2>3. PICK w : w = WithMethods(name, e, methods)
    OBVIOUS
  <2>4. PICK bad : errors' = (errors \/ (MethodsReport(name, e, methods, gs) \/ bad))
    BY <1>5, <2>1, <2>2 DEF RegistImplForStruct, Report
  <2>5. /\ generics' = gs
        /\ IF name \in DOMAIN structs
           THEN structs' = Put(structs, name, w) /\ templates' = templates
           ELSE templates' = Put(templates, name, w) /\ structs' = structs
    BY <1>5, <2>1, <2>2, <2>3 DEF RegistImplForStruct
  <2>6. /\ IsEntry(e) /\ name \in Known
        /\ name \in DOMAIN structs => e = structs[name] /\ e.params = << >>
        /\ name \notin DOMAIN structs => name \in DOMAIN templates /\ e = templates[name]
    BY <1>3, <2>1 DEF BaseInv, TablesInv
  <2>7. IsEntry(w) /\ w.params = e.params /\ w.field = e.field
    BY <2>3, <2>6, MethodsLeave
  <2>8. /\ DOMAIN structs' = DOMAIN structs /\ DOMAIN templates' = DOMAIN templates
        /\ \A n \in DOMAIN structs : structs'[n] = structs[n] \/ (n = name /\ structs'[n] = w)
        /\ \A n \in DOMAIN templates : templates'[n] = templates[n]
                                       \/ (n = name /\ name \notin DOMAIN structs /\ templates'[n] = w)
    BY <2>5, <2>6 DEF Put
  <2>9. SameFields
    <3>1. \A n \in DOMAIN structs : structs'[n].field = structs[n].field
      BY <2>6, <2>7, <2>8
    <3>2. \A n \in DOMAIN templates : templates'[n].field = templates[n].field
      BY <2>6, <2>7, <2>8
    <3> QED  BY <1>3, <2>8, <3>1, <3>2 DEF SameFields
  <2>10. TypesInv'
    <3>1. errors' \in BOOLEAN
      BY <2>4, Zenon DEF BaseInv, TypesInv
    <3> QED  BY <3>1 DEF BaseInv, TypesInv
  <2>11. TablesInv'
    <3>1. \A n \in DOMAIN structs' : n \in Known' /\ IsEntry(structs'[n]) /\ structs'[n].params = << >>
      BY <1>1, <2>6, <2>7, <2>8 DEF BaseInv, TablesInv
    <3>2. \A n \in DOMAIN templates' : n \in Known' /\ IsEntry(templates'[n])
      BY <1>1, <2>7, <2>8 DEF BaseInv, TablesInv
    <3>3. \A n \in DOMAIN unions' : n \in Known' /\ IsEntry(unions'[n])
      BY <1>1, <1>3 DEF BaseInv, TablesInv
    <3>4. \A n \in Known' : KindOf(n)' = "enum" => n \in DOMAIN enums'
      BY DEF BaseInv, TablesInv, Known, KindOf
    <3> QED  BY <3>1, <3>2, <3>3, <3>4 DEF TablesInv
  <2>12. Grows
    <3>1. \A n \in DOMAIN templates : templates'[n].params = templates[n].params
      BY <2>6, <2>7, <2>8
    <3> QED  BY <1>3, <2>8, <3>1 DEF Grows
  <2>13. ASSUME ~errors'
         PROVE  /\ DeclsFit' /\ TagsFit' /\ UnionsFilled' /\ StructNames' /\ TemplateNames'
                /\ FunctionNames' /\ UnionNames' /\ generics' \subseteq LeftBehind'
    <3>0. ~errors /\ ~MethodsReport(name, e, methods, gs)
      BY <2>4, <2>13, Zenon
    <3>1. /\ TablesInv /\ DeclsFit /\ TagsFit /\ UnionsFilled
          /\ StructNames /\ TemplateNames /\ FunctionNames /\ UnionNames
      BY <3>0 DEF BaseInv, CleanInv
    <3>2. DeclsFit' /\ TagsFit' /\ FunctionNames'
      BY <1>1, <1>3, <2>12, <3>1, DeclsStay, TagsFitStay, FunctionsStay
    <3>3. UnionsFilled'
      BY <1>3, <3>1, FilledStays
    <3>4. UnionNames'
      BY <1>1, <1>3, <2>12, <3>1, UnionsStay
    <3>5. CASE name \in DOMAIN structs
      <4>1. NamesUsed(e) \subseteq Known
        BY <2>6, <3>1, <3>5 DEF StructNames
      <4>2. gs = {}
        BY <2>2, <2>6, <3>5 DEF ToSet
      <4>3. NamesUsed(w) \subseteq Known
        BY <2>3, <2>6, <3>0, <4>1, <4>2, NamesWithMethods
      <4>4. StructNames'
        BY <1>1, <2>5, <3>1, <3>5, <4>3, StructsPut
      <4>5. TemplateNames'
        BY <1>1, <2>5, <3>1, <3>5, TemplatesStay
      <4> QED  BY <2>5, <3>2, <3>3, <3>4, <4>2, <4>4, <4>5
    <3>6. CASE name \notin DOMAIN structs
      <4>1. NamesUsed(e) \subseteq Known \cup gs
        BY <2>2, <2>6, <3>1, <3>6 DEF TemplateNames
      <4>2. NamesUsed(w) \subseteq Known \cup gs
        BY <2>3, <2>6, <3>0, <4>1, NamesWithMethods
      <4>3. TemplateNames'
        BY <1>1, <2>2, <2>5, <2>7, <3>1, <3>6, <4>2, TemplatesPut
      <4>4. StructNames'
        BY <1>1, <2>5, <3>1, <3>6, StructsStay
      <4>5. gs \subseteq LeftBehind
        BY <2>2, <2>6, <3>6 DEF LeftBehind
      <4>6. generics' \subseteq LeftBehind'
        BY <2>5, <2>12, <4>5, LeftStays
      <4> QED  BY <3>2, <3>3, <3>4, <4>3, <4>4, <4>6
    <3> QED  BY <3>5, <3>6
  <2> QED  BY <1>2, <2>9, <2>10, <2>11, <2>13 DEF BaseInv, CleanInv
<1> QED  BY <1>4, <1>5

LEMMA ImplForUnionStep ==
  ASSUME BaseInv, NEW CONSTANT name, NEW CONSTANT list,
         phase = "impls", RegistImplForUnion(name, list),
         UNCHANGED <<phase, symbols, enums, functions, decls, at>>
  PROVE  BaseInv' /\ SameFields
<1>1. Stays /\ Known' = Known
  BY StaysSame
<1>2. PhaseInv'
  BY DEF BaseInv, PhaseInv
<1>3. UNCHANGED <<structs, templates, generics>> /\ name \in DOMAIN unions
  BY DEF RegistImplForUnion
<1>4. PICK methods : methods = [i \in DOMAIN list |-> [list[i] EXCEPT !.cond = ""]]
  OBVIOUS
<1>5. PICK u : u = unions[name]
  OBVIOUS
<1>6. PICK w : w = WithMethods(name, u, methods)
  OBVIOUS
<1>7. /\ unions' = Put(unions, name, w)
      /\ errors' = (errors \/ MethodsReport(name, u, methods, generics))
  BY <1>4, <1>5, <1>6 DEF RegistImplForUnion, Report
<1>8. IsEntry(u) /\ name \in Known
  BY <1>3, <1>5 DEF BaseInv, TablesInv
<1>9. /\ IsEntry(w) /\ w.params = u.params /\ w.field = u.field /\ w.refEnum = u.refEnum
      /\ w.tags = u.tags
  BY <1>6, <1>8, MethodsLeave
<1>10. /\ DOMAIN unions' = DOMAIN unions /\ unions'[name] = w
       /\ \A n \in DOMAIN unions : n # name => unions'[n] = unions[n]
  BY <1>3, <1>7 DEF Put
<1>11. \A n \in DOMAIN unions : unions'[n].field = unions[n].field
                                /\ unions'[n].refEnum = unions[n].refEnum
  BY <1>5, <1>9, <1>10
<1>12. SameFields
  BY <1>3, <1>10, <1>11 DEF SameFields
<1>13. Grows
  BY <1>3, <1>10, <1>11 DEF Grows
<1>14. TypesInv'
  <2>1. errors' \in BOOLEAN
    BY <1>7, Zenon DEF BaseInv, TypesInv
  <2> QED  BY <2>1 DEF BaseInv, TypesInv
<1>15. TablesInv'
  <2>1. \A n \in DOMAIN unions' : n \in Known' /\ IsEntry(unions'[n])
    BY <1>1, <1>8, <1>9, <1>10 DEF BaseInv, TablesInv
  <2>2. \A n \in Known' : KindOf(n)' = "enum" => n \in DOMAIN enums'
    BY DEF BaseInv, TablesInv, Known, KindOf
  <2> QED  BY <1>1, <1>3, <2>1, <2>2 DEF BaseInv, TablesInv
<1>16. ASSUME ~errors'
       PROVE  /\ DeclsFit' /\ TagsFit' /\ UnionsFilled' /\ StructNames' /\ TemplateNames'
              /\ FunctionNames' /\ UnionNames' /\ generics' \subseteq LeftBehind'
  <2>0. ~errors /\ ~MethodsReport(name, u, methods, generics)
    BY <1>7, <1>16, Zenon
  <2>1. /\ TablesInv /\ DeclsFit /\ TagsFit /\ UnionsFilled /\ generics \subseteq LeftBehind
        /\ StructNames /\ TemplateNames /\ FunctionNames /\ UnionNames
    BY <2>0 DEF BaseInv, CleanInv
  <2>2. DeclsFit' /\ StructNames' /\ TemplateNames' /\ FunctionNames'
    BY <1>1, <1>3, <1>13, <2>1, DeclsStay, StructsStay, TemplatesStay, FunctionsStay
  <2>3. TagsFit'
    <3>1. TagsOf(u)
      BY <1>3, <1>5, <2>1 DEF TagsFit
    <3>2. TagsOf(w)
      BY <1>9, <3>1 DEF TagsOf
    <3>3. TagsOf(w)'
      BY <1>1, <2>1, <3>2, TagsStay
    <3> QED  BY <1>1, <1>7, <2>1, <3>3, TagsFitPut
  <2>4. UnionsFilled'
    BY <1>10, <1>11, <2>1 DEF UnionsFilled, Pending
  <2>5. UnionNames'
    <3>1. NamesUsed(u) \subseteq Known \cup LeftBehind
      BY <1>3, <1>5, <2>1 DEF UnionNames
    <3>2. Known \cup generics \subseteq Known \cup LeftBehind
      BY <2>1
    <3>3. NamesUsed(w) \subseteq Known \cup LeftBehind
      BY <1>6, <1>8, <2>0, <3>1, <3>2, NamesWithMethods
    <3>4. NamesUsed(w) \subseteq Known' \cup LeftBehind'
      BY <1>1, <1>13, <3>3, LeftStays
    <3> QED  BY <1>1, <1>7, <1>13, <2>1, <3>4, UnionsPut
  <2>6. generics' \subseteq LeftBehind'
    BY <1>3, <1>13, <2>1, LeftStays
  <2> QED  BY <2>2, <2>3, <2>4, <2>5, <2>6
<1> QED  BY <1>2, <1>12, <1>14, <1>15, <1>16 DEF BaseInv, CleanInv

LEMMA ImplStep ==
  ASSUME BaseInv, NEW CONSTANT name, NEW CONSTANT params, NEW CONSTANT methods,
         RegistSingleImpl(name, params, methods)
  PROVE  BaseInv' /\ SameFields
<1>1. /\ phase = "impls"
      /\ UNCHANGED <<phase, symbols, enums, functions, decls, at>>
  BY DEF RegistSingleImpl
<1>2. CASE RegistImplForStruct(name, params, methods)
  BY <1>1, <1>2, ImplForStructStep
<1>3. CASE RegistImplForUnion(name, methods)
  BY <1>1, <1>3, ImplForUnionStep
<1>4. CASE Report(TRUE) /\ UNCHANGED <<structs, templates, unions, generics>>
  <2>1. errors' = TRUE
    BY <1>4 DEF Report, BaseInv, TypesInv
  <2>2. TypesInv'
    BY <1>1, <2>1 DEF BaseInv, TypesInv
  <2>3. TablesInv'
    BY <1>1, <1>4 DEF BaseInv, TablesInv, Known, KindOf
  <2>4. PhaseInv'
    BY <1>1 DEF BaseInv, PhaseInv
  <2>5. SameFields
    BY <1>4 DEF SameFields
  <2> QED  BY <2>1, <2>2, <2>3, <2>4, <2>5 DEF BaseInv, CleanInv
<1> QED  BY <1>2, <1>3, <1>4 DEF RegistSingleImpl

LEMMA EndPhaseStep ==
  ASSUME BaseInv, EndPhase
  PROVE  BaseInv'
<1>1. /\ phase \in {"enums", "symbols", "functions", "impls"}
      /\ phase' = CASE phase = "enums" -> "symbols"
                    [] phase = "symbols" -> "fields"
                    [] phase = "functions" -> IF errors THEN "stopped" ELSE "impls"
                    [] phase = "impls" -> IF errors THEN "stopped" ELSE "done"
      /\ UNCHANGED <<symbols, enums, structs, templates, unions, functions, decls, at, generics,
                     errors>>
  BY DEF EndPhase, tables
<1>2. TypesInv'
  BY <1>1 DEF BaseInv, TypesInv
<1>3. TablesInv'
  BY <1>1 DEF BaseInv, TablesInv, Known, KindOf
<1>4. PhaseInv'
  BY <1>1 DEF BaseInv, PhaseInv
<1>5. ASSUME ~errors'
      PROVE  /\ DeclsFit' /\ TagsFit' /\ UnionsFilled' /\ StructNames' /\ TemplateNames'
             /\ FunctionNames' /\ UnionNames' /\ generics' \subseteq LeftBehind'
  <2>1. ~errors
    BY <1>1, <1>5
  <2>2. generics' \subseteq LeftBehind /\ Stays
    BY <1>1, <2>1, StaysSame DEF BaseInv, CleanInv
  <2> QED  BY <1>1, <2>1, <2>2, RestStays
<1> QED  BY <1>2, <1>3, <1>4, <1>5 DEF BaseInv, CleanInv

LEMMA StutterStep ==
  ASSUME BaseInv, UNCHANGED vars
  PROVE  BaseInv'
<1>1. UNCHANGED <<phase, symbols, enums, structs, templates, unions, functions, decls, at,
                  generics, errors>>
  BY DEF vars, tables
<1>2. TypesInv' /\ PhaseInv'
  BY <1>1 DEF BaseInv, TypesInv, PhaseInv
<1>3. TablesInv'
  BY <1>1 DEF BaseInv, TablesInv, Known, KindOf
<1>4. ASSUME ~errors'
      PROVE  /\ DeclsFit' /\ TagsFit' /\ UnionsFilled' /\ StructNames' /\ TemplateNames'
             /\ FunctionNames' /\ UnionNames' /\ generics' \subseteq LeftBehind'
  <2>1. ~errors
    BY <1>1, <1>4
  <2>2. generics' \subseteq LeftBehind /\ Stays
    BY <1>1, <2>1, StaysSame DEF BaseInv, CleanInv
  <2> QED  BY <1>1, <2>1, <2>2, RestStays
<1> QED  BY <1>2, <1>3, <1>4 DEF BaseInv, CleanInv

(* So it holds of every state, whatever the declarations are. *)
LEMMA StepKeepsInvariant ==
  BaseInv /\ [Next]_vars => BaseInv'
<1> SUFFICES ASSUME BaseInv, [Next]_vars PROVE BaseInv'
  OBVIOUS
<1>1. ASSUME NEW name \in Names, NEW members \in MemberLists, RegistSingleEnum(name, members)
      PROVE  BaseInv'
  BY <1>1, EnumStep
<1>2. ASSUME NEW name \in Names, NEW params \in ParamLists, RegistSingleStructSymbol(name, params)
      PROVE  BaseInv'
  BY <1>2, StructSymbolStep
<1>3. ASSUME NEW name \in Names,
             NEW refEnum \in Names \cup DOMAIN ImportedEnums \cup {Untagged},
             NEW fields \in UnionLists, RegistSingleUnionSymbol(name, refEnum, fields)
      PROVE  BaseInv'
  BY <1>3, UnionSymbolStep
<1>4. ASSUME NEW fields \in FieldLists, RegistSingleStructField(fields)
      PROVE  BaseInv'
  BY <1>4, StructFieldStep
<1>5. CASE RegistSingleUnionMember
  BY <1>5, UnionMemberStep
<1>6. CASE CheckSelfReference
  BY <1>6, SelfReferenceStep
<1>7. ASSUME NEW name \in Names, NEW params \in ParamLists, NEW sig \in Signatures,
             NEW extern \in BOOLEAN, RegistSingleGlobalFunc(name, params, sig, extern)
      PROVE  BaseInv'
  BY <1>7, GlobalFuncStep
<1>8. ASSUME NEW name \in Names, NEW params \in ParamLists, NEW methods \in MethodLists,
             RegistSingleImpl(name, params, methods)
      PROVE  BaseInv'
  BY <1>8, ImplStep
<1>9. CASE EndPhase
  BY <1>9, EndPhaseStep
<1>10. CASE UNCHANGED vars
  BY <1>10, StutterStep
<1> QED  BY <1>1, <1>2, <1>3, <1>4, <1>5, <1>6, <1>7, <1>8, <1>9, <1>10 DEF Next

(* The tables of a file are as its declarations say: as long as there was no
   error, each declaration owns its name. *)
THEOREM InvariantHolds ==
  Spec => []BaseInv
<1>1. Init => BaseInv
  BY InitHolds
<1>2. BaseInv /\ [Next]_vars => BaseInv'
  BY StepKeepsInvariant
<1> QED  BY <1>1, <1>2, PTL DEF Spec

-----------------------------------------------------------------------------
(***************************************************************************)
(* The properties.                                                         *)
(***************************************************************************)
(* The types that hold themselves are those of the check, for none of what
   comes after it touches a field. *)
LEMMA CyclesStay ==
  ASSUME SameFields
  PROVE  /\ OnCycle(Edges(Plain))' = OnCycle(Edges(Plain))
         /\ OnCycle(Edges(Inside))' = OnCycle(Edges(Inside))
<1>1. Composite' = Composite /\ Declared' = Declared
  BY DEF SameFields, Composite, Declared
<1>2. ASSUME NEW n \in Composite
      PROVE  FieldTypes(n)' = FieldTypes(n)
  <2>1. CASE n \in DOMAIN structs
    <3>1. structs'[n].field = structs[n].field /\ n \in DOMAIN structs'
      BY <2>1 DEF SameFields
    <3> QED  BY <2>1, <3>1 DEF FieldTypes
  <2>2. CASE n \notin DOMAIN structs
    <3>1. unions'[n].field = unions[n].field /\ n \notin DOMAIN structs'
      BY <2>2 DEF SameFields, Composite
    <3> QED  BY <2>2, <3>1 DEF FieldTypes
  <2> QED  BY <2>1, <2>2
<1>3. ASSUME NEW n \in Declared
      PROVE  AllFields(n)' = AllFields(n)
  <2>1. CASE n \in Composite
    BY <1>1, <1>2, <2>1 DEF AllFields
  <2>2. CASE n \notin Composite
    <3>1. templates'[n].field = templates[n].field
      BY <2>2 DEF SameFields, Declared
    <3> QED  BY <1>1, <2>2, <3>1 DEF AllFields
  <2> QED  BY <2>1, <2>2
<1>4. Edges(Plain)' = Edges(Plain)
  <2>1. \A t : Plain(t)' = Plain(t)
    BY <1>1 DEF Plain
  <2> QED  BY <1>1, <1>3, <2>1 DEF Edges
<1>5. Edges(Inside)' = Edges(Inside)
  BY <1>1, <1>3 DEF Edges, Inside
<1> QED  BY <1>1, <1>4, <1>5 DEF OnCycle

LEMMA FoundStays ==
  ASSUME SelfReferencesFound, SameFields, UNCHANGED selfRefs,
         phase \notin {"enums", "symbols", "fields", "crashed"}
  PROVE  SelfReferencesFound'
  BY CyclesStay DEF SelfReferencesFound

LEMMA SameFieldsSame ==
  ASSUME UNCHANGED <<structs, templates, unions>>
  PROVE  SameFields
  BY DEF SameFields

LEMMA StepKeepsFound ==
  BaseInv /\ SelfReferencesFound /\ [Next]_vars => SelfReferencesFound'
<1> SUFFICES ASSUME BaseInv, SelfReferencesFound, [Next]_vars PROVE SelfReferencesFound'
  OBVIOUS
<1>1. ASSUME NEW name \in Names, NEW members \in MemberLists, RegistSingleEnum(name, members)
      PROVE  SelfReferencesFound'
  BY <1>1 DEF RegistSingleEnum, SelfReferencesFound
<1>2. ASSUME NEW name \in Names, NEW params \in ParamLists, RegistSingleStructSymbol(name, params)
      PROVE  SelfReferencesFound'
  BY <1>2 DEF RegistSingleStructSymbol, SelfReferencesFound
<1>3. ASSUME NEW name \in Names,
             NEW refEnum \in Names \cup DOMAIN ImportedEnums \cup {Untagged},
             NEW fields \in UnionLists, RegistSingleUnionSymbol(name, refEnum, fields)
      PROVE  SelfReferencesFound'
  BY <1>3 DEF RegistSingleUnionSymbol, SelfReferencesFound
<1>4. ASSUME NEW fields \in FieldLists, RegistSingleStructField(fields)
      PROVE  SelfReferencesFound'
  <2>1. phase' \in {"fields", "crashed"}
    BY <1>4 DEF RegistSingleStructField, FieldPhase
  <2> QED  BY <2>1 DEF SelfReferencesFound
<1>5. CASE RegistSingleUnionMember
  <2>1. phase' = "fields"
    BY <1>5 DEF RegistSingleUnionMember, FieldPhase
  <2> QED  BY <2>1 DEF SelfReferencesFound
<1>6. CASE CheckSelfReference
  BY <1>6, SelfReferenceStep
<1>7. ASSUME NEW name \in Names, NEW params \in ParamLists, NEW sig \in Signatures,
             NEW extern \in BOOLEAN, RegistSingleGlobalFunc(name, params, sig, extern)
      PROVE  SelfReferencesFound'
  <2>1. phase = "functions" /\ UNCHANGED <<selfRefs, structs, templates, unions>>
    BY <1>7 DEF RegistSingleGlobalFunc
  <2> QED  BY <2>1, SameFieldsSame, FoundStays
<1>8. ASSUME NEW name \in Names, NEW params \in ParamLists, NEW methods \in MethodLists,
             RegistSingleImpl(name, params, methods)
      PROVE  SelfReferencesFound'
  <2>1. phase = "impls" /\ UNCHANGED selfRefs
    BY <1>8 DEF RegistSingleImpl
  <2> QED  BY <1>8, <2>1, ImplStep, FoundStays
<1>9. CASE EndPhase
  <2>1. UNCHANGED <<selfRefs, structs, templates, unions>>
    BY <1>9 DEF EndPhase, tables
  <2>2. CASE phase \in {"enums", "symbols"}
    <3>1. phase' \in {"symbols", "fields"}
      BY <1>9, <2>2 DEF EndPhase
    <3> QED  BY <3>1 DEF SelfReferencesFound
  <2>3. CASE phase \notin {"enums", "symbols"}
    <3>1. phase \notin {"enums", "symbols", "fields", "crashed"}
      BY <1>9, <2>3 DEF EndPhase
    <3> QED  BY <2>1, <3>1, SameFieldsSame, FoundStays
  <2> QED  BY <2>2, <2>3
<1>10. CASE UNCHANGED vars
  <2>1. UNCHANGED <<phase, selfRefs, structs, templates, unions>>
    BY <1>10 DEF vars, tables
  <2>2. CASE phase \in {"enums", "symbols", "fields", "crashed"}
    BY <2>1, <2>2 DEF SelfReferencesFound
  <2>3. CASE phase \notin {"enums", "symbols", "fields", "crashed"}
    BY <2>1, <2>3, SameFieldsSame, FoundStays
  <2> QED  BY <2>2, <2>3
<1> QED  BY <1>1, <1>2, <1>3, <1>4, <1>5, <1>6, <1>7, <1>8, <1>9, <1>10 DEF Next

(* check_self_reference (regist_pass.cpp:1258), for declarations of any number
   and fields of any types: each struct and union that holds itself in plain
   fields is reported, and none that does not hold itself. *)
THEOREM SelfReferences ==
  Spec => []SelfReferencesFound
<1>1. Init => SelfReferencesFound
  BY DEF Init, SelfReferencesFound
<1>2. BaseInv /\ SelfReferencesFound /\ [Next]_vars => SelfReferencesFound'
  BY StepKeepsFound
<1>3. Spec => []BaseInv
  BY InvariantHolds
<1> QED  BY <1>1, <1>2, <1>3, PTL DEF Spec

(* In a file that is accepted, every type that a field, a parameter or a result
   names is a symbol or a parameter of its template; a union may name what a
   template before it left in ctx.generics, and nothing else. *)
THEOREM NamesResolve ==
  Spec => []NamesInScope
<1>1. BaseInv => NamesInScope
  BY DEF BaseInv, PhaseInv, CleanInv, StructNames, TemplateNames, FunctionNames, UnionNames,
         NamesInScope, Accepted
<1>2. Spec => []BaseInv
  BY InvariantHolds
<1> QED  BY <1>1, <1>2, PTL

LEMMA TagsMatch ==
  BaseInv => TagsMatchMembers
<1> SUFFICES ASSUME BaseInv, Accepted, NEW n \in DOMAIN unions
             PROVE  /\ DOMAIN unions[n].field # {}
                    /\ DOMAIN unions[n].tags = DOMAIN unions[n].field
                    /\ \A x, y \in DOMAIN unions[n].field :
                         x # y /\ unions[n].tags[x] = unions[n].tags[y]
                           => /\ unions[n].refEnum # Untagged
                              /\ enums[unions[n].refEnum][x] = enums[unions[n].refEnum][y]
  BY DEF TagsMatchMembers
<1>1. ~errors /\ at = Len(decls)
  BY DEF Accepted, BaseInv, PhaseInv
<1>2. TagsOf(unions[n])
  BY <1>1 DEF BaseInv, CleanInv, TagsFit
<1>3. DOMAIN unions[n].field # {}
  <2>1. ASSUME NEW i \in DOMAIN decls
        PROVE  ~Pending(i, n)
    BY <1>1 DEF BaseInv, TypesInv, Pending
  <2> QED  BY <1>1, <2>1 DEF BaseInv, CleanInv, UnionsFilled
<1>4. DOMAIN unions[n].tags = DOMAIN unions[n].field
  BY <1>2 DEF TagsOf
<1>5. ASSUME NEW x \in DOMAIN unions[n].field, NEW y \in DOMAIN unions[n].field,
             x # y, unions[n].tags[x] = unions[n].tags[y]
      PROVE  /\ unions[n].refEnum # Untagged
             /\ enums[unions[n].refEnum][x] = enums[unions[n].refEnum][y]
  <2>1. CASE unions[n].refEnum = Untagged
    <3>1. unions[n].field[x].place = unions[n].field[y].place
      BY <1>2, <1>5, <2>1 DEF TagsOf
    <3> QED  BY <1>2, <1>5, <3>1 DEF TagsOf, Placed
  <2>2. CASE unions[n].refEnum # Untagged
    BY <1>2, <1>5, <2>2 DEF TagsOf
  <2> QED  BY <2>1, <2>2
<1> QED  BY <1>3, <1>4, <1>5

(* The members of every union of an accepted file have tags, and different ones
   unless the enum the union refers to gives both the same value. *)
THEOREM TagsTellApart ==
  Spec => []TagsMatchMembers
<1>1. Spec => []BaseInv
  BY InvariantHolds
<1> QED  BY <1>1, TagsMatch, PTL
=============================================================================
