-------------------------- MODULE MCModuleImport --------------------------
(***************************************************************************)
(* Programs for ModuleImport: four files, one of them under two names.     *)
(***************************************************************************)
EXTENDS ModuleImport, TLC

CONSTANTS r, a, b, c, s, t, na, nb, nb2, nc, nr, nx

MCFile == {r, a, b, c}
MCName == {na, nb, nb2, nc, nr, nx}
MCSym == {s, t}
MCFind == (na :> a) @@ (nb :> b) @@ (nb2 :> b) @@ (nc :> c) @@ (nr :> r) @@ (nx :> NoFile)

All(n) == [name |-> n, syms |-> {}]
Only(n, x) == [name |-> n, syms |-> {x}]
Pub(x) == [sym |-> x, public |-> TRUE, generic |-> FALSE]
Private(x) == [sym |-> x, public |-> FALSE, generic |-> FALSE]
Generic(x) == [sym |-> x, public |-> TRUE, generic |-> TRUE]

None == [k \in Scans |-> <<>>]
One(k, d) == [None EXCEPT ![k] = <<d>>]

File1(imports, decls, needs) ==
  [parses |-> TRUE, imports |-> imports, decls |-> decls, needs |-> needs]
Broken == [File1(<<>>, None, {}) EXCEPT !.parses = FALSE]
Empty == File1(<<>>, None, {})
Program4(x, y, z, w) == (r :> x) @@ (a :> y) @@ (b :> z) @@ (c :> w)
Program(x, y, z) == Program4(x, y, z, Empty)

(* All import graphs in which the root has at most two use statements and a
   and b fewer, with fixed declarations. *)
Two(m, n) == <<All(m), All(n)>>
AtMostOne(names) == {<<>>} \cup {<<All(n)>> : n \in names}
Found == {na, nb, nb2, nr}
GraphPrograms ==
  {Program(File1(i, d, {}), File1(j, One("structs", Pub(s)), {}), z) :
     i \in AtMostOne(Found) \cup {Two(m, n) : m, n \in Found},
     d \in {None, One("funcs", Private(t))},
     j \in AtMostOne(Found) \cup {Two(nb, na), Two(nb2, nb), Two(nr, nb)},
     z \in {File1(k, One("funcs", Pub(t)), {}) : k \in AtMostOne({na})} \cup {Broken}}

(* A root that imports from a and b, and an a that may import from b, with all
   combinations of what the files declare and what the root needs. *)
Declared ==
  {None, One("structs", Pub(s)), One("funcs", Generic(s)),
   [None EXCEPT !["enums"] = <<Private(s)>>, !["funcs"] = <<Pub(t)>>],
   [None EXCEPT !["structs"] = <<Pub(s)>>, !["funcs"] = <<Private(s)>>]}
SymbolPrograms ==
  {Program(File1(i, d, n), File1(j, e, {}), File1(<<>>, g, {})) :
     i \in {<<All(na), u>> : u \in {All(nb), Only(nb, s)}}
           \cup {<<Only(na, s), All(nb)>>, <<All(nx)>>},
     d \in {None, One("funcs", Pub(s))}, n \in {{}, {s}},
     e \in Declared, j \in AtMostOne({nb}), g \in Declared}

(* A file reached under both of its names that imports two modules which may
   provide the same symbol, and may declare something itself. *)
AgainPrograms ==
  {Program4(File1(Two(nb, nb2), None, n), File1(<<>>, One("structs", Pub(s)), {}),
            File1(Two(na, nc), d, {s}), File1(<<>>, One("funcs", e), {})) :
     n \in {{}, {s}}, d \in {None, One("funcs", Pub(t))}, e \in {Pub(s), Generic(t)}}

MCPrograms == GraphPrograms \cup SymbolPrograms \cup AgainPrograms
=============================================================================
