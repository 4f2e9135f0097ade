---------------------------- MODULE MCRegistrars ----------------------------
(****************************************************************************)
(* A program with a class, a method and an overrider; a library with a      *)
(* class and another overrider for it; a library that has a method of its   *)
(* own.  The program also has a list of its own, of five nodes, which are   *)
(* alike: enough for a first node, a last one, and inner ones side by side. *)
(****************************************************************************)
EXTENDS Registrars, TLC

CONSTANTS prog, plugin, other, c1, c2, m1, m2, o1, o2, o3, a, b, c, d, e

Units == {prog, plugin, other}
NeedsDef == prog :> {} @@ plugin :> {prog} @@ other :> {prog}
ClassInfos == {c1, c2}
Methods == {m1, m2}
Overriders == {o1, o2, o3}
UnitOfDef == c1 :> prog @@ m1 :> prog @@ o1 :> prog
             @@ c2 :> plugin @@ o2 :> plugin
             @@ m2 :> other @@ o3 :> other
MethodOfDef == o1 :> m1 @@ o2 :> m1 @@ o3 :> m2
Owns == {a, b, c, d, e}
Alike == Permutations(Owns)
Nodes == ClassInfos \cup Methods \cup Overriders \cup Owns
Lists == {classes, methods, own} \cup Methods
=============================================================================
