----------------------------- MODULE MCVfsPath -----------------------------
(* VfsPath for TLC: a file system of four directories, one of them too     *)
(* deep for PathMax = 8, and twelve arguments.                             *)
EXTENDS VfsPath

a  == <<Letter>>
aa == <<Letter, Letter>>

Tree == {<<>>, <<a>>, <<a, aa>>, <<a, aa, aa>>}

Slashed(names) == FlattenSeq([k \in DOMAIN names |-> <<Slash>> \o names[k]])
Relative(names) == Tail(Slashed(names))

(* Paths of two names, a path of three, the root, no argument, one that    *)
(* does not parse, one with separators in a row, one with a separator at   *)
(* its end.                                                                *)
Two  == {<<x, y>> : x \in {a, Parent}, y \in {aa, Parent}} \union {<<Self, a>>}
Odd  == {<<>>, <<Slash>>, <<Slash, Bell>>, <<Slash, Slash, Letter, Slash, Slash>> \o aa, <<Letter, Slash>>}

Arguments ==
  Odd \union {Relative(<<a, aa, aa>>)} \union {Slashed(<<Parent, a>>)} \union {Relative(n) : n \in Two}
=============================================================================
