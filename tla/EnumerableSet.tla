---------------------------- MODULE EnumerableSet ----------------------------
(* OpenZeppelin's EnumerableSet: a set kept in an array, so that it can be   *)
(* enumerated by index.  An element is removed by moving the last one into   *)
(* its place.  Adding a member or removing what is none changes nothing.     *)
EXTENDS Naturals, Sequences, Functions

IsMember(s, a) == a \in Range(s)

IndexIn(s, a) == CHOOSE i \in DOMAIN s : s[i] = a

Include(s, a) == IF IsMember(s, a) THEN s ELSE Append(s, a)

\* Mutant: shortens the array without moving its last element.
DropLast(s, a) == IF IsMember(s, a) THEN SubSeq(s, 1, Len(s) - 1) ELSE s

Exclude(s, a) ==
  IF IsMember(s, a)
  THEN SubSeq([s EXCEPT ![IndexIn(s, a)] = s[Len(s)]], 1, Len(s) - 1)
  ELSE s
=============================================================================
