-------------------------- MODULE NamedAddressSet --------------------------
(* The library NamedAddressSet: a set of contracts, each known by the name   *)
(* it declares.  The LP Account keeps its zaps and its swaps in one each,    *)
(* TvlManager its asset allocations.  A set is stored twice: the addresses   *)
(* in an EnumerableSet, and a lookup from names to addresses.                *)
EXTENDS EnumerableSet

CONSTANTS
  Contracts,
  Names,    \* the non-empty strings
  Empty,    \* the empty string
  NameOf,   \* NAME() of each contract, a Solidity constant
  Null      \* the zero address

ASSUME NamesAssumption == /\ Empty \notin Names
                          /\ \A c \in Contracts : NameOf[c] \in Names \cup {Empty}
ASSUME NullAssumption == Null \notin Contracts

VARIABLES addresses, lookup

vars == <<addresses, lookup>>

Init ==
  /\ addresses = <<>>
  /\ lookup = [n \in Names |-> Null]

-----------------------------------------------------------------------------
\* Mutant: looks for a duplicate of the address only.
AddAnyName(a) ==
  /\ ~IsMember(addresses, a)
  /\ NameOf[a] # Empty
  /\ addresses' = Include(addresses, a)
  /\ lookup' = [lookup EXCEPT ![NameOf[a]] = a]

\* _add: DUPLICATE_ADDRESS, INVALID_NAME, DUPLICATE_NAME.
Add(a) ==
  /\ ~IsMember(addresses, a)
  /\ NameOf[a] # Empty
  /\ lookup[NameOf[a]] = Null
  /\ addresses' = Include(addresses, a)
  /\ lookup' = [lookup EXCEPT ![NameOf[a]] = a]

\* _remove: INVALID_NAME.
Remove(n) ==
  /\ lookup[n] # Null
  /\ addresses' = Exclude(addresses, lookup[n])
  /\ lookup' = [lookup EXCEPT ![n] = Null]

Next == (\E a \in Contracts : Add(a)) \/ (\E n \in Names : Remove(n))

Spec == Init /\ [][Next]_vars

-----------------------------------------------------------------------------
(* Correctness. *)

\* The two structures hold the same contracts: the lookup of a name is the
\* one listed contract of that name, no contract is listed twice, and
\* everything listed can be called by its name (names(), at(), contains()
\* agree with get()).
InStep ==
  /\ \A i, j \in DOMAIN addresses : addresses[i] = addresses[j] => i = j
  /\ \A n \in Names, a \in Contracts :
       lookup[n] = a <=> IsMember(addresses, a) /\ NameOf[a] = n

\* What a caller who enumerates the set takes the names to stand for.
Listed == [n \in Names |->
             IF \E a \in Range(addresses) : NameOf[a] = n
             THEN CHOOSE a \in Range(addresses) : NameOf[a] = n
             ELSE Null]

Abstract == INSTANCE Directory WITH entry <- Listed, Overwriting <- FALSE

\* Seen by enumeration, the set is a map from names to contracts in which no
\* entry is ever overwritten.
ImplementsDirectory == Abstract!Spec
=============================================================================
