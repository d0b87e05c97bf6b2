-------------------------- MODULE AddressRegistry --------------------------
(* AddressRegistryV2: names of contracts and their addresses, in a map and a *)
(* list of the names.  The operators give the registry after a call, for the *)
(* transactions that make several; a batch registers one after another.      *)
EXTENDS Naturals, SequencesExt

CONSTANT Zero        \* address(0)

NewRegistry(Ids) == [idList |-> <<>>, idToAddress |-> [id \in Ids |-> Zero]]

\* registerAddress.
Registered(registry, id, address) ==
  [idList |-> IF registry.idToAddress[id] = Zero THEN Append(registry.idList, id)
              ELSE registry.idList,
   idToAddress |-> [registry.idToAddress EXCEPT ![id] = address]]

\* registerMultipleAddresses: names and their addresses, in order.
RegisteredAll(registry, entries) ==
  FoldLeft(LAMBDA r, e : Registered(r, e[1], e[2]), registry, entries)

\* deleteAddress: the last name takes the place of the first that equals id.
Deleted(registry, id) ==
  LET places == {i \in DOMAIN registry.idList : registry.idList[i] = id}
      place  == CHOOSE i \in places : \A j \in places : i <= j
  IN  IF places = {} THEN registry
      ELSE [idList |-> Front([registry.idList EXCEPT ![place] = Last(registry.idList)]),
            idToAddress |-> [registry.idToAddress EXCEPT ![id] = Zero]]
=============================================================================
