----------------------------- MODULE Directory -----------------------------
(* What a registry of names promises: a map from names to contracts, that is *)
(* changed by entering and removing names and read by name or as a whole.    *)
CONSTANTS
  Names, Contracts,
  Null,         \* no contract
  Overwriting   \* whether entering a name again replaces its contract

VARIABLE entry

Init == entry = [n \in Names |-> Null]

\* Enters several names at once.
Enter(e) ==
  /\ Overwriting \/ \A n \in DOMAIN e : entry[n] = Null
  /\ entry' = [n \in Names |-> IF n \in DOMAIN e THEN e[n] ELSE entry[n]]

Remove(n) ==
  /\ entry[n] # Null
  /\ entry' = [entry EXCEPT ![n] = Null]

Next ==
  \/ \E S \in SUBSET Names : \E e \in [S -> Contracts] : Enter(e)
  \/ \E n \in Names : Remove(n)

Spec == Init /\ [][Next]_entry
=============================================================================
