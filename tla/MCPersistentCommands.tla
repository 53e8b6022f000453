------------------------ MODULE MCPersistentCommands ------------------------
(* A small instance of PersistentCommands for TLC. *)
EXTENDS PersistentCommands

CONSTANTS first, second, usual, other

\* An output change meets one that undoes it, a change of another field and a
\* reset; a backend is chosen while the preset is cleared.
Plan(value, a, b) ==
  [saved |-> value, wish |-> [c \in Commands |-> IF c = first THEN a ELSE b]]
Wish(field, value) == [field |-> field, value |-> value]

MCPlans == {Plan(usual, Wish("outputs", other), Wish("outputs", usual)),
            Plan(usual, Wish("outputs", other), Wish("rate", other)),
            Plan(other, Wish("backend", usual), Wish("preset", usual)),
            Plan(other, Wish("outputs", usual), Wish("all", usual))}
=============================================================================
