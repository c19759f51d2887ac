------------------------------ MODULE DirTree ------------------------------
(***************************************************************************)
(* What tmpfs promises about its directory tree: a set of nodes, each      *)
(* entered under a name in a directory that is itself in the tree.  A node *)
(* is added under a name the directory does not have, and a node that      *)
(* nothing is entered in is taken away.  How the entries of a directory    *)
(* are found and in which order is left open.                              *)
(***************************************************************************)
EXTENDS Integers

CONSTANTS
    MaxNodes,              \* MGCORE_MAX_NODES
    Name                   \* the names an entry can have

VARIABLES type, name, parent

vars == <<type, name, parent>>

Nodes == 0..(MaxNodes - 1)
Live == {n \in Nodes : type[n] # "NONE"}
NoName == [base |-> "", slash |-> FALSE]

\* The entries of directory d.
Entries(d) == {n \in Live \ {0} : parent[n] = d}

\* A tree: every entry is in a directory of the tree, and following parents
\* leads to the root.
IsTree ==
    /\ type[0] = "DIR"
    /\ \A n \in Live \ {0} : parent[n] \in Live /\ type[parent[n]] = "DIR"
    /\ \A S \in SUBSET (Live \ {0}) :
          S # {} => \E n \in S : parent[n] \notin S

Init == IsTree

\* A new entry gets a name that no entry of the directory answers to.  A
\* name that carries its trailing slash answers to no lookup.
Add(n, d, nm, t) ==
    /\ n \notin Live
    /\ d \in Live /\ type[d] = "DIR"
    /\ nm.slash \/ \A m \in Entries(d) : name[m] # nm
    /\ type' = [type EXCEPT ![n] = t]
    /\ name' = [name EXCEPT ![n] = nm]
    /\ parent' = [parent EXCEPT ![n] = d]

Remove(n) ==
    /\ n \in Live \ {0}
    /\ Entries(n) = {}
    /\ type' = [type EXCEPT ![n] = "NONE"]
    /\ name' = [name EXCEPT ![n] = NoName]
    /\ parent' = [parent EXCEPT ![n] = 0]

Next ==
    \/ \E n, d \in Nodes, nm \in Name, t \in {"FILE", "DIR"} : Add(n, d, nm, t)
    \/ \E n \in Nodes : Remove(n)

Spec == Init /\ [][Next]_vars

=============================================================================
