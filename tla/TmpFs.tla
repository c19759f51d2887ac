------------------------------- MODULE TmpFs -------------------------------
(***************************************************************************)
(* The directory tree of tmpfs.c: a table of nodes in which the entries of *)
(* a directory form a list, linked by first_child_id and next_sibling_id.  *)
(* Every operation is part of one system call, and system calls run with   *)
(* interrupts masked, so each is one step.                                 *)
(*                                                                         *)
(* A path is what normalize_path leaves of it: a sequence of components    *)
(* and whether it ends in a slash.  Components are shorter than            *)
(* MGCORE_NAME_MAX.  File contents are in module FileSystem.               *)
(***************************************************************************)
EXTENDS Integers, Sequences

CONSTANTS
    MaxNodes,              \* MGCORE_MAX_NODES
    Names,                 \* ordinary path components, strings
    Walks                  \* the component sequences of the paths explored

ASSUME TmpFsAssumption ==
    /\ MaxNodes \in Nat /\ MaxNodes >= 3
    /\ Walks \subseteq Seq(Names \cup {".", ".."}) \ {<<>>}
    /\ {"dev", "null"} \subseteq Names
    /\ Names \cap {"", "/", ".", ".."} = {}

VARIABLES type, name, parent, first_child, next_sibling   \* g_nodes[*]

vars == <<type, name, parent, first_child, next_sibling>>

Nodes == 0..(MaxNodes - 1)
NodeOrNone == Nodes \cup {-1}

\* A stored name; slash marks the trailing slash that split_parent leaves on.
Name == [base : Names, slash : BOOLEAN]
NoName == [base |-> "", slash |-> FALSE]
RootName == [base |-> "/", slash |-> FALSE]

TypeOK ==
    /\ type \in [Nodes -> {"NONE", "FILE", "DIR", "CHARDEV"}]
    /\ name \in [Nodes -> Name \cup {NoName, RootName}]
    /\ parent \in [Nodes -> NodeOrNone]
    /\ first_child \in [Nodes -> NodeOrNone]
    /\ next_sibling \in [Nodes -> NodeOrNone]

Live == {n \in Nodes : type[n] # "NONE"}

\* tmpfs_init and fs_init: the root, a directory /dev and a device in it.
\* Unused nodes are all zeros.
Init ==
    /\ type = [n \in Nodes |-> CASE n \in {0, 1} -> "DIR"
                                 [] n = 2 -> "CHARDEV"
                                 [] OTHER -> "NONE"]
    /\ name = [n \in Nodes |->
                  CASE n = 0 -> RootName
                    [] n = 1 -> [base |-> "dev", slash |-> FALSE]
                    [] n = 2 -> [base |-> "null", slash |-> FALSE]
                    [] OTHER -> NoName]
    /\ parent = [n \in Nodes |-> CASE n = 0 -> -1 [] n = 2 -> 1 [] OTHER -> 0]
    /\ first_child = [n \in Nodes |-> CASE n = 0 -> 1 [] n = 1 -> 2
                                        [] n = 2 -> -1 [] OTHER -> 0]
    /\ next_sibling = [n \in Nodes |-> IF n <= 2 THEN -1 ELSE 0]

-----------------------------------------------------------------------------
(* Looking things up.                                                      *)

\* The k-th entry on the list of directory d, -1 behind its end.
Nth(d, k) ==
    LET behind == [n \in NodeOrNone |-> IF n = -1 THEN -1 ELSE next_sibling[n]]
        c[i \in 0..k] == IF i = 0 THEN first_child[d] ELSE behind[c[i - 1]]
    IN  c[k]

Listed(d) == {Nth(d, k) : k \in 0..MaxNodes} \ {-1}

\* lookup_child: the first entry of that name, or -1.
lookup_child(d, nm) ==
    LET skip == [n \in NodeOrNone |->
                    IF n = -1 \/ name[n] = nm THEN n ELSE next_sibling[n]]
        c[i \in 0..MaxNodes] == IF i = 0 THEN first_child[d] ELSE skip[c[i - 1]]
    IN  c[MaxNodes]

\* One component of resolve_path, from any node; -1 is a walk that failed.
Follow(comp) ==
    [n \in NodeOrNone |->
        CASE n = -1 -> -1
          [] n # -1 /\ comp = "." -> n
          [] n # -1 /\ comp = ".." -> IF parent[n] >= 0 THEN parent[n] ELSE 0
          [] OTHER -> lookup_child(n, [base |-> comp, slash |-> FALSE])]

\* resolve_path: the node the components lead to, or -1.  A trailing slash
\* is skipped.
resolve_path(comps) ==
    LET at[k \in 0..Len(comps)] ==
            IF k = 0 THEN 0 ELSE Follow(comps[k])[at[k - 1]]
    IN  at[Len(comps)]

Paths == [comps : Walks, slash : BOOLEAN]

-----------------------------------------------------------------------------
(* Operations.  One that fails, or a creation that finds the path in place *)
(* already, changes nothing.                                               *)

\* alloc_node takes the first node of type NONE.
FreeNode(n) == n \in Nodes \ Live /\ \A m \in Nodes : m < n => m \in Live

\* Mutant: the node is not put on the list of the directory.
create_child_unlisted(d, nm, t) ==
    \E n \in Nodes :
        /\ FreeNode(n)
        /\ type' = [type EXCEPT ![n] = t]
        /\ name' = [name EXCEPT ![n] = nm]
        /\ parent' = [parent EXCEPT ![n] = d]
        /\ first_child' = [first_child EXCEPT ![n] = -1]
        /\ next_sibling' = [next_sibling EXCEPT ![n] = -1]

\* create_child puts the new node at the head of the list.
create_child(d, nm, t) ==
    \E n \in Nodes :
        /\ FreeNode(n)
        /\ type' = [type EXCEPT ![n] = t]
        /\ name' = [name EXCEPT ![n] = nm]
        /\ parent' = [parent EXCEPT ![n] = d]
        /\ first_child' = [first_child EXCEPT ![n] = -1, ![d] = n]
        /\ next_sibling' = [next_sibling EXCEPT ![n] = first_child[d]]

\* split_parent: all but the last component, and the leaf as it is stored.
SplitParent(path) == SubSeq(path.comps, 1, Len(path.comps) - 1)
SplitLeaf(path) == [base |-> path.comps[Len(path.comps)], slash |-> path.slash]

tmpfs_create_path(path, t) ==
    LET d == resolve_path(SplitParent(path))
    IN  /\ resolve_path(path.comps) = -1
        /\ d # -1
        /\ type[d] = "DIR"
        /\ create_child(d, SplitLeaf(path), t)

\* Mutant: only the head of the list is looked at.
Unlink_head(id) ==
    LET d == parent[id]
    IN  /\ first_child' = [first_child EXCEPT
                              ![d] = IF @ = id THEN next_sibling[id] ELSE @,
                              ![id] = 0]
        /\ next_sibling' = [next_sibling EXCEPT ![id] = 0]

\* Taking id off its parent's list and clearing its links (the kmemset).
Unlink(id) ==
    LET d == parent[id]
    IN  /\ first_child' = [first_child EXCEPT
                              ![d] = IF @ = id THEN next_sibling[id] ELSE @,
                              ![id] = 0]
        /\ next_sibling' = [m \in Nodes |->
              CASE m = id -> 0
                [] m # id /\ first_child[d] # id /\ m \in Listed(d)
                          /\ next_sibling[m] = id -> next_sibling[id]
                [] OTHER -> next_sibling[m]]

\* Mutant: a directory with entries may be removed.
tmpfs_remove_path_full(path, want_dir) ==
    LET id == resolve_path(path.comps)
    IN  /\ id > 0
        /\ want_dir <=> type[id] = "DIR"
        /\ Unlink(id)
        /\ type' = [type EXCEPT ![id] = "NONE"]
        /\ name' = [name EXCEPT ![id] = NoName]
        /\ parent' = [parent EXCEPT ![id] = 0]

tmpfs_remove_path(path, want_dir) ==
    LET id == resolve_path(path.comps)
    IN  /\ id > 0
        /\ want_dir <=> type[id] = "DIR"
        /\ type[id] = "DIR" => first_child[id] = -1
        /\ Unlink(id)
        /\ type' = [type EXCEPT ![id] = "NONE"]
        /\ name' = [name EXCEPT ![id] = NoName]
        /\ parent' = [parent EXCEPT ![id] = 0]

Next ==
    \E path \in Paths :
        \/ tmpfs_create_path(path, "FILE")     \* open with O_CREAT
        \/ tmpfs_create_path(path, "DIR")      \* mkdir
        \/ tmpfs_remove_path(path, TRUE)       \* rmdir
        \/ tmpfs_remove_path(path, FALSE)      \* unlink

Spec == Init /\ [][Next]_vars

-----------------------------------------------------------------------------
(* Properties.                                                             *)

\* Every list ends, and holds exactly the live nodes whose parent it is:
\* whatever was created and removed, no entry is lost, listed twice, listed
\* in the wrong directory or left behind as a freed node.
ListsExact ==
    \A d \in Live :
        /\ Nth(d, MaxNodes) = -1
        /\ Listed(d) = {n \in Live \ {0} : parent[n] = d}

\* A path that was created leads to the new node from then on, unless it
\* was written with a trailing slash.
CreatedIsFound ==
    [][\A n \in Live' \ Live : \A path \in Paths :
          tmpfs_create_path(path, type'[n]) =>
              resolve_path(path.comps)' = IF path.slash THEN -1 ELSE n]_vars

\* The lists implement a tree of named entries.
Tree == INSTANCE DirTree
ImplementsTree == Tree!Spec

=============================================================================
