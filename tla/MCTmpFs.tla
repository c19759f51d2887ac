------------------------------ MODULE MCTmpFs ------------------------------
(***************************************************************************)
(* TmpFs with three names, so that a directory can have a head, a middle   *)
(* and an end.  All paths of up to two components, and some of three: down *)
(* into a directory of a directory, and through . and .. on the way.       *)
(* Tasks change to the root, up, down, and stay where they are.            *)
(***************************************************************************)
EXTENDS Cwd

SmallWalks ==
    UNION {[1..k -> Names \cup {".."}] : k \in 1..2}
    \cup {<<"x", via, leaf>> : via \in {"x", ".", ".."}, leaf \in Names}

SmallDirs ==
    {[comps |-> <<>>, slash |-> FALSE], [comps |-> <<"x">>, slash |-> FALSE],
     [comps |-> <<"..">>, slash |-> FALSE], [comps |-> <<"dev">>, slash |-> TRUE]}

=============================================================================
