---------------------------- MODULE MCFileSystem ----------------------------
(***************************************************************************)
(* FileSystem with the directories the archive is made from.  There is     *)
(* room for one new node, so a second file is left out; a name the kernel  *)
(* made before carries data that the reader has to step over.              *)
(***************************************************************************)
EXTENDS FileSystem, TLC

File(chars, extra, data) ==
    [name |-> "new", chars |-> chars, extra |-> extra, dir |-> FALSE, data |-> data]
Dir == [name |-> "new", chars |-> 4, extra |-> 0, dir |-> TRUE, data |-> <<>>]
Known(data) == [name |-> "known", chars |-> 3, extra |-> 0, dir |-> data = <<>>, data |-> data]

MCTrees == {
    <<>>,
    <<Known(<<>>), Dir>>,
    <<Known(<<1>>), File(2, 0, <<1, 0, 1>>)>>,
    <<File(5, 0, <<0, 1>>), File(4, 0, <<1>>)>>,
    <<File(1, 0, <<>>), File(3, 0, <<1>>)>>,
    <<File(3, 1, <<1>>), File(1, 0, <<1>>)>> }

\* Tasks are interchangeable.
Symmetry == Permutations(Procs)
=============================================================================
