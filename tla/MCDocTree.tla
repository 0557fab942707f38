----------------------------- MODULE MCDocTree -----------------------------
(***************************************************************************)
(* An instance of the directory tree for TLC: rows named by the numbers of *)
(* their ids, a tree with one level of folders more than files.html has.   *)
(***************************************************************************)
EXTENDS DocTree, SequencesExt

MCFolders == {<<0>>, <<0, 0>>, <<0, 1>>, <<0, 0, 0>>, <<0, 0, 1>>, <<0, 1, 0>>, <<0, 1, 1>>}
MCRows == MCFolders \cup {Append(r, 0) : r \in MCFolders} \cup {<<0, 2>>, <<0, 1, 0, 1>>}
MCLevel == [r \in MCRows |-> Len(r)]
MCUnder == [r \in MCRows |-> {s \in MCRows : IsStrictPrefix(r, s)}]
MCFirst == [r \in MCFolders |-> Append(r, 0)]
=============================================================================
