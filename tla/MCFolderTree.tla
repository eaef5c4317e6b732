------------------------------ MODULE MCFolderTree -----------------------------
(* Instances of FolderTree for TLC. *)
EXTENDS FolderTree, TLC

Symmetric == Permutations(Folder) \cup Permutations(Chat)
             \cup Permutations(Name) \cup Permutations(Page)
================================================================================
