------------------------------ MODULE MCFileMenu ------------------------------
(* An instance of FileMenu for TLC: a directory with one file, and a disk.     *)
EXTENDS FileMenu

CONSTANT V      \* the content of the file

MCTrees ==
    {[q \in Places |-> CASE q \in {<<>>, <<"a">>, <<"b">>} -> "dir"
                         [] q = <<"a", "a">> -> V
                         [] OTHER -> "none"]}
================================================================================
