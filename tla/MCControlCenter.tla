---------------------------- MODULE MCControlCenter ----------------------------
(* An instance of ControlCenter for TLC. *)
EXTENDS ControlCenter, TLC

CONSTANTS P, Q,       \* the pages
          V, W        \* the contents of two files

(* a is a directory of the disk with a file in it, b another disk with a file. *)
MCTrees ==
    {[q \in Places |-> CASE q \in {<<>>, <<"a">>, <<"b">>} -> "dir"
                         [] q = <<"a", "a">> -> V
                         [] q = <<"b", "a">> -> W
                         [] OTHER -> "none"]}

(* Both pages on files, both on cron, or both where buttons run commands. *)
MCStarts == {[p \in Pages |-> s] : s \in {"files", "cron", "system"}}

(* The crontab and the files have no state in common: the shell is used beside *)
(* pages on cron, where its edits can meet another's.                          *)
ShellBesideCron == ed' # ed => \A p \in Pages : section[p] = "cron"

One(o, x)    == [op |-> o, path |-> x, dst |-> x]
Two(o, x, y) == [op |-> o, path |-> x, dst |-> y]
MCWanted ==
    P :> {One("create_dir", <<"a", "b">>), One("delete", <<"a">>), Two("copy", <<"a">>, <<"b">>),
          Two("move", <<"a">>, <<"b">>), Two("move", <<"a", "a">>, <<"b">>)}
    @@ Q :> {One("create_file", <<"c", "a">>), One("delete", <<"a", "a">>), One("find", <<"a">>),
             Two("copy", <<"b", "a">>, <<"a", "a">>), Two("move", <<"a">>, <<"c">>),
             Two("move", <<"b", "a">>, <<"c", "a">>)}
================================================================================
