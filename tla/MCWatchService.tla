-------------------------- MODULE MCWatchService --------------------------
(* Model-checking instances of the watcher: a source file at the root, one *)
(* in a directory that comes and goes, a hidden file that becomes relevant *)
(* when a publication declares it, and a generated file that never is.     *)
EXTENDS WatchService, TLC

MCDirs == {"root", "sub", "ext"}
MCFiles == {"main", "inner", "input", "noise"}
MCDirOf == "main" :> "root" @@ "noise" :> "root" @@ "inner" :> "sub" @@ "input" :> "ext"
MCClass == [p \in MCFiles \cup MCDirs |->
    CASE p = "noise" -> "excluded" [] p \in {"input", "ext"} -> "hidden" [] OTHER -> "plain"]
MCPayloads == {
    [inputs |-> {"input"}, checked |-> {"input"}, valid |-> TRUE],
    [inputs |-> {"input"}, checked |-> {}, valid |-> TRUE],
    [inputs |-> {"noise"}, checked |-> {}, valid |-> TRUE],
    [inputs |-> {"main"}, checked |-> {"main"}, valid |-> FALSE]}
=============================================================================
