---------------------------- MODULE MCSyncTree ------------------------------
(***************************************************************************)
(* A folder with a file and a nested folder in it, and the paths the two   *)
(* would have at the root of the pair.                                     *)
(***************************************************************************)
EXTENDS SyncTree, TLC

NodeMC   == {"a", "a/b", "a/b/x", "b", "b/x", "x"}
ParentMC == "a" :> "/" @@ "b" :> "/" @@ "x" :> "/" @@ "a/b" :> "a" @@ "a/b/x" :> "a/b" @@ "b/x" :> "b"
NameMC   == "a" :> "a" @@ "b" :> "b" @@ "x" :> "x" @@ "a/b" :> "b" @@ "a/b/x" :> "x" @@ "b/x" :> "x"
RECURSIVE UpsOf(_), TailsOf(_)
UpsOf(n)   == IF ParentMC[n] = "/" THEN {} ELSE {ParentMC[n]} \cup UpsOf(ParentMC[n])
TailsOf(n) == {q \in NodeMC : /\ NameMC[q] = NameMC[n]
                              /\ \/ q = n \/ ParentMC[q] = "/"
                                 \/ ParentMC[n] # "/" /\ ParentMC[q] \in TailsOf(ParentMC[n])}
UpsMC      == [n \in NodeMC |-> UpsOf(n)]
TailsMC    == [n \in NodeMC |-> TailsOf(n)]

EmptyTree == [n \in NodeMC |-> None]
DeepTree(c) == [n \in NodeMC |-> CASE n \in {"a", "a/b"} -> Dir [] n = "a/b/x" -> c [] OTHER -> None]
TreesMC == {EmptyTree, DeepTree(CHOOSE c \in Content : TRUE)}
FoldersMC == {"a", "a/b", "b"}
=============================================================================
