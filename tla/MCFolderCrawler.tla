--------------------------- MODULE MCFolderCrawler ---------------------------
(* A tree of four directories and two files for TLC.                        *)
EXTENDS FolderCrawler, TLC

TreeDirs  == {"root", "a", "b", "c"}
TreeFiles == {"f", "g"}

(* root holds a, b and f; a holds c and g.                                  *)
TreeParent == ("a" :> "root") @@ ("b" :> "root") @@ ("f" :> "root")
              @@ ("c" :> "a") @@ ("g" :> "a")
=============================================================================
