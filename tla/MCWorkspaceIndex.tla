-------------------------- MODULE MCWorkspaceIndex --------------------------
(***************************************************************************)
(* Instances of WorkspaceIndex for TLC: one or two files, texts and models,  *)
(* overlapping reindexes, a chat turn's load.                                *)
(***************************************************************************)
EXTENDS WorkspaceIndex, TLC

CONSTANTS f1, f2, a, b, m1, m2, j1, j2, r1

OneFile == {f1}
TwoFiles == {f1, f2}
OneText == {a}
TwoTexts == {a, b}
MCBlanks == {"blank"}
OneModel == {m1}
TwoModels == {m1, m2}
TwoJobs == {j1, j2}
NoReaders == {}
OneReader == {r1}

\* The specification tells no file, text, model or reindex from another.
Alike == Permutations(Files) \union Permutations(Texts) \union Permutations(Models)
           \union Permutations(Jobs)
=============================================================================
