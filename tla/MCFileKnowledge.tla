-------------------------- MODULE MCFileKnowledge --------------------------
(* Small instance of FileKnowledge for TLC: two agents, one request thread. *)
EXTENDS FileKnowledge

CONSTANTS x, y

XY == <<x, y>>
MCEditLists == {<<[oldText |-> x, newText |-> y]>>, <<[oldText |-> y, newText |-> x]>>}
MCWriteContents == {XY}
MCOfferedBases == {None}

=============================================================================
