------------------------- MODULE MCFileCoordinator -------------------------
(* Small instance of FileCoordinator for TLC. *)
EXTENDS FileCoordinator, TLC

CONSTANTS x, y

XY == <<x, y>>
XX == <<x, x>>

Replace(old, new) == [oldText |-> old, newText |-> new]

\* One call that exchanges the two tokens.  It turns XY and YX into each other, and
\* is refused on XX, which other programs leave: x occurs twice there and y nowhere.
MCEditLists == {<<Replace(x, y), Replace(y, x)>>}
MCWriteContents == {XY}
MCOfferedBases == {None, XY}
MCInitialDisk == {Absent, XY}
MCBypassContents == {XX}

\* Bound: what follows a bypassed change is explored until the first change of the
\* coordinator is recorded.
MCBypassBound == tampered # {} => \A p \in Paths : mutations[p] = <<>>

MCSymmetry == Permutations(Threads) \cup Permutations(Agents)

=============================================================================
