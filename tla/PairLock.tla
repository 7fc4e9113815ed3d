------------------------------ MODULE PairLock ------------------------------
(***************************************************************************)
(* What the in-flight guard of the desktop app promises: a task syncs at   *)
(* most one pair at a time and no pair is synced by two tasks.             *)
(***************************************************************************)
CONSTANTS Task, Pair

VARIABLE held   \* which task has which pair

Free(t, p) == \A h \in held : h[1] # t /\ h[2] # p

Acquire(t, p) == Free(t, p) /\ held' = held \cup {<<t, p>>}
Release(t, p) == <<t, p>> \in held /\ held' = held \ {<<t, p>>}

\* The app dies.
ReleaseAll == held' = {}

Init == held = {}
Next == ReleaseAll \/ \E t \in Task, p \in Pair : Acquire(t, p) \/ Release(t, p)
Spec == Init /\ [][Next]_held

\* No two tasks sync one pair.
Exclusive == \A g, h \in held : g[2] = h[2] => g = h
=============================================================================
