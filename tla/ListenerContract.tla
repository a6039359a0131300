-------------------------- MODULE ListenerContract --------------------------
(***************************************************************************)
(* What a stack of listeners promises (the comment of class ListenerStk):  *)
(* in each call every listener registered when the Pre functions are done  *)
(* has been told; a listener told and not removed since is told once more, *)
(* with Post, and nobody else; Post goes in reverse order of Pre; calls    *)
(* nest.                                                                   *)
(***************************************************************************)
EXTENDS Integers

CONSTANTS Listeners, MaxDepth

VARIABLES
    registered, \* the listeners added and not removed
    depth,      \* calls under way, each nested in the one before
    phase,      \* of each call, see ListenerStk
    since       \* since[d][l]: when Pre of l was called in call d, 0 if l is owed no Post

vars == <<registered, depth, phase, since>>

Nobody == [l \in Listeners |-> 0]

Init ==
    /\ registered = {}
    /\ depth = 0
    /\ phase = [d \in 1 .. MaxDepth |-> "free"]
    /\ since = [d \in 1 .. MaxDepth |-> Nobody]

Moves(from, to) ==
    /\ depth > 0
    /\ phase[depth] = from
    /\ phase' = [phase EXCEPT ![depth] = to]
    /\ UNCHANGED <<registered, depth>>

Start ==
    /\ depth < MaxDepth
    /\ depth' = depth + 1
    /\ phase' = [phase EXCEPT ![depth + 1] = "pre"]
    /\ since' = [since EXCEPT ![depth + 1] = Nobody]
    /\ UNCHANGED registered

\* Pre comes after the Pre of all others.
CallPre(l) ==
    /\ Moves("pre", "inPre")
    /\ l \in registered
    /\ since[depth][l] = 0
    /\ \A k \in Listeners : since[depth][k] < since'[depth][l]
    /\ since' = [since EXCEPT ![depth][l] = since'[depth][l]]

PreReturns == Moves("inPre", "pre") /\ UNCHANGED since

PreDone ==
    /\ Moves("pre", "between")
    /\ \A l \in registered : since[depth][l] > 0
    /\ UNCHANGED since

PostBegins == Moves("between", "post") /\ UNCHANGED since

\* The latest Pre has its Post first.
CallPost(l) ==
    /\ Moves("post", "inPost")
    /\ since[depth][l] > 0
    /\ \A k \in Listeners : since[depth][k] <= since[depth][l]
    /\ since' = [since EXCEPT ![depth][l] = 0]

PostReturns == Moves("inPost", "post") /\ UNCHANGED since

\* Nobody is left without its Post.
Ends ==
    /\ depth > 0
    /\ phase[depth] = "post"
    /\ since[depth] = Nobody
    /\ depth' = depth - 1
    /\ phase' = [phase EXCEPT ![depth] = "free"]
    /\ UNCHANGED <<registered, since>>

Add(l) ==
    /\ registered' = registered \cup {l}
    /\ UNCHANGED <<depth, phase, since>>

\* One that is removed is not called any more, in no call under way.
Remove(l) ==
    /\ registered' = registered \ {l}
    /\ since' = [d \in 1 .. MaxDepth |-> [since[d] EXCEPT ![l] = 0]]
    /\ UNCHANGED <<depth, phase>>

Next ==
    \/ Start \/ PreReturns \/ PreDone \/ PostBegins \/ PostReturns \/ Ends
    \/ \E l \in Listeners : CallPre(l) \/ CallPost(l) \/ Add(l) \/ Remove(l)

Spec == Init /\ [][Next]_vars
=============================================================================
