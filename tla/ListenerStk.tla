----------------------------- MODULE ListenerStk -----------------------------
(***************************************************************************)
(* Private::ListenerStk, the stacks of listeners of a level: the listeners *)
(* of the board, of the blocks, of scrolls and freezes.  Before and after  *)
(* each of its actions the level calls callPre and callPost; the listeners *)
(* called, and what the level does in between, may add and remove          *)
(* listeners and start a further action, nested in the first.              *)
(***************************************************************************)
EXTENDS Integers, Sequences

CONSTANTS
    Listeners, \* the objects that can listen
    None,      \* nullptr
    MaxDepth,  \* bound: nested calls
    MaxAdds    \* bound: calls of addListener

ASSUME ConstantsAssumption ==
    /\ None \notin Listeners
    /\ MaxDepth \in Nat
    /\ MaxAdds \in Nat

Calls == 1 .. MaxDepth

VARIABLES
    count, \* m_oListeners: how many times each listener was added
    depth, \* the length of m_oInUsePreCalled; the others are free
    \* of each PreCalled, the outermost first
    pre,   \* m_aPreListener
    slot,  \* m_oPreListener: the position in pre, 0 if the key is missing
    dirty, \* m_bDirty
    todo,  \* the listeners the iterator of callPre has yet to reach
    phase, \* "pre" and "post" in callPre and callPost, "inPre" and "inPost"
           \* in a listener they call, "between" them, or "free"
    adds   \* calls of addListener so far

callVars == <<pre, slot, dirty, todo, phase>>
vars     == <<count, depth, callVars, adds>>

Registered == {l \in Listeners : count[l] > 0}

\* Code other than the stack's is running, and may call it.
CodeRuns == depth > 0 => phase[depth] \in {"inPre", "between", "inPost"}

InPhase(p) == depth > 0 /\ phase[depth] = p

Goto(p) == phase' = [phase EXCEPT ![depth] = p]

NoSlot == [l \in Listeners |-> 0]

-----------------------------------------------------------------------------
(* Adding and removing *)

\* Faulty variant: callPre goes on as if nobody had been added.
AddListenerClean(l) ==
    /\ CodeRuns
    /\ adds < MaxAdds
    /\ adds' = adds + 1
    /\ count' = [count EXCEPT ![l] = @ + 1]
    /\ UNCHANGED <<depth, callVars>>

\* addListener, with listenerPreCalledDirty(nullptr)
AddListener(l) ==
    /\ CodeRuns
    /\ adds < MaxAdds
    /\ adds' = adds + 1
    /\ count' = [count EXCEPT ![l] = @ + 1]
    /\ dirty' = [d \in Calls |-> d <= depth \/ dirty[d]]
    /\ UNCHANGED <<depth, pre, slot, todo, phase>>

\* Faulty variant: only the innermost call forgets the listener.
ForgetInnermost(l) ==
    /\ pre'  = [d \in Calls |-> [i \in 1 .. Len(pre[d]) |->
                   IF d = depth /\ slot[d][l] = i THEN None ELSE pre[d][i]]]
    /\ slot' = [d \in Calls |-> IF d = depth THEN [slot[d] EXCEPT ![l] = 0] ELSE slot[d]]

\* PreCalled::remove in each call under way.
Forget(l) ==
    /\ pre'  = [d \in Calls |-> [i \in 1 .. Len(pre[d]) |->
                   IF d <= depth /\ slot[d][l] = i THEN None ELSE pre[d][i]]]
    /\ slot' = [d \in Calls |-> IF d <= depth THEN [slot[d] EXCEPT ![l] = 0] ELSE slot[d]]

\* Faulty variant: one removal too many is counted.
RemoveListenerAgain(l) ==
    /\ CodeRuns
    /\ count' = [count EXCEPT ![l] = @ - 1]
    /\ UNCHANGED <<depth, callVars, adds>>

\* removeListener, with listenerPreCalledDirty(l) when it was added once.
RemoveListener(l) ==
    /\ CodeRuns
    /\ count[l] > 0
    /\ count' = [count EXCEPT ![l] = @ - 1]
    /\ IF count[l] = 1
       THEN /\ Forget(l)
            /\ dirty' = [d \in Calls |-> d <= depth \/ dirty[d]]
       ELSE UNCHANGED <<pre, slot, dirty>>
    /\ UNCHANGED <<depth, todo, phase, adds>>

-----------------------------------------------------------------------------
(* A call *)

\* grabPreCalled and the begin of callPre.
Start ==
    /\ CodeRuns
    /\ depth < MaxDepth
    /\ depth' = depth + 1
    /\ pre'   = [pre   EXCEPT ![depth + 1] = <<>>]
    /\ slot'  = [slot  EXCEPT ![depth + 1] = NoSlot]
    /\ dirty' = [dirty EXCEPT ![depth + 1] = FALSE]
    /\ todo'  = [todo  EXCEPT ![depth + 1] = Registered]
    /\ phase' = [phase EXCEPT ![depth + 1] = "pre"]
    /\ UNCHANGED <<count, adds>>

\* The iterator of callPre moves past l.
Pass(l) ==
    /\ InPhase("pre")
    /\ l \in todo[depth]
    /\ todo' = [todo EXCEPT ![depth] = @ \ {l}]
    /\ UNCHANGED <<count, depth, dirty, adds>>

\* callPre: l was called already.
SkipPre(l) ==
    /\ Pass(l)
    /\ slot[depth][l] # 0
    /\ UNCHANGED <<pre, slot, phase>>

\* callPre: pushBack and the call.
CallPre(l) ==
    /\ Pass(l)
    /\ slot[depth][l] = 0
    /\ pre'  = [pre  EXCEPT ![depth] = Append(@, l)]
    /\ slot' = [slot EXCEPT ![depth][l] = Len(pre[depth]) + 1]
    /\ Goto("inPre")

\* callPre: back from the listener; when dirty, from the first listener again.
PreReturns ==
    /\ InPhase("inPre")
    /\ todo' = IF dirty[depth] THEN [todo EXCEPT ![depth] = Registered] ELSE todo
    /\ dirty' = [dirty EXCEPT ![depth] = FALSE]
    /\ Goto("pre")
    /\ UNCHANGED <<count, depth, pre, slot, adds>>

\* callPre returns.
PreDone ==
    /\ InPhase("pre")
    /\ todo[depth] = {}
    /\ Goto("between")
    /\ UNCHANGED <<count, depth, pre, slot, dirty, todo, adds>>

\* The level has done its work and calls callPost.
PostBegins ==
    /\ InPhase("between")
    /\ Goto("post")
    /\ UNCHANGED <<count, depth, pre, slot, dirty, todo, adds>>

\* Faulty variant: a hole ends the loop.
LastUpToHole(i) ==
    /\ i \in DOMAIN pre[depth]
    /\ i = Len(pre[depth])
    /\ pre[depth][i] # None

\* popBack: the last listener that was not removed is at i.
IsLast(i) ==
    /\ i \in DOMAIN pre[depth]
    /\ pre[depth][i] # None
    /\ \A j \in DOMAIN pre[depth] : j > i => pre[depth][j] = None

\* callPost: popBack and the call.
CallPost(i) ==
    /\ InPhase("post")
    /\ IsLast(i)
    /\ pre'  = [pre  EXCEPT ![depth] = SubSeq(@, 1, i - 1)]
    /\ slot' = [slot EXCEPT ![depth][pre[depth][i]] = 0]
    /\ Goto("inPost")
    /\ UNCHANGED <<count, depth, dirty, todo, adds>>

\* callPost: back from the listener.
PostReturns ==
    /\ InPhase("inPost")
    /\ Goto("post")
    /\ UNCHANGED <<count, depth, pre, slot, dirty, todo, adds>>

\* callPost returns with nobody left; freePreCalled.
Ends ==
    /\ InPhase("post")
    /\ \A i \in DOMAIN pre[depth] : ~IsLast(i)
    /\ depth' = depth - 1
    /\ pre' = [pre EXCEPT ![depth] = <<>>]
    /\ Goto("free")
    /\ UNCHANGED <<count, slot, dirty, todo, adds>>

-----------------------------------------------------------------------------
Init ==
    /\ count = [l \in Listeners |-> 0]
    /\ depth = 0
    /\ pre   = [d \in Calls |-> <<>>]
    /\ slot  = [d \in Calls |-> NoSlot]
    /\ dirty = [d \in Calls |-> FALSE]
    /\ todo  = [d \in Calls |-> {}]
    /\ phase = [d \in Calls |-> "free"]
    /\ adds = 0

Next ==
    \/ Start \/ PreReturns \/ PreDone \/ PostBegins \/ PostReturns \/ Ends
    \/ \E l \in Listeners : AddListener(l) \/ RemoveListener(l) \/ SkipPre(l) \/ CallPre(l)
    \/ \E d \in Calls : \E i \in DOMAIN pre[d] : d = depth /\ CallPost(i)

Spec == Init /\ [][Next]_vars

-----------------------------------------------------------------------------
(* Properties *)

TypeOK ==
    /\ count \in [Listeners -> Nat]
    /\ depth \in 0 .. MaxDepth
    /\ pre \in [Calls -> Seq(Listeners \cup {None})]
    /\ slot \in [Calls -> [Listeners -> Nat]]
    /\ dirty \in [Calls -> BOOLEAN]
    /\ todo \in [Calls -> SUBSET Listeners]
    /\ phase \in [Calls -> {"free", "pre", "inPre", "between", "post", "inPost"}]
    /\ adds \in Nat

(* The vector and the map of a call agree, whatever was removed in the     *)
(* middle of it: a listener is at the position the map has for it and      *)
(* nowhere else (pushBack, popBack and remove keep both).                  *)
SlotsAgree ==
    \A d \in 1 .. depth : \A l \in Listeners :
        /\ slot[d][l] <= Len(pre[d])
        /\ \A i \in 1 .. Len(pre[d]) : pre[d][i] = l <=> slot[d][l] = i

(* A listener that has been removed, and may be gone, is in none of the    *)
(* calls under way: neither callPre nor callPost can reach it              *)
(* (removeListener, called from any of the nested calls).                  *)
RemovedNotReached ==
    \A d \in 1 .. depth : \A l \in Listeners : count[l] = 0 =>
        /\ slot[d][l] = 0
        /\ \A i \in 1 .. Len(pre[d]) : pre[d][i] # l
        /\ l \in todo[d] /\ phase[d] \in {"pre", "inPre"} => dirty[d]

C == INSTANCE ListenerContract WITH
        registered <- Registered,
        since      <- slot

(* The stack keeps its promise: it implements ListenerContract, with the   *)
(* position in the vector as the time of a Pre (class ListenerStk).        *)
Contract == C!Spec
=============================================================================
