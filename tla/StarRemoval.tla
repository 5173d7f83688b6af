------------------------------ MODULE StarRemoval ------------------------------
(***************************************************************************)
(* What the removals of the B*- and the B*+-tree share.  remove() may try  *)
(* two subtrees one after the other, so a call that finds nothing goes on  *)
(* with the subtree its caller has left to try.  Three pages with few keys *)
(* become two.                                                             *)
(***************************************************************************)
EXTENDS StarBase, TreeRemoval

VARIABLES sought,     \* the key that the pointer k of remove() points to
          fallback    \* the calls of remove() still to be made if this one fails

removeVars == <<sought, fallback>>
starVars == <<vars, removeVars>>

\* Fault: the answer of the recursive call is not passed on.
DoneUnreported(r) ==
    /\ RemoveAnswers(0)
    /\ fallback' = <<>>
    /\ sought' = k'

\* The public call returns r; the next remove() of removeAll() starts afresh.
Done(r) ==
    /\ RemoveAnswers(r)
    /\ fallback' = <<>>
    /\ sought' = k'

\* Fault: the subtree that was tried is tried again.
FailRepeating ==
    \/ fallback = <<>> /\ Done(0)
    \/ /\ fallback # <<>>
       /\ Continue("remove", Head(fallback).page)
       /\ sought' = Head(fallback).key
       /\ UNCHANGED <<stack, fallback>>

\* remove() returns false.
Fail ==
    \/ fallback = <<>> /\ Done(0)
    \/ /\ fallback # <<>>
       /\ Continue("remove", Head(fallback).page)
       /\ sought' = Head(fallback).key
       /\ fallback' = Tail(fallback)
       /\ UNCHANGED stack

-------------------------------------------------------------------------------
CanGive(n) == Len(pages[n].keys) >= MinKeys + 1

\* The children under cursors i, i + 1 and i + 2 as one layout.
JoinThree(p, i) ==
    Joined(Joined(pages[p.cursors[i]], p.keys[i], pages[p.cursors[i + 1]]),
           p.keys[i + 1], pages[p.cursors[i + 2]])

\* The cursors of the right one of three pages are copied to a place that
\* depends on the number of its own keys, not on that of the middle one.
CursorsFit(p, i) ==
    \/ pages[p.cursors[i]].leaf
    \/ Len(pages[p.cursors[i + 1]].keys) = Len(pages[p.cursors[i + 2]].keys)

\* Fault: the right page is not freed.
MergeThreeLeaking(w, i, x) ==
    LET p == Data(w)
        all == JoinThree(p, i)
        node == [p EXCEPT !.keys = [RemoveAt(@, i + 1) EXCEPT ![i] = x],
                          !.cursors = RemoveAt(@, i + 2)]
    IN  /\ CursorsFit(p, i)
        /\ Moved(w, [node |-> node,
                     disk |-> [pages EXCEPT ![p.cursors[i]] = LeftOf(all, Half(all)),
                                            ![p.cursors[i + 1]] = RightOf(all, Half(all))]])
        /\ UNCHANGED freePages

\* Three children become two, x the key between them; the right page is freed.
MergeThree(w, i, x) ==
    LET p == Data(w)
        all == JoinThree(p, i)
        node == [p EXCEPT !.keys = [RemoveAt(@, i + 1) EXCEPT ![i] = x],
                          !.cursors = RemoveAt(@, i + 2)]
    IN  /\ CursorsFit(p, i)
        /\ Moved(w, [node |-> node,
                     disk |-> [pages EXCEPT ![p.cursors[i]] = LeftOf(all, Half(all)),
                                            ![p.cursors[i + 1]] = RightOf(all, Half(all))]])
        /\ freePages' = Append(freePages, p.cursors[i + 2])

mergeThreeChildren(w, i) ==
    LET all == JoinThree(Data(w), i) IN MergeThree(w, i, MedianOf(all, Half(all)))

\* remove() goes on with page n; with the child c itself afterwards if it was
\* merged with its neighbour n, even when the merge has freed it.
TryBoth(n, c) ==
    /\ Continue("remove", n)
    /\ fallback' = IF n = c THEN fallback
                   ELSE <<[page |-> c, key |-> sought]>> \o fallback
    /\ UNCHANGED sought

-------------------------------------------------------------------------------
\* The merge of three inner pages puts the cursors of the right one where they
\* belong: three neighbours that cannot give a key to each other all have equally
\* many keys.
ThreeMergesFit ==
    \A n \in Reachable :
        \A i \in 1..Len(pages[n].cursors) - 2 :
            (\A j \in i..i + 2 : ~CanGive(pages[n].cursors[j])) => CursorsFit(pages[n], i)

-------------------------------------------------------------------------------
StarInit == Init /\ sought = NoKey /\ fallback = <<>>

RemoveCalls ==
    \E x \in Keys : (RemoveCall(x) \/ RemoveAllCall(x)) /\ sought' = x /\ UNCHANGED fallback
===============================================================================
