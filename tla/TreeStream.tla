----------------------------- MODULE TreeStream -----------------------------
(***************************************************************************)
(* TreeStreamerOnce (blob/tree.rs): reads the trees below some roots in a  *)
(* pool of threads and gives each of them once to its consumer, the loops  *)
(* of `check`, `copy` and `prune`.  The consumer puts the subtrees of what *)
(* it receives into an unbounded channel; the threads load them and answer *)
(* in a bounded one.  How many trees are on their way is counted for each  *)
(* root, and the stream ends when all roots are finished.                  *)
(*                                                                         *)
(* Abstractions.  A tree is a name with its subtrees; paths are left out.  *)
(***************************************************************************)
EXTENDS Naturals, Sequences, FiniteSets, SequencesExt

CONSTANTS Subtrees,     \* Subtrees[t]: the subtrees of tree t, in their order
          RootLists,    \* lists of roots
          BadTrees,     \* sets of trees that cannot be read
          Loader        \* the threads; as many as answers fit into the channel

Tree == DOMAIN Subtrees

ASSUME StreamAssumption ==
    /\ Subtrees \in [Tree -> Seq(Tree)]
    /\ RootLists \subseteq Seq(Tree)

VARIABLES roots, bad,
          new,          \* the roots still to be added by TreeStreamerOnce::new
          visited, queue_in, queue_out, loader,
          counter, finished_ids,
          consumer,     \* "new", "next", "done" or "error"
          got           \* trees given to the consumer

streamVars == <<roots, bad, new, visited, queue_in, queue_out, loader, counter, finished_ids, consumer, got>>

Waiting == <<>>         \* a thread waits for a tree
Ended == <<"ended">>
MaxTreeLoader == Cardinality(Loader)

StreamInit ==
    /\ roots \in RootLists /\ bad \in BadTrees
    /\ new = roots
    /\ visited = {} /\ queue_in = <<>> /\ queue_out = <<>>
    /\ loader = [l \in Loader |-> Waiting]
    /\ counter = [c \in DOMAIN roots |-> 0] /\ finished_ids = 0
    /\ consumer = "new" /\ got = <<>>

-----------------------------------------------------------------------------
\* add_pending for some trees: those that have not been visited are queued and counted.
Fresh(seen, ts) ==
    LET first[i \in 0 .. Len(ts)] ==
            IF i = 0 THEN <<>>
            ELSE IF ts[i] \in seen \cup Range(first[i - 1]) THEN first[i - 1] ELSE Append(first[i - 1], ts[i])
    IN  first[Len(ts)]
Unvisited(ts) == Fresh(visited, ts)
add_pending(ts, c) ==
    /\ visited' = visited \cup Range(ts)
    /\ queue_in' = queue_in \o [i \in DOMAIN Unvisited(ts) |-> <<Unvisited(ts)[i], c>>]

\* `new` adds the roots one after the other, while the threads are working.
AddRoot ==
    /\ consumer = "new" /\ new # <<>>
    /\ LET c == Len(roots) - Len(new) + 1
           known == Head(new) \in visited
       IN  /\ add_pending(<<Head(new)>>, c)
           /\ counter' = IF known THEN counter ELSE [counter EXCEPT ![c] = @ + 1]
           /\ finished_ids' = IF known THEN finished_ids + 1 ELSE finished_ids
    /\ new' = Tail(new)
    /\ UNCHANGED <<roots, bad, queue_out, loader, consumer, got>>

Started ==
    /\ consumer = "new" /\ new = <<>>
    /\ consumer' = "next"
    /\ UNCHANGED <<roots, bad, new, visited, queue_in, queue_out, loader, counter, finished_ids, got>>

\* A thread takes a tree, loads it and waits until there is room for the answer.
Take(l) ==
    /\ loader[l] = Waiting /\ queue_in # <<>>
    /\ loader' = [loader EXCEPT ![l] = Head(queue_in)]
    /\ queue_in' = Tail(queue_in)
    /\ UNCHANGED <<roots, bad, new, visited, queue_out, counter, finished_ids, consumer, got>>

Answer(l) ==
    /\ loader[l] \notin {Waiting, Ended} /\ consumer \in {"new", "next"}
    /\ Len(queue_out) < MaxTreeLoader
    /\ queue_out' = Append(queue_out, loader[l])
    /\ loader' = [loader EXCEPT ![l] = Waiting]
    /\ UNCHANGED <<roots, bad, new, visited, queue_in, counter, finished_ids, consumer, got>>

\* A thread ends when its channel is closed and empty, or panics when it cannot answer
\* because the consumer has left.
EndLoader(l) ==
    /\ consumer \in {"done", "error"}
    /\ loader[l] # Ended
    /\ loader[l] = Waiting => queue_in = <<>>
    /\ loader' = [loader EXCEPT ![l] = Ended]
    /\ UNCHANGED <<roots, bad, new, visited, queue_in, queue_out, counter, finished_ids, consumer, got>>

\* Mutant of Counted: a tree is counted off before its subtrees are counted.
CountedFirst(c, n) == [left |-> counter[c] + n - 1, finished |-> counter[c] = 1]

\* What a tree with n new subtrees does to the counter of its root.
Counted(c, n) == [left |-> counter[c] + n - 1, finished |-> counter[c] + n = 1]

\* next: a tree is received, and its subtrees are queued.
Receive ==
    /\ consumer = "next" /\ finished_ids < Len(counter) /\ queue_out # <<>>
    /\ Head(queue_out)[1] \notin bad
    /\ LET t == Head(queue_out)[1]
           c == Head(queue_out)[2]
           count == Counted(c, Len(Unvisited(Subtrees[t])))
       IN  /\ add_pending(Subtrees[t], c)
           /\ counter' = [counter EXCEPT ![c] = count.left]
           /\ finished_ids' = IF count.finished THEN finished_ids + 1 ELSE finished_ids
           /\ got' = Append(got, t)
    /\ queue_out' = Tail(queue_out)
    /\ UNCHANGED <<roots, bad, new, loader, consumer>>

\* Mutant of ReceiveError: the consumer goes on with the next tree.
SkipError ==
    /\ consumer = "next" /\ finished_ids < Len(counter) /\ queue_out # <<>>
    /\ Head(queue_out)[1] \in bad
    /\ queue_out' = Tail(queue_out)
    /\ UNCHANGED <<roots, bad, new, visited, queue_in, loader, counter, finished_ids, consumer, got>>

\* An error is given to the consumer, who stops there.
ReceiveError ==
    /\ consumer = "next" /\ finished_ids < Len(counter) /\ queue_out # <<>>
    /\ Head(queue_out)[1] \in bad
    /\ queue_out' = Tail(queue_out)
    /\ consumer' = "error"
    /\ UNCHANGED <<roots, bad, new, visited, queue_in, loader, counter, finished_ids, got>>

\* All roots are finished: the channel to the threads is closed.
Finish ==
    /\ consumer = "next" /\ finished_ids = Len(counter)
    /\ consumer' = "done"
    /\ UNCHANGED <<roots, bad, new, visited, queue_in, queue_out, loader, counter, finished_ids, got>>

StreamNext ==
    \/ AddRoot \/ Started \/ Receive \/ ReceiveError \/ Finish
    \/ \E l \in Loader : Take(l) \/ Answer(l) \/ EndLoader(l)

\* The consumer asks for the next tree until it gets none, and threads run.
StreamSpec == StreamInit /\ [][StreamNext]_streamVars /\ WF_streamVars(StreamNext)

-----------------------------------------------------------------------------
(***************************************************************************)
(* Properties                                                              *)
(***************************************************************************)

\* The trees below the roots: the smallest set that has the roots and, with a tree, its subtrees.
SubtreesIn(T) == Range(roots) \subseteq T /\ \A t \in T : Range(Subtrees[t]) \subseteq T
Reachable == {t \in Tree : \A T \in SUBSET Tree : SubtreesIn(T) => t \in T}

\* No tree is given to the consumer twice, whichever roots share it and however the
\* threads interleave, and a stream that ends without an error has given all trees
\* below its roots: prune takes all other trees as unused.
StreamedExactly ==
    /\ \A i, j \in DOMAIN got : got[i] = got[j] => i = j
    /\ consumer = "done" => Range(got) = Reachable

\* The stream ends, with an error if a tree cannot be read, and so do its threads:
\* nobody waits for an answer that is not on its way.
StreamEnds == <>(consumer \in {"done", "error"} /\ \A l \in Loader : loader[l] = Ended)
=============================================================================
