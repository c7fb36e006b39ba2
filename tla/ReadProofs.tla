----------------------------- MODULE ReadProofs -----------------------------
(***************************************************************************)
(* Proofs about reading what is stored: streaming trees gives each tree    *)
(* once (TreeStream), what a hot/cold repository lists can be read         *)
(* (HotCold), and a restore reads only packs which are warm (Restore).     *)
(***************************************************************************)
EXTENDS TreeStream, HotCold, Restore, FiniteSetTheorems, SequenceTheorems, TLAPS

-----------------------------------------------------------------------------
(***************************************************************************)
(* Induction over numbers, for a set instead of a predicate                *)
(***************************************************************************)
Smaller == {ss \in Nat \X Nat : ss[1] < ss[2]}

\* Every set of numbers that is not empty has a smallest one.
LEMMA LeastNumber ==
  ASSUME NEW T, T \subseteq Nat, T # {}
  PROVE  \E x \in T : \A y \in T : ~(y < x)
<1>1. IsWellFoundedOn(Smaller, Nat)
  BY NatLessThanWellFounded DEF OpToRel, Smaller
<1>2. \E x \in T : \A y \in T : ~(<<y, x>> \in Smaller)
  BY <1>1, WFMin
<1>3. \A x, y \in Nat : y < x => <<y, x>> \in Smaller
  BY DEF Smaller
<1>. QED  BY <1>2, <1>3

\* A set that has 0 and the successor of each of its numbers has all numbers.
LEMMA SetInduction ==
  ASSUME NEW S, 0 \in S, \A n \in Nat : n \in S => n + 1 \in S
  PROVE  Nat \subseteq S
<1>. DEFINE T == Nat \ S
<1>. SUFFICES ASSUME T # {}  PROVE FALSE
  OBVIOUS
<1>1. PICK x \in T : \A y \in T : ~(y < x)
  BY LeastNumber
<1>2. x # 0 /\ x - 1 \in Nat /\ x - 1 < x
  BY <1>1
<1>3. x - 1 \in S
  BY <1>1, <1>2
<1>. QED  BY <1>1, <1>2, <1>3

\* What step makes of first, n times
IsIteration(g, first, step, n) == g[0] = first /\ \A i \in 1 .. n : g[i] = step[<<i, g[i - 1]>>]

\* A recursive function on 0 .. n whose steps are given by another function exists.
LEMMA IterationExists ==
  ASSUME NEW X, NEW first \in X, NEW step \in [Nat \X X -> X], NEW n \in Nat
  PROVE  \E g \in [0 .. n -> X] : IsIteration(g, first, step, n)
<1>. DEFINE Iterates(m, g) == g[0] = first /\ \A i \in 1 .. m : g[i] = step[<<i, g[i - 1]>>]
            S == {m \in Nat : \E g \in [0 .. m -> X] : Iterates(m, g)}
<1>1. 0 \in S
  <2>1. [i \in 0 .. 0 |-> first] \in [0 .. 0 -> X] /\ Iterates(0, [i \in 0 .. 0 |-> first])
    OBVIOUS
  <2>. QED  BY <2>1
<1>2. ASSUME NEW m \in Nat, m \in S  PROVE m + 1 \in S
  <2>1. PICK g \in [0 .. m -> X] : Iterates(m, g)
    BY <1>2
  <2>. DEFINE h == [i \in 0 .. m + 1 |-> IF i = m + 1 THEN step[<<i, g[m]>>] ELSE g[i]]
  <2>2. h \in [0 .. m + 1 -> X]
    <3>1. step[<<m + 1, g[m]>>] \in X
      OBVIOUS
    <3>2. \A i \in 0 .. m + 1 : i = m + 1 \/ i \in 0 .. m
      OBVIOUS
    <3>. QED  BY <3>1, <3>2
  <2>3. Iterates(m + 1, h)
    <3>1. h[0] = g[0] /\ h[m] = g[m] /\ h[m + 1] = step[<<m + 1, g[m]>>]
      OBVIOUS
    <3>2. ASSUME NEW i \in 1 .. m  PROVE h[i] = g[i] /\ h[i - 1] = g[i - 1]
      OBVIOUS
    <3>3. \A i \in 1 .. m + 1 : i = m + 1 \/ i \in 1 .. m
      OBVIOUS
    <3>4. (m + 1) - 1 = m
      OBVIOUS
    <3>. HIDE DEF h
    <3>. QED  BY <2>1, <3>1, <3>2, <3>3, <3>4
  <2>. HIDE DEF h, Iterates
  <2>4. \E f \in [0 .. m + 1 -> X] : Iterates(m + 1, f)
    BY <2>2, <2>3
  <2>. QED  BY <2>4
<1>3. n \in S
  <2>. HIDE DEF S
  <2>. QED  BY <1>1, <1>2, SetInduction
<1>. QED  BY <1>3 DEF IsIteration

-----------------------------------------------------------------------------
(***************************************************************************)
(* Sequences without repetitions                                           *)
(***************************************************************************)

\* The head of a queue without repetitions is not in its tail.
LEMMA TailDistinct ==
  ASSUME NEW S, NEW q \in Seq(S), q # <<>>, IsInjective(q)
  PROVE  /\ Head(q) \in Range(q) /\ Head(q) \in S /\ Tail(q) \in Seq(S)
         /\ IsInjective(Tail(q))
         /\ Range(Tail(q)) = Range(q) \ {Head(q)}
<1>1. /\ Len(q) \in Nat \ {0} /\ DOMAIN q = 1 .. Len(q)
      /\ Head(q) = q[1] /\ Head(q) \in S
      /\ Tail(q) \in Seq(S) /\ DOMAIN Tail(q) = 1 .. Len(q) - 1
  OBVIOUS
<1>2. \A i \in 1 .. Len(q) - 1 : Tail(q)[i] = q[i + 1] /\ i + 1 \in 1 .. Len(q) /\ i + 1 # 1
  OBVIOUS
<1>3. IsInjective(Tail(q))
  <2>1. ASSUME NEW i \in 1 .. Len(q) - 1, NEW j \in 1 .. Len(q) - 1, Tail(q)[i] = Tail(q)[j]
        PROVE  i = j
    <3>1. q[i + 1] = q[j + 1]
      BY <1>2, <2>1
    <3>2. i + 1 = j + 1
      BY <1>1, <1>2, <3>1 DEF IsInjective
    <3>. QED  BY <1>1, <3>2
  <2>. QED  BY <1>1, <2>1 DEF IsInjective
<1>4. ASSUME NEW k \in 1 .. Len(q), k # 1  PROVE k - 1 \in 1 .. Len(q) - 1 /\ Tail(q)[k - 1] = q[k]
  <2>1. k - 1 \in 1 .. Len(q) - 1 /\ (k - 1) + 1 = k
    BY <1>1, <1>4
  <2>. QED  BY <1>2, <2>1
<1>5. Range(Tail(q)) = {q[k] : k \in (1 .. Len(q)) \ {1}}
  <2>1. \A i \in 1 .. Len(q) - 1 : Tail(q)[i] \in {q[k] : k \in (1 .. Len(q)) \ {1}}
    BY <1>2
  <2>2. \A k \in (1 .. Len(q)) \ {1} : q[k] \in {Tail(q)[i] : i \in 1 .. Len(q) - 1}
    BY <1>4
  <2>. QED  BY <1>1, <2>1, <2>2 DEF Range
<1>6. 1 \in 1 .. Len(q) /\ \A k \in 1 .. Len(q) : q[k] = q[1] => k = 1
  BY <1>1 DEF IsInjective
<1>7. Range(q) = {q[k] : k \in 1 .. Len(q)}
  BY <1>1 DEF Range
<1>8. Range(Tail(q)) = Range(q) \ {q[1]}
  BY <1>5, <1>6, <1>7
<1>. QED  BY <1>1, <1>3, <1>6, <1>7, <1>8

\* An element that is not in a queue can be added without a repetition.
LEMMA AppendDistinct ==
  ASSUME NEW S, NEW q \in Seq(S), NEW x \in S, IsInjective(q), x \notin Range(q)
  PROVE  /\ Append(q, x) \in Seq(S)
         /\ IsInjective(Append(q, x))
         /\ Range(Append(q, x)) = Range(q) \cup {x}
<1>1. /\ Len(q) \in Nat /\ DOMAIN q = 1 .. Len(q)
      /\ Append(q, x) \in Seq(S) /\ DOMAIN Append(q, x) = 1 .. Len(q) + 1
      /\ Append(q, x)[Len(q) + 1] = x
  OBVIOUS
<1>2. \A i \in 1 .. Len(q) : Append(q, x)[i] = q[i]
  OBVIOUS
<1>3. \A i \in 1 .. Len(q) + 1 : i \in 1 .. Len(q) \/ i = Len(q) + 1
  BY <1>1
<1>4. Len(q) + 1 \in 1 .. Len(q) + 1 /\ 1 .. Len(q) \subseteq 1 .. Len(q) + 1
  BY <1>1
<1>5. Range(Append(q, x)) = Range(q) \cup {x}
  BY <1>1, <1>2, <1>3, <1>4 DEF Range
<1>6. IsInjective(Append(q, x))
  BY <1>1, <1>2, <1>3 DEF Range, IsInjective
<1>. QED  BY <1>1, <1>5, <1>6

\* So can a sequence that has no element of the queue.
LEMMA ConcatDistinct ==
  ASSUME NEW S, NEW q \in Seq(S), NEW r \in Seq(S), IsInjective(q), IsInjective(r),
         Range(q) \cap Range(r) = {}
  PROVE  /\ q \o r \in Seq(S)
         /\ IsInjective(q \o r)
         /\ Range(q \o r) = Range(q) \cup Range(r)
<1>1. /\ q \o r \in Seq(S) /\ Len(q) \in Nat /\ Len(r) \in Nat
      /\ DOMAIN q = 1 .. Len(q) /\ DOMAIN r = 1 .. Len(r) /\ DOMAIN (q \o r) = 1 .. Len(q) + Len(r)
  OBVIOUS
<1>2. ASSUME NEW i \in 1 .. Len(q) + Len(r)
      PROVE  \/ i \in 1 .. Len(q) /\ (q \o r)[i] = q[i]
             \/ i - Len(q) \in 1 .. Len(r) /\ (q \o r)[i] = r[i - Len(q)]
  <2>1. CASE i <= Len(q)
    BY <1>1, <2>1
  <2>2. CASE ~(i <= Len(q))
    BY <1>1, <2>2
  <2>. QED  BY <2>1, <2>2
<1>3. ASSUME NEW i \in 1 .. Len(q) + Len(r), NEW j \in 1 .. Len(q) + Len(r), (q \o r)[i] = (q \o r)[j]
      PROVE  i = j
  <2>1. \A k \in 1 .. Len(q), m \in 1 .. Len(r) : q[k] # r[m]
    BY <1>1 DEF Range
  <2>2. CASE i \in 1 .. Len(q) /\ j \in 1 .. Len(q) /\ q[i] = q[j]
    BY <1>1, <2>2 DEF IsInjective
  <2>3. CASE i - Len(q) \in 1 .. Len(r) /\ j - Len(q) \in 1 .. Len(r) /\ r[i - Len(q)] = r[j - Len(q)]
    <3>1. i - Len(q) = j - Len(q)
      BY <1>1, <2>3 DEF IsInjective
    <3>. QED  BY <1>1, <3>1
  <2>. QED  BY <1>2, <1>3, <2>1, <2>2, <2>3
<1>4. IsInjective(q \o r)
  BY <1>1, <1>3 DEF IsInjective
<1>. QED  BY <1>1, <1>4, RangeConcatenation

-----------------------------------------------------------------------------
(***************************************************************************)
(* Fresh returns the trees that have not been seen, each once              *)
(***************************************************************************)
LEMMA FreshProperties ==
  ASSUME NEW S, NEW seen, NEW ts \in Seq(S)
  PROVE  /\ Fresh(seen, ts) \in Seq(S)
         /\ IsInjective(Fresh(seen, ts))
         /\ Range(Fresh(seen, ts)) = Range(ts) \ seen
<1>. DEFINE X == Seq(S)
            n == Len(ts)
            After(i, s) == IF ts[i] \in seen \cup Range(s) THEN s ELSE Append(s, ts[i])
            step == [is \in Nat \X X |-> IF is[1] \in 1 .. n THEN After(is[1], is[2]) ELSE <<>>]
            F(g) == [i \in 0 .. n |-> IF i = 0 THEN <<>>
                                      ELSE IF ts[i] \in seen \cup Range(g[i - 1]) THEN g[i - 1]
                                      ELSE Append(g[i - 1], ts[i])]
            first == CHOOSE g : g = F(g)
<1>1. n \in Nat /\ DOMAIN ts = 1 .. n /\ \A i \in 1 .. n : ts[i] \in S
  OBVIOUS
<1>2. step \in [Nat \X X -> X]
  <2>1. \A i \in 1 .. n, s \in X : After(i, s) \in X
    BY <1>1
  <2>2. <<>> \in X
    OBVIOUS
  <2>. HIDE DEF X, After
  <2>. QED  BY <2>1, <2>2
<1>3. PICK g \in [0 .. n -> X] : g[0] = <<>> /\ \A i \in 1 .. n : g[i] = step[<<i, g[i - 1]>>]
  <2>. DEFINE none == <<>>
  <2>1. none \in X
    OBVIOUS
  <2>. HIDE DEF X, step, n, none
  <2>2. \E g \in [0 .. n -> X] : IsIteration(g, none, step, n)
    BY <1>1, <1>2, <2>1, IterationExists
  <2>. QED  BY <2>2 DEF none, IsIteration
<1>4. \A i \in 1 .. n : i - 1 \in 0 .. n /\ i \in Nat /\ i # 0 /\ i \in 0 .. n
  BY <1>1
<1>5. \A i \in 1 .. n : g[i] = After(i, g[i - 1])
  <2>1. \A i \in 1 .. n : g[i - 1] \in X
    BY <1>3, <1>4
  <2>2. \A i \in 1 .. n : step[<<i, g[i - 1]>>] = After(i, g[i - 1])
    <3>. HIDE DEF X, After, n
    <3>. QED  BY <1>4, <2>1
  <2>. HIDE DEF step, After, n
  <2>. QED  BY <1>3, <2>2
<1>6. g = F(g)
  <2>1. \A i \in 0 .. n : i = 0 \/ i \in 1 .. n
    BY <1>1
  <2>2. DOMAIN g = 0 .. n /\ \A i \in 0 .. n : g[i] = F(g)[i]
    <3>. HIDE DEF n, step
    <3>. QED  BY <1>3, <1>4, <1>5, <2>1
  <2>. HIDE DEF n, step
  <2>. QED  BY <1>3, <2>2
<1>7. first = F(first)
  <2>. HIDE DEF F, n
  <2>. QED  BY <1>6
<1>8. Fresh(seen, ts) = first[n]
  BY DEF Fresh
<1>. HIDE DEF first
<1>9. first[0] = <<>> /\ \A i \in 1 .. n : first[i] = After(i, first[i - 1])
  <2>1. F(first)[0] = <<>> /\ \A i \in 1 .. n : F(first)[i] = After(i, first[i - 1])
    <3>. HIDE DEF n
    <3>. QED  BY <1>1, <1>4
  <2>. HIDE DEF F, After, n
  <2>. QED  BY <1>7, <2>1
<1>. DEFINE Good(i, s) == s \in X /\ IsInjective(s) /\ Range(s) = {ts[k] : k \in 1 .. i} \ seen
            T == {m \in Nat : m <= n => Good(m, first[m])}
<1>10. 0 \in T
  <2>1. Good(0, <<>>)
    BY DEF IsInjective, Range
  <2>. HIDE DEF Good
  <2>. QED  BY <1>9, <2>1
<1>11. ASSUME NEW m \in Nat, m \in T  PROVE m + 1 \in T
  <2>. SUFFICES ASSUME m + 1 <= n  PROVE Good(m + 1, first[m + 1])
    <3>. HIDE DEF Good, n
    <3>. QED  OBVIOUS
  <2>1. m + 1 \in 1 .. n /\ (m + 1) - 1 = m /\ ts[m + 1] \in S
    BY <1>1
  <2>2. Good(m, first[m])
    BY <1>11, <1>1
  <2>3. first[m + 1] = After(m + 1, first[m])
    <3>. HIDE DEF After
    <3>. QED  BY <1>9, <2>1
  <2>4. {ts[k] : k \in 1 .. m + 1} = {ts[k] : k \in 1 .. m} \cup {ts[m + 1]}
    <3>1. 1 .. m + 1 = (1 .. m) \cup {m + 1}
      OBVIOUS
    <3>. QED  BY <3>1
  <2>. DEFINE s == first[m]
              U == {ts[k] : k \in 1 .. m}
  <2>. HIDE DEF s, U
  <2>5. s \in X /\ IsInjective(s) /\ Range(s) = U \ seen
    BY <2>2 DEF s, U
  <2>6. Good(m + 1, After(m + 1, s))
    <3>1. CASE ts[m + 1] \in seen \cup Range(s)
      <4>1. (U \cup {ts[m + 1]}) \ seen = U \ seen
        BY <2>5, <3>1
      <4>. QED  BY <2>4, <2>5, <3>1, <4>1 DEF U
    <3>2. CASE ts[m + 1] \notin seen \cup Range(s)
      <4>1. /\ Append(s, ts[m + 1]) \in X /\ IsInjective(Append(s, ts[m + 1]))
            /\ Range(Append(s, ts[m + 1])) = Range(s) \cup {ts[m + 1]}
        BY <2>1, <2>5, <3>2, AppendDistinct
      <4>2. (U \cup {ts[m + 1]}) \ seen = (U \ seen) \cup {ts[m + 1]}
        BY <3>2
      <4>. QED  BY <2>4, <2>5, <3>2, <4>1, <4>2 DEF U
    <3>. QED  BY <3>1, <3>2
  <2>. QED  BY <2>3, <2>6 DEF s
<1>12. n \in T
  <2>. HIDE DEF T, n
  <2>. QED  BY <1>1, <1>10, <1>11, SetInduction
<1>13. Good(n, first[n])
  <2>. HIDE DEF Good
  <2>. QED  BY <1>1, <1>12
<1>14. Range(ts) = {ts[k] : k \in 1 .. n}
  BY <1>1 DEF Range
<1>. QED  BY <1>8, <1>13, <1>14

-----------------------------------------------------------------------------
(***************************************************************************)
(* The inductive invariant                                                 *)
(***************************************************************************)

\* What is on its way: a tree and the number of its root
Item == Tree \X DOMAIN roots

StreamTypes ==
    /\ roots \in Seq(Tree) /\ new \in Seq(Tree) /\ got \in Seq(Tree)
    /\ queue_in \in Seq(Item) /\ queue_out \in Seq(Item)
    /\ loader \in [Loader -> Item \cup {Waiting, Ended}]
    /\ counter \in [DOMAIN roots -> Nat] /\ finished_ids \in Nat
    /\ visited \subseteq Tree
    /\ consumer \in {"new", "next", "done", "error"}

Busy == {l \in Loader : loader[l] \notin {Waiting, Ended}}
Loading == {loader[l] : l \in Busy}
Pending == Range(queue_in) \cup Loading \cup Range(queue_out)
TreesOf(items) == {x[1] : x \in items}
OfRoot(items, c) == {x \in items : x[2] = c}

\* The roots that `new` has added
Added == 1 .. Len(roots) - Len(new)
RootsInOrder ==
    /\ Len(new) <= Len(roots)
    /\ \A i \in 1 .. Len(new) : new[i] = roots[Len(roots) - Len(new) + i]
    /\ consumer # "new" => new = <<>>

\* A tree is in one place only.
EachOnce ==
    /\ IsInjective(queue_in) /\ IsInjective(queue_out) /\ IsInjective(got)
    /\ \A l, m \in Busy : loader[l] = loader[m] => l = m
    /\ Range(queue_in) \cap Range(queue_out) = {}
    /\ Range(queue_in) \cap Loading = {} /\ Loading \cap Range(queue_out) = {}
    /\ \A x, y \in Pending : x[1] = y[1] => x = y
    /\ TreesOf(Pending) \cap Range(got) = {}

\* What has been visited is on its way or has been given to the consumer, until an error
\* is lost with its tree.
NothingLost == consumer # "error" => visited = TreesOf(Pending) \cup Range(got)

\* What belongs to the stream has been visited, and nothing else has.
VisitedBelow ==
    /\ \A i \in Added : roots[i] \in visited
    /\ \A t \in Range(got) : Range(Subtrees[t]) \subseteq visited
    /\ visited \subseteq Reachable

\* The counters are right as long as somebody looks at them.
CountersRight ==
    /\ IsFiniteSet(Pending)
    /\ \A x \in Pending : x[2] \in Added
    /\ consumer \in {"new", "next"} =>
           /\ \A c \in DOMAIN roots : counter[c] = Cardinality(OfRoot(Pending, c))
           /\ finished_ids = Cardinality({c \in Added : counter[c] = 0})
    /\ consumer = "done" => Pending = {}

StreamInv == StreamTypes /\ RootsInOrder /\ EachOnce /\ NothingLost /\ VisitedBelow /\ CountersRight

-----------------------------------------------------------------------------
(***************************************************************************)
(* Lemmas about the places of a tree                                       *)
(***************************************************************************)

\* A thread that has something to load has a tree.
LEMMA ItemsAreWork ==
  ASSUME NEW A, NEW B, NEW x \in A \X B
  PROVE  x \notin {Waiting, Ended}
<1>1. DOMAIN x = {1, 2}
  OBVIOUS
<1>2. DOMAIN Waiting = {} /\ DOMAIN Ended = {1}
  BY DEF Waiting, Ended
<1>3. 2 \notin {1}
  OBVIOUS
<1>. QED  BY <1>1, <1>2, <1>3

\* All of Pending is typed.
LEMMA PendingTyped ==
  ASSUME StreamTypes
  PROVE  /\ Pending \subseteq Item
         /\ Range(queue_in) \subseteq Item /\ Loading \subseteq Item /\ Range(queue_out) \subseteq Item
         /\ \A l \in Loader : l \in Busy <=> loader[l] \in Item
<1>1. Range(queue_in) \subseteq Item /\ Range(queue_out) \subseteq Item
  <2>. HIDE DEF Item
  <2>. QED  BY RangeOfSeq DEF StreamTypes
<1>2. \A x \in Item : x \notin {Waiting, Ended}
  BY ItemsAreWork DEF Item
<1>3. \A l \in Loader : l \in Busy <=> loader[l] \in Item
  BY <1>2 DEF StreamTypes, Busy
<1>4. Loading \subseteq Item
  BY <1>3 DEF Loading, Busy
<1>. QED  BY <1>1, <1>3, <1>4 DEF Pending

\* There are as many elements as a sequence without repetitions is long.
LEMMA DistinctCardinality ==
  ASSUME NEW S, NEW q \in Seq(S), IsInjective(q)
  PROVE  IsFiniteSet(Range(q)) /\ Cardinality(Range(q)) = Len(q)
<1>1. Len(q) \in Nat /\ DOMAIN q = 1 .. Len(q)
  OBVIOUS
<1>2. IsFiniteSet(1 .. Len(q)) /\ Cardinality(1 .. Len(q)) = Len(q)
  BY <1>1, FS_Interval
<1>3. q \in [1 .. Len(q) -> Range(q)]
  BY <1>1 DEF Range
<1>4. q \in Bijection(1 .. Len(q), Range(q))
  BY <1>1, <1>3 DEF Bijection, Injection, Surjection, IsInjective, Range
<1>5. ExistsBijection(1 .. Len(q), Range(q))
  BY <1>4 DEF ExistsBijection
<1>. QED  BY <1>2, <1>5, FS_Bijection

\* add_pending queues the trees that have not been visited, each once.
LEMMA AddPendingProperties ==
  ASSUME StreamTypes, IsInjective(queue_in), TreesOf(Range(queue_in)) \subseteq visited,
         NEW ts \in Seq(Tree), NEW c \in DOMAIN roots, add_pending(ts, c)
  PROVE  LET added == (Range(ts) \ visited) \X {c}
         IN  /\ visited' = visited \cup Range(ts)
             /\ queue_in' \in Seq(Item) /\ IsInjective(queue_in')
             /\ Range(queue_in') = Range(queue_in) \cup added
             /\ IsFiniteSet(added) /\ Cardinality(added) = Len(Unvisited(ts))
             /\ Len(Unvisited(ts)) \in Nat
<1>. DEFINE U == Unvisited(ts)
            q == [i \in DOMAIN U |-> <<U[i], c>>]
            added == (Range(ts) \ visited) \X {c}
<1>1. U \in Seq(Tree) /\ IsInjective(U) /\ Range(U) = Range(ts) \ visited
  BY FreshProperties DEF Unvisited
<1>2. visited' = visited \cup Range(ts) /\ queue_in' = queue_in \o q
  BY DEF add_pending
<1>. HIDE DEF U
<1>3. Len(U) \in Nat /\ DOMAIN U = 1 .. Len(U) /\ \A i \in 1 .. Len(U) : U[i] \in Tree
  BY <1>1
<1>4. /\ q \in Seq(Item) /\ DOMAIN q = DOMAIN U /\ Len(q) = Len(U)
      /\ \A i \in DOMAIN U : q[i] = <<U[i], c>>
  BY <1>3 DEF Item
<1>. HIDE DEF q
<1>5. IsInjective(q)
  BY <1>1, <1>4 DEF IsInjective
<1>6. Range(q) = added
  <2>1. Range(q) = {<<U[i], c>> : i \in DOMAIN U}
    BY <1>4 DEF Range
  <2>2. added = {U[i] : i \in DOMAIN U} \X {c}
    BY <1>1 DEF Range
  <2>3. \A i \in DOMAIN U : <<U[i], c>> \in {U[k] : k \in DOMAIN U} \X {c}
    OBVIOUS
  <2>4. \A x \in {U[k] : k \in DOMAIN U} \X {c} : \E i \in DOMAIN U : x = <<U[i], c>>
    OBVIOUS
  <2>. QED  BY <2>1, <2>2, <2>3, <2>4
<1>7. Range(queue_in) \cap Range(q) = {}
  BY <1>6 DEF TreesOf
<1>8. queue_in \in Seq(Item)
  BY DEF StreamTypes
<1>9. IsFiniteSet(added) /\ Cardinality(added) = Len(U)
  BY <1>4, <1>5, <1>6, DistinctCardinality
<1>. HIDE DEF added
<1>10. /\ queue_in \o q \in Seq(Item) /\ IsInjective(queue_in \o q)
       /\ Range(queue_in \o q) = Range(queue_in) \cup added
  <2>. HIDE DEF Item
  <2>. QED  BY <1>4, <1>5, <1>6, <1>7, <1>8, ConcatDistinct
<1>. QED  BY <1>2, <1>3, <1>9, <1>10 DEF added, U

-----------------------------------------------------------------------------
(***************************************************************************)
(* The invariant holds at the start and is preserved by each action        *)
(***************************************************************************)
LEMMA StreamInitInv == StreamInit => StreamInv
<1>. SUFFICES ASSUME StreamInit  PROVE StreamInv
  OBVIOUS
<1>. USE DEF StreamInit
<1>1. roots \in Seq(Tree) /\ Len(roots) \in Nat /\ DOMAIN roots = 1 .. Len(roots)
  BY StreamAssumption
<1>2. Range(queue_in) = {} /\ Range(queue_out) = {} /\ Range(got) = {}
  BY DEF Range
<1>3. Busy = {} /\ Loading = {} /\ Pending = {}
  BY <1>2 DEF Busy, Loading, Pending
<1>4. Added = {}
  BY <1>1 DEF Added
<1>5. StreamTypes
  BY <1>1 DEF StreamTypes
<1>6. RootsInOrder
  BY <1>1 DEF RootsInOrder
<1>7. EachOnce
  BY <1>2, <1>3 DEF EachOnce, IsInjective, TreesOf
<1>8. NothingLost
  BY <1>2, <1>3 DEF NothingLost, TreesOf
<1>9. VisitedBelow
  BY <1>2, <1>4 DEF VisitedBelow
<1>10. CountersRight
  <2>1. \A c \in DOMAIN roots : OfRoot(Pending, c) = {} /\ counter[c] = 0
    BY <1>3 DEF OfRoot
  <2>2. {c \in Added : counter[c] = 0} = {}
    BY <1>4
  <2>. QED  BY <1>3, <2>1, <2>2, FS_EmptySet DEF CountersRight
<1>. QED  BY <1>5, <1>6, <1>7, <1>8, <1>9, <1>10 DEF StreamInv

\* A tree moves from one place to another one.
LEMMA PendingMoved ==
  ASSUME StreamInv, StreamTypes', EachOnce', Pending' = Pending,
         UNCHANGED <<roots, new, visited, counter, finished_ids, consumer, got>>
  PROVE  StreamInv'
<1>1. RootsInOrder'
  BY DEF StreamInv, RootsInOrder
<1>2. NothingLost'
  BY DEF StreamInv, NothingLost
<1>3. Added' = Added /\ Reachable' = Reachable
  BY DEF Added, Reachable, SubtreesIn
<1>4. VisitedBelow'
  BY <1>3 DEF StreamInv, VisitedBelow
<1>5. CountersRight'
  BY <1>3 DEF StreamInv, CountersRight
<1>. QED  BY <1>1, <1>2, <1>4, <1>5 DEF StreamInv

LEMMA TakeInv ==
  ASSUME StreamInv, NEW l \in Loader, Take(l)
  PROVE  StreamInv'
<1>. DEFINE h == Head(queue_in)
<1>1. StreamTypes /\ EachOnce
  BY DEF StreamInv
<1>2. /\ h \in Range(queue_in) /\ h \in Item /\ Tail(queue_in) \in Seq(Item)
      /\ IsInjective(Tail(queue_in)) /\ Range(Tail(queue_in)) = Range(queue_in) \ {h}
  <2>. HIDE DEF Item
  <2>. QED  BY <1>1, TailDistinct DEF StreamTypes, EachOnce, Take
<1>. HIDE DEF h
<1>3. /\ queue_in' = Tail(queue_in) /\ queue_out' = queue_out /\ got' = got
      /\ loader' = [loader EXCEPT ![l] = h] /\ loader[l] = Waiting
  BY DEF Take, h
<1>4. Item' = Item
  BY DEF Take, Item
<1>5. StreamTypes'
  <2>1. loader' \in [Loader -> Item \cup {Waiting, Ended}]
    <3>. HIDE DEF Item
    <3>. QED  BY <1>1, <1>2, <1>3 DEF StreamTypes
  <2>. HIDE DEF Item
  <2>. QED  BY <1>1, <1>2, <1>4, <2>1 DEF StreamTypes, Take
<1>6. l \notin Busy /\ h \notin {Waiting, Ended}
  BY <1>2, <1>3, ItemsAreWork DEF Busy, Item
<1>7. /\ \A k \in Loader : loader'[k] = IF k = l THEN h ELSE loader[k]
      /\ Busy' = Busy \cup {l}
  BY <1>1, <1>3, <1>6 DEF StreamTypes, Busy
<1>8. \A k \in Busy : k # l /\ k \in Loader /\ loader[k] \in Loading
  BY <1>6 DEF Busy, Loading
<1>9. Loading' = Loading \cup {h}
  BY <1>7, <1>8 DEF Loading
<1>10. Range(queue_in)' = Range(queue_in) \ {h} /\ Range(queue_out)' = Range(queue_out)
  BY <1>2, <1>3
<1>11. Pending' = Pending
  BY <1>2, <1>9, <1>10 DEF Pending
<1>12. h \notin Loading /\ h \notin Range(queue_out)
  BY <1>1, <1>2 DEF EachOnce
<1>13. EachOnce'
  <2>1. \A k, m \in Busy' : loader'[k] = loader'[m] => k = m
    BY <1>1, <1>7, <1>8, <1>12 DEF EachOnce
  <2>. QED  BY <1>1, <1>2, <1>3, <1>9, <1>10, <1>11, <1>12, <2>1 DEF EachOnce
<1>. QED  BY <1>5, <1>11, <1>13, PendingMoved DEF Take

LEMMA AnswerInv ==
  ASSUME StreamInv, NEW l \in Loader, Answer(l)
  PROVE  StreamInv'
<1>. DEFINE h == loader[l]
<1>1. StreamTypes /\ EachOnce
  BY DEF StreamInv
<1>2. l \in Busy /\ h \in Item /\ h \in Loading
  BY <1>1, PendingTyped DEF Busy, Loading, Answer
<1>3. h \notin Range(queue_in) /\ h \notin Range(queue_out)
  BY <1>1, <1>2 DEF EachOnce
<1>. HIDE DEF h
<1>4. /\ queue_out' = Append(queue_out, h) /\ queue_in' = queue_in /\ got' = got
      /\ loader' = [loader EXCEPT ![l] = Waiting]
  BY DEF Answer, h
<1>5. /\ Append(queue_out, h) \in Seq(Item) /\ IsInjective(Append(queue_out, h))
      /\ Range(Append(queue_out, h)) = Range(queue_out) \cup {h}
  <2>. HIDE DEF Item
  <2>. QED  BY <1>1, <1>2, <1>3, AppendDistinct DEF StreamTypes, EachOnce
<1>6. Item' = Item
  BY DEF Answer, Item
<1>7. StreamTypes'
  <2>1. loader' \in [Loader -> Item \cup {Waiting, Ended}]
    <3>. HIDE DEF Item
    <3>. QED  BY <1>1, <1>4 DEF StreamTypes
  <2>. HIDE DEF Item
  <2>. QED  BY <1>1, <1>4, <1>5, <1>6, <2>1 DEF StreamTypes, Answer
<1>8. /\ \A k \in Loader : loader'[k] = IF k = l THEN Waiting ELSE loader[k]
      /\ Busy' = Busy \ {l}
  BY <1>1, <1>4 DEF StreamTypes, Busy
<1>9. \A k \in Busy : k # l => loader[k] # h
  BY <1>1, <1>2 DEF EachOnce, h
<1>10. Loading' = Loading \ {h}
  BY <1>8, <1>9 DEF Loading, Busy, h
<1>11. Range(queue_in)' = Range(queue_in) /\ Range(queue_out)' = Range(queue_out) \cup {h}
  BY <1>4, <1>5
<1>12. Pending' = Pending
  BY <1>2, <1>10, <1>11 DEF Pending
<1>13. EachOnce'
  <2>1. \A k, m \in Busy' : loader'[k] = loader'[m] => k = m
    BY <1>1, <1>8 DEF EachOnce, Busy
  <2>. QED  BY <1>1, <1>3, <1>4, <1>5, <1>10, <1>11, <1>12, <2>1 DEF EachOnce
<1>. QED  BY <1>7, <1>12, <1>13, PendingMoved DEF Answer

LEMMA StartedInv == ASSUME StreamInv, Started  PROVE StreamInv'
<1>1. /\ Item' = Item /\ Pending' = Pending /\ Added' = Added /\ Reachable' = Reachable
      /\ Busy' = Busy /\ Loading' = Loading
  BY DEF Started, Item, Pending, Busy, Loading, Added, Reachable, SubtreesIn
<1>2. StreamTypes'
  BY <1>1 DEF StreamInv, StreamTypes, Started
<1>3. RootsInOrder' /\ NothingLost' /\ VisitedBelow' /\ CountersRight' /\ EachOnce'
  BY <1>1 DEF StreamInv, RootsInOrder, NothingLost, VisitedBelow, CountersRight, EachOnce, Started
<1>. QED  BY <1>2, <1>3 DEF StreamInv

\* There are n numbers from 1 to n.
LEMMA NumbersUpTo ==
  ASSUME NEW n \in Nat
  PROVE  IsFiniteSet(1 .. n) /\ Cardinality(1 .. n) = n
BY FS_Interval

\* When all roots are finished, nothing is on its way.
LEMMA FinishedIsEmpty ==
  ASSUME StreamInv, consumer = "next", finished_ids = Len(counter)
  PROVE  Pending = {}
<1>. DEFINE Z == {c \in Added : counter[c] = 0}
<1>1. /\ Len(roots) \in Nat /\ DOMAIN roots = 1 .. Len(roots) /\ Added = 1 .. Len(roots)
      /\ Len(counter) = Len(roots)
  <2>1. roots \in Seq(Tree) /\ counter \in [DOMAIN roots -> Nat] /\ new = <<>>
    BY DEF StreamInv, StreamTypes, RootsInOrder
  <2>2. Len(roots) \in Nat /\ DOMAIN roots = 1 .. Len(roots)
    BY <2>1
  <2>3. Len(counter) = Len(roots)
    BY <2>1, <2>2
  <2>4. Len(new) = 0
    BY <2>1
  <2>. QED  BY <2>2, <2>3, <2>4 DEF Added
<1>2. IsFiniteSet(Added) /\ Cardinality(Added) = Len(roots)
  <2>1. IsFiniteSet(1 .. Len(roots)) /\ Cardinality(1 .. Len(roots)) = Len(roots)
    BY <1>1, NumbersUpTo
  <2>. QED  BY <1>1, <2>1
<1>3. Cardinality(Z) = Cardinality(Added)
  BY <1>1, <1>2 DEF StreamInv, CountersRight
<1>4. Z = Added
  <2>1. Z \in SUBSET Added
    OBVIOUS
  <2>. HIDE DEF Z
  <2>. QED  BY <1>2, <1>3, <2>1, FS_Subset
<1>5. ASSUME NEW x \in Pending  PROVE FALSE
  <2>1. x[2] \in Added /\ x[2] \in DOMAIN roots /\ x \in OfRoot(Pending, x[2])
    BY <1>1, <1>5 DEF StreamInv, CountersRight, OfRoot
  <2>2. counter[x[2]] = 0
    BY <1>4, <2>1
  <2>3. Cardinality(OfRoot(Pending, x[2])) = 0
    BY <2>1, <2>2 DEF StreamInv, CountersRight
  <2>4. IsFiniteSet(OfRoot(Pending, x[2]))
    <3>1. OfRoot(Pending, x[2]) \in SUBSET Pending
      BY DEF OfRoot
    <3>. QED  BY <3>1, FS_Subset DEF StreamInv, CountersRight
  <2>. QED  BY <2>1, <2>3, <2>4, FS_EmptySet
<1>. QED  BY <1>5

LEMMA FinishInv == ASSUME StreamInv, Finish  PROVE StreamInv'
<1>1. /\ Item' = Item /\ Pending' = Pending /\ Added' = Added /\ Reachable' = Reachable
      /\ Busy' = Busy /\ Loading' = Loading
  BY DEF Finish, Item, Pending, Busy, Loading, Added, Reachable, SubtreesIn
<1>2. Pending = {}
  BY FinishedIsEmpty DEF Finish
<1>3. StreamTypes'
  BY <1>1 DEF StreamInv, StreamTypes, Finish
<1>4. RootsInOrder' /\ NothingLost' /\ VisitedBelow' /\ CountersRight' /\ EachOnce'
  BY <1>1, <1>2 DEF StreamInv, RootsInOrder, NothingLost, VisitedBelow, CountersRight, EachOnce, Finish
<1>. QED  BY <1>3, <1>4 DEF StreamInv

\* After an error, trees get lost.
LEMMA PendingDropped ==
  ASSUME StreamInv, StreamTypes', EachOnce', Pending' \subseteq Pending, new = <<>>, consumer' = "error",
         UNCHANGED <<roots, new, visited, counter, finished_ids, got>>
  PROVE  StreamInv'
<1>1. Added' = Added /\ Reachable' = Reachable
  BY DEF Added, Reachable, SubtreesIn
<1>2. RootsInOrder' /\ NothingLost' /\ VisitedBelow'
  BY <1>1 DEF StreamInv, RootsInOrder, NothingLost, VisitedBelow
<1>3. IsFiniteSet(Pending)'
  BY FS_Subset DEF StreamInv, CountersRight
<1>4. CountersRight'
  BY <1>1, <1>3 DEF StreamInv, CountersRight
<1>. QED  BY <1>2, <1>4 DEF StreamInv

LEMMA ReceiveErrorInv == ASSUME StreamInv, ReceiveError  PROVE StreamInv'
<1>. DEFINE h == Head(queue_out)
<1>1. StreamTypes /\ EachOnce /\ new = <<>>
  BY DEF StreamInv, RootsInOrder, ReceiveError
<1>2. /\ h \in Range(queue_out) /\ Tail(queue_out) \in Seq(Item)
      /\ IsInjective(Tail(queue_out)) /\ Range(Tail(queue_out)) = Range(queue_out) \ {h}
  <2>. HIDE DEF Item
  <2>. QED  BY <1>1, TailDistinct DEF StreamTypes, EachOnce, ReceiveError
<1>. HIDE DEF h
<1>3. Item' = Item /\ Busy' = Busy /\ Loading' = Loading
  BY DEF ReceiveError, Item, Busy, Loading
<1>4. Range(queue_in)' = Range(queue_in) /\ Range(queue_out)' = Range(queue_out) \ {h}
  BY <1>2 DEF ReceiveError
<1>5. Pending' \subseteq Pending
  BY <1>3, <1>4 DEF Pending
<1>6. StreamTypes'
  <2>. HIDE DEF Item
  <2>. QED  BY <1>1, <1>2, <1>3 DEF StreamTypes, ReceiveError
<1>7. EachOnce'
  BY <1>1, <1>2, <1>3, <1>4, <1>5 DEF EachOnce, ReceiveError, TreesOf
<1>. QED  BY <1>1, <1>5, <1>6, <1>7, PendingDropped DEF ReceiveError

LEMMA EndLoaderInv ==
  ASSUME StreamInv, NEW l \in Loader, EndLoader(l)
  PROVE  StreamInv'
<1>. DEFINE h == loader[l]
<1>1. StreamTypes /\ EachOnce /\ new = <<>>
  BY DEF StreamInv, RootsInOrder, EndLoader
<1>2. /\ \A k \in Loader : loader'[k] = IF k = l THEN Ended ELSE loader[k]
      /\ Busy' = Busy \ {l} /\ Item' = Item
  BY <1>1 DEF StreamTypes, Busy, EndLoader, Item
<1>3. StreamTypes'
  <2>1. loader' \in [Loader -> Item \cup {Waiting, Ended}]
    <3>. HIDE DEF Item
    <3>. QED  BY <1>1 DEF StreamTypes, EndLoader
  <2>. HIDE DEF Item
  <2>. QED  BY <1>1, <1>2, <2>1 DEF StreamTypes, EndLoader
<1>4. Loading' \subseteq Loading /\ (l \notin Busy => Loading' = Loading)
  BY <1>2 DEF Loading, Busy
<1>5. Range(queue_in)' = Range(queue_in) /\ Range(queue_out)' = Range(queue_out)
  BY DEF EndLoader
<1>6. Pending' \subseteq Pending /\ (l \notin Busy => Pending' = Pending)
  BY <1>4, <1>5 DEF Pending
<1>7. EachOnce'
  <2>1. \A k, m \in Busy' : loader'[k] = loader'[m] => k = m
    BY <1>1, <1>2 DEF EachOnce, Busy
  <2>. QED  BY <1>1, <1>4, <1>5, <1>6, <2>1 DEF EachOnce, EndLoader, TreesOf
<1>8. CASE consumer = "error"
  BY <1>1, <1>3, <1>6, <1>7, <1>8, PendingDropped DEF EndLoader
<1>9. CASE consumer = "done"
  <2>1. Pending = {}
    BY <1>9 DEF StreamInv, CountersRight
  <2>2. l \notin Busy
    BY <2>1 DEF Pending, Loading
  <2>. QED  BY <1>3, <1>6, <1>7, <2>2, PendingMoved DEF EndLoader
<1>. QED  BY <1>8, <1>9 DEF EndLoader

\* What is below the roots stays so when the subtrees of a tree are added.
LEMMA ReachableIsClosed ==
  ASSUME roots \in Seq(Tree)
  PROVE  /\ Range(roots) \subseteq Reachable
         /\ \A t \in Reachable : Range(Subtrees[t]) \subseteq Reachable
<1>1. Range(roots) \subseteq Tree
  BY RangeOfSeq
<1>2. \A t \in Tree : Range(Subtrees[t]) \subseteq Tree
  <2>1. \A t \in Tree : Subtrees[t] \in Seq(Tree)
    BY StreamAssumption
  <2>. QED  BY <2>1, RangeOfSeq
<1>. QED  BY <1>1, <1>2 DEF Reachable, SubtreesIn

\* Nothing else is below the roots.
LEMMA ReachableIsLeast ==
  ASSUME NEW T \in SUBSET Tree, SubtreesIn(T)
  PROVE  Reachable \subseteq T
BY DEF Reachable

LEMMA AddRootInv == ASSUME StreamInv, AddRoot  PROVE StreamInv'
<1>. DEFINE t == Head(new)
            c == Len(roots) - Len(new) + 1
            added == (Range(<<t>>) \ visited) \X {c}
            Z == {d \in Added : counter[d] = 0}
<1>1. StreamTypes /\ RootsInOrder /\ EachOnce /\ NothingLost /\ VisitedBelow /\ CountersRight
  BY DEF StreamInv
<1>2. /\ roots \in Seq(Tree) /\ Len(roots) \in Nat /\ DOMAIN roots = 1 .. Len(roots)
      /\ new \in Seq(Tree) /\ Len(new) \in Nat \ {0} /\ Len(new) <= Len(roots)
  BY <1>1 DEF AddRoot, StreamTypes, RootsInOrder
<1>3. /\ c \in 1 .. Len(roots) /\ t \in Tree /\ t = roots[c]
      /\ Added = 1 .. c - 1 /\ Added' = 1 .. c
      /\ Tail(new) \in Seq(Tree) /\ Len(Tail(new)) = Len(new) - 1
  <2>1. t = new[1] /\ 1 \in 1 .. Len(new) /\ t \in Tree
    BY <1>2
  <2>2. t = roots[c]
    BY <1>1, <1>2, <2>1 DEF RootsInOrder
  <2>3. Tail(new) \in Seq(Tree) /\ Len(Tail(new)) = Len(new) - 1
    BY <1>2
  <2>4. Len(new)' = Len(new) - 1 /\ roots' = roots
    BY <2>3 DEF AddRoot
  <2>. QED  BY <1>2, <2>1, <2>2, <2>3, <2>4 DEF Added
<1>4. consumer = "new" /\ consumer' = "new" /\ visited = TreesOf(Pending) \cup Range(got)
  BY <1>1 DEF AddRoot, NothingLost
<1>5. <<t>> \in Seq(Tree) /\ Range(<<t>>) = {t}
  BY <1>3 DEF Range
<1>. HIDE DEF t, c, added
<1>6. add_pending(<<t>>, c)
  BY DEF AddRoot, t, c
<1>7. /\ visited' = visited \cup {t}
      /\ queue_in' \in Seq(Item) /\ IsInjective(queue_in')
      /\ Range(queue_in') = Range(queue_in) \cup added
      /\ IsFiniteSet(added)
  <2>1. TreesOf(Range(queue_in)) \subseteq visited
    BY <1>4 DEF Pending, TreesOf
  <2>. HIDE DEF Item
  <2>. QED  BY <1>1, <1>2, <1>3, <1>5, <1>6, <2>1, AddPendingProperties DEF EachOnce, added
<1>8. added = IF t \in visited THEN {} ELSE {<<t, c>>}
  BY <1>5 DEF added
<1>9. Item' = Item /\ Busy' = Busy /\ Loading' = Loading /\ Reachable' = Reachable /\ new' = Tail(new)
  BY DEF AddRoot, Item, Busy, Loading, Reachable, SubtreesIn
<1>10. UNCHANGED <<roots, queue_out, loader, got>>
  BY DEF AddRoot
<1>11. Pending' = Pending \cup added
  BY <1>7, <1>9, <1>10 DEF Pending
<1>12. TreesOf(Pending') = TreesOf(Pending) \cup ({t} \ visited)
  <2>1. TreesOf(Pending') = TreesOf(Pending) \cup TreesOf(added)
    BY <1>11 DEF TreesOf
  <2>2. TreesOf(added) = {t} \ visited
    <3>1. CASE t \in visited
      BY <1>8, <3>1 DEF TreesOf
    <3>2. CASE t \notin visited
      <4>1. added = {<<t, c>>} /\ <<t, c>>[1] = t
        BY <1>8, <3>2
      <4>2. TreesOf(added) = {t}
        BY <4>1 DEF TreesOf
      <4>. QED  BY <3>2, <4>2
    <3>. QED  BY <3>1, <3>2
  <2>. QED  BY <2>1, <2>2
<1>13. counter' \in [DOMAIN roots -> Nat] /\ finished_ids' \in Nat
  <2>1. counter \in [DOMAIN roots -> Nat] /\ finished_ids \in Nat
    BY <1>1 DEF StreamTypes
  <2>2. /\ counter' = counter \/ counter' = [counter EXCEPT ![c] = @ + 1]
        /\ finished_ids' = finished_ids \/ finished_ids' = finished_ids + 1
    BY DEF AddRoot, c
  <2>. QED  BY <1>2, <1>3, <2>1, <2>2
<1>14. StreamTypes'
  <2>. HIDE DEF Item
  <2>. QED  BY <1>1, <1>3, <1>4, <1>7, <1>9, <1>10, <1>13 DEF StreamTypes
<1>15. RootsInOrder'
  <2>1. \A i \in 1 .. Len(new) - 1 : /\ Tail(new)[i] = new[i + 1] /\ i + 1 \in 1 .. Len(new)
                                     /\ Len(roots) - (Len(new) - 1) + i = Len(roots) - Len(new) + (i + 1)
    BY <1>2
  <2>2. \A i \in 1 .. Len(new) - 1 : Tail(new)[i] = roots[Len(roots) - (Len(new) - 1) + i]
    BY <1>1, <2>1 DEF RootsInOrder
  <2>. QED  BY <1>2, <1>3, <1>4, <1>9, <1>10, <2>2 DEF RootsInOrder
<1>16. EachOnce'
  <2>1. \A x \in added : x[1] \notin TreesOf(Pending) /\ x[1] \notin Range(got) /\ x \notin Pending
    BY <1>4, <1>8 DEF TreesOf
  <2>2. \A x, y \in added : x = y
    BY <1>8
  <2>3. \A x, y \in Pending' : x[1] = y[1] => x = y
    BY <1>1, <1>11, <2>1, <2>2 DEF EachOnce, TreesOf
  <2>. QED  BY <1>1, <1>7, <1>9, <1>10, <1>11, <2>1, <2>3 DEF EachOnce, Pending, TreesOf
<1>17. NothingLost'
  BY <1>4, <1>7, <1>10, <1>12 DEF NothingLost
<1>18. VisitedBelow'
  <2>1. t \in Reachable
    BY <1>2, <1>3, ReachableIsClosed DEF Range
  <2>2. \A i \in 1 .. c : i = c \/ i \in 1 .. c - 1
    BY <1>3
  <2>. QED  BY <1>1, <1>3, <1>7, <1>9, <1>10, <2>1, <2>2 DEF VisitedBelow
<1>19. CountersRight'
  <2>1. IsFiniteSet(Pending)'
    BY <1>1, <1>7, <1>11, FS_Union DEF CountersRight
  <2>2. \A x \in Pending' : x[2] \in Added'
    <3>1. \A x \in Pending : x[2] \in 1 .. c
      BY <1>1, <1>3 DEF CountersRight
    <3>2. \A x \in added : x[2] \in 1 .. c
      BY <1>3, <1>8
    <3>. QED  BY <1>3, <1>11, <3>1, <3>2
  <2>3. OfRoot(Pending, c) = {} /\ counter[c] = 0
    <3>1. c \notin Added /\ c \in DOMAIN roots
      BY <1>2, <1>3
    <3>2. OfRoot(Pending, c) = {}
      BY <1>1, <3>1 DEF CountersRight, OfRoot
    <3>. QED  BY <1>1, <1>4, <3>1, <3>2, FS_EmptySet DEF CountersRight
  <2>4. \A d \in DOMAIN roots \ {c} : OfRoot(Pending', d) = OfRoot(Pending, d) /\ counter'[d] = counter[d]
    <3>1. \A d \in DOMAIN roots \ {c} : OfRoot(added, d) = {}
      BY <1>8 DEF OfRoot
    <3>2. \A d \in DOMAIN roots \ {c} : OfRoot(Pending', d) = OfRoot(Pending, d)
      BY <1>11, <3>1 DEF OfRoot
    <3>3. counter' = counter \/ counter' = [counter EXCEPT ![c] = @ + 1]
      BY DEF AddRoot, c
    <3>. QED  BY <1>1, <3>2, <3>3 DEF StreamTypes
  <2>5. finished_ids = Cardinality(Z) /\ IsFiniteSet(Z) /\ c \notin Z /\ Added' = Added \cup {c}
    <3>1. IsFiniteSet(1 .. c - 1)
      BY <1>3, FS_Interval
    <3>2. Z \in SUBSET (1 .. c - 1)
      BY <1>3
    <3>3. 1 .. c = (1 .. c - 1) \cup {c} /\ c \notin 1 .. c - 1
      BY <1>3
    <3>4. IsFiniteSet(Z)
      BY <3>1, <3>2, FS_Subset
    <3>. QED  BY <1>1, <1>3, <1>4, <3>2, <3>3, <3>4 DEF CountersRight
  <2>6. \A d \in Added : d \in DOMAIN roots \ {c}
    BY <1>2, <1>3
  <2>7. CASE t \in visited
    <3>1. counter' = counter /\ finished_ids' = finished_ids + 1 /\ Pending' = Pending
      BY <1>8, <1>11, <2>7 DEF AddRoot, t
    <3>2. {d \in Added' : counter'[d] = 0} = Z \cup {c}
      BY <2>3, <2>5, <3>1
    <3>3. finished_ids' = Cardinality({d \in Added' : counter'[d] = 0})
      <4>. HIDE DEF Z
      <4>. QED  BY <2>5, <3>1, <3>2, FS_AddElement
    <3>4. \A d \in DOMAIN roots : counter'[d] = Cardinality(OfRoot(Pending', d))
      BY <1>1, <1>4, <3>1 DEF CountersRight
    <3>. QED  BY <1>4, <1>10, <2>1, <2>2, <3>3, <3>4 DEF CountersRight
  <2>8. CASE t \notin visited
    <3>1. counter' = [counter EXCEPT ![c] = @ + 1] /\ finished_ids' = finished_ids /\ added = {<<t, c>>}
      BY <1>8, <2>8 DEF AddRoot, t, c
    <3>2. counter'[c] = 1
      BY <1>1, <1>2, <1>3, <2>3, <3>1 DEF StreamTypes
    <3>3. OfRoot(Pending', c) = {<<t, c>>}
      BY <1>11, <2>3, <3>1 DEF OfRoot
    <3>4. Cardinality(OfRoot(Pending', c)) = 1
      BY <3>3, FS_Singleton
    <3>5. \A d \in DOMAIN roots : counter'[d] = Cardinality(OfRoot(Pending', d))
      BY <1>1, <1>4, <2>4, <3>2, <3>4 DEF CountersRight
    <3>6. {d \in Added' : counter'[d] = 0} = Z
      BY <2>4, <2>5, <2>6, <3>2
    <3>. QED  BY <1>4, <1>10, <2>1, <2>2, <2>5, <3>1, <3>5, <3>6 DEF CountersRight
  <2>. QED  BY <2>7, <2>8
<1>. QED  BY <1>14, <1>15, <1>16, <1>17, <1>18, <1>19 DEF StreamInv

LEMMA ReceiveInv == ASSUME StreamInv, Receive  PROVE StreamInv'
<1>. DEFINE h == Head(queue_out)
            t == h[1]
            c == h[2]
            n == Len(Unvisited(Subtrees[t]))
            below == Range(Subtrees[t])
            added == (below \ visited) \X {c}
            Z == {d \in Added : counter[d] = 0}
<1>1. StreamTypes /\ RootsInOrder /\ EachOnce /\ NothingLost /\ VisitedBelow /\ CountersRight
  BY DEF StreamInv
<1>2. /\ h \in Range(queue_out) /\ h \in Item /\ Tail(queue_out) \in Seq(Item)
      /\ IsInjective(Tail(queue_out)) /\ Range(Tail(queue_out)) = Range(queue_out) \ {h}
  <2>. HIDE DEF Item
  <2>. QED  BY <1>1, TailDistinct DEF StreamTypes, EachOnce, Receive
<1>3. t \in Tree /\ c \in DOMAIN roots /\ h = <<t, c>> /\ h \in Pending /\ c \in Added
  <2>. HIDE DEF h
  <2>1. h \in Pending
    BY <1>2 DEF Pending
  <2>. QED  BY <1>1, <1>2, <2>1 DEF Item, CountersRight
<1>4. consumer = "next" /\ consumer' = "next" /\ visited = TreesOf(Pending) \cup Range(got)
  BY <1>1 DEF Receive, NothingLost
<1>5. Subtrees[t] \in Seq(Tree) /\ below \subseteq Tree
  <2>1. Subtrees[t] \in Seq(Tree)
    BY <1>3, StreamAssumption
  <2>. QED  BY <2>1, RangeOfSeq
<1>6. /\ add_pending(Subtrees[t], c)
      /\ counter' = [counter EXCEPT ![c] = counter[c] + n - 1]
      /\ finished_ids' = IF counter[c] + n = 1 THEN finished_ids + 1 ELSE finished_ids
      /\ got' = Append(got, t) /\ queue_out' = Tail(queue_out)
      /\ UNCHANGED <<roots, new, loader>>
  BY DEF Receive, Counted
<1>. HIDE DEF h, t, c, n, below, added
<1>7. /\ visited' = visited \cup below
      /\ queue_in' \in Seq(Item) /\ IsInjective(queue_in')
      /\ Range(queue_in') = Range(queue_in) \cup added
      /\ IsFiniteSet(added) /\ Cardinality(added) = n /\ n \in Nat
  <2>1. TreesOf(Range(queue_in)) \subseteq visited
    BY <1>4 DEF Pending, TreesOf
  <2>. HIDE DEF Item
  <2>. QED  BY <1>1, <1>3, <1>5, <1>6, <2>1, AddPendingProperties DEF EachOnce, added, below, n
<1>8. /\ \A x \in added : x[1] \in below \ visited /\ x[2] = c
      /\ TreesOf(added) = below \ visited
  <2>1. \A u \in below \ visited : <<u, c>> \in added /\ <<u, c>>[1] = u
    BY DEF added
  <2>2. \A x \in added : x[1] \in below \ visited /\ x[2] = c
    BY DEF added
  <2>. QED  BY <2>1, <2>2 DEF TreesOf
<1>9. Item' = Item /\ Busy' = Busy /\ Loading' = Loading /\ Reachable' = Reachable /\ Added' = Added
  BY <1>6 DEF Item, Busy, Loading, Reachable, SubtreesIn, Added
<1>10. t \in visited /\ t \notin Range(got) /\ \A x \in Pending : x[1] = t => x = h
  <2>1. t = h[1]
    BY DEF t
  <2>. QED  BY <1>1, <1>3, <1>4, <2>1 DEF EachOnce, TreesOf
<1>11. h \notin Range(queue_in) /\ h \notin Loading /\ h \notin added
  <2>1. h \notin added
    BY <1>8, <1>10 DEF t
  <2>. QED  BY <1>1, <1>2, <2>1 DEF EachOnce
<1>12. Range(queue_out)' = Range(queue_out) \ {h}
  BY <1>2, <1>6
<1>13. Pending' = (Pending \ {h}) \cup added
  BY <1>7, <1>9, <1>11, <1>12 DEF Pending
<1>14. got' \in Seq(Tree) /\ IsInjective(got') /\ Range(got') = Range(got) \cup {t}
  BY <1>1, <1>3, <1>6, <1>10, AppendDistinct DEF StreamTypes, EachOnce
<1>15. \A x \in added : x[1] \notin visited /\ x \notin Pending
  BY <1>4, <1>8 DEF TreesOf
<1>16. counter[c] \in Nat \ {0}
  <2>1. h \in OfRoot(Pending, c)
    BY <1>3 DEF OfRoot, c
  <2>2. IsFiniteSet(OfRoot(Pending, c))
    <3>1. OfRoot(Pending, c) \in SUBSET Pending
      BY DEF OfRoot
    <3>. QED  BY <1>1, <3>1, FS_Subset DEF CountersRight
  <2>3. Cardinality(OfRoot(Pending, c)) # 0
    BY <2>1, <2>2, FS_EmptySet
  <2>. QED  BY <1>1, <1>3, <1>4, <2>3 DEF StreamTypes, CountersRight
<1>17. StreamTypes'
  <2>1. counter' \in [DOMAIN roots -> Nat] /\ finished_ids' \in Nat
    <3>1. counter[c] + n - 1 \in Nat
      BY <1>7, <1>16
    <3>. QED  BY <1>1, <1>3, <1>6, <3>1 DEF StreamTypes
  <2>2. visited' \subseteq Tree
    BY <1>1, <1>5, <1>7 DEF StreamTypes
  <2>. HIDE DEF Item
  <2>. QED  BY <1>1, <1>2, <1>4, <1>6, <1>7, <1>9, <1>14, <2>1, <2>2 DEF StreamTypes
<1>18. RootsInOrder'
  BY <1>1, <1>4, <1>6 DEF RootsInOrder
<1>19. EachOnce'
  <2>1. \A x, y \in added : x[1] = y[1] => x = y
    BY DEF added
  <2>2. \A x \in Pending : x[1] \in visited
    BY <1>4 DEF TreesOf
  <2>3. \A x, y \in Pending' : x[1] = y[1] => x = y
    BY <1>1, <1>13, <1>15, <2>1, <2>2 DEF EachOnce
  <2>4. TreesOf(Pending') \cap Range(got)' = {}
    <3>1. ASSUME NEW x \in Pending'  PROVE x[1] \notin Range(got) /\ x[1] # t
      <4>1. CASE x \in added
        BY <1>4, <1>10, <1>15, <4>1
      <4>2. CASE x \in Pending /\ x # h
        BY <1>1, <1>10, <4>2 DEF EachOnce, TreesOf
      <4>. QED  BY <1>13, <3>1, <4>1, <4>2
    <3>. QED  BY <1>14, <3>1 DEF TreesOf
  <2>5. /\ Range(queue_in)' \cap Range(queue_out)' = {}
        /\ Range(queue_in)' \cap Loading' = {} /\ Loading' \cap Range(queue_out)' = {}
    BY <1>1, <1>7, <1>9, <1>12, <1>15 DEF EachOnce, Pending
  <2>6. \A l, m \in Busy' : loader'[l] = loader'[m] => l = m
    BY <1>1, <1>6, <1>9 DEF EachOnce
  <2>. QED  BY <1>2, <1>6, <1>7, <1>14, <2>3, <2>4, <2>5, <2>6 DEF EachOnce
<1>20. NothingLost'
  <2>1. TreesOf(Pending') = TreesOf(Pending \ {h}) \cup (below \ visited)
    BY <1>8, <1>13 DEF TreesOf
  <2>2. TreesOf(Pending) = TreesOf(Pending \ {h}) \cup {t}
    BY <1>3 DEF TreesOf, t
  <2>. QED  BY <1>4, <1>7, <1>14, <2>1, <2>2 DEF NothingLost
<1>21. VisitedBelow'
  <2>1. below \subseteq Reachable
    BY <1>1, <1>10, ReachableIsClosed DEF VisitedBelow, StreamTypes, below
  <2>2. \A i \in Added' : roots'[i] \in visited'
    BY <1>1, <1>6, <1>7, <1>9 DEF VisitedBelow
  <2>3. \A u \in Range(got)' : Range(Subtrees[u]) \subseteq visited'
    BY <1>1, <1>7, <1>14 DEF VisitedBelow, below
  <2>. QED  BY <1>1, <1>7, <1>9, <2>1, <2>2, <2>3 DEF VisitedBelow
<1>22. CountersRight'
  <2>1. IsFiniteSet(Pending)'
    <3>1. IsFiniteSet(Pending \ {h})
      BY <1>1, FS_RemoveElement DEF CountersRight
    <3>. QED  BY <1>7, <1>13, <3>1, FS_Union
  <2>2. \A x \in Pending' : x[2] \in Added'
    BY <1>1, <1>3, <1>8, <1>9, <1>13 DEF CountersRight
  <2>3. \A d \in DOMAIN roots : d # c => OfRoot(Pending', d) = OfRoot(Pending, d) /\ counter'[d] = counter[d]
    <3>1. ASSUME NEW d \in DOMAIN roots, d # c  PROVE OfRoot(Pending', d) = OfRoot(Pending, d)
      <4>1. h \notin OfRoot(Pending, d)
        BY <3>1 DEF OfRoot, c
      <4>2. OfRoot(added, d) = {}
        BY <1>8, <3>1 DEF OfRoot
      <4>. QED  BY <1>13, <4>1, <4>2 DEF OfRoot
    <3>. QED  BY <1>1, <1>6, <3>1 DEF StreamTypes
  <2>4. Cardinality(OfRoot(Pending', c)) = counter[c] + n - 1
    <3>. DEFINE old == OfRoot(Pending, c)
    <3>1. h \in old /\ old \in SUBSET Pending
      BY <1>3 DEF OfRoot, c
    <3>2. IsFiniteSet(old) /\ Cardinality(old) = counter[c]
      BY <1>1, <1>3, <1>4, <3>1, FS_Subset DEF CountersRight
    <3>3. OfRoot(Pending', c) = (old \ {h}) \cup added
      BY <1>8, <1>13 DEF OfRoot
    <3>4. (old \ {h}) \cap added = {}
      BY <1>15, <3>1
    <3>. HIDE DEF old
    <3>5. IsFiniteSet(old \ {h}) /\ Cardinality(old \ {h}) = counter[c] - 1
      BY <3>1, <3>2, FS_RemoveElement
    <3>6. Cardinality((old \ {h}) \cup added) = (counter[c] - 1) + n - Cardinality({})
      BY <1>7, <3>4, <3>5, FS_Union
    <3>. QED  BY <1>7, <1>16, <3>3, <3>6, FS_EmptySet
  <2>5. counter'[c] = counter[c] + n - 1
    BY <1>1, <1>3, <1>6 DEF StreamTypes
  <2>6. \A d \in DOMAIN roots : counter'[d] = Cardinality(OfRoot(Pending', d))
    BY <1>1, <1>4, <2>3, <2>4, <2>5 DEF CountersRight
  <2>7. /\ finished_ids = Cardinality(Z) /\ IsFiniteSet(Z) /\ c \notin Z
        /\ \A d \in Added : d \in DOMAIN roots
    <3>1. IsFiniteSet(Added) /\ Added \subseteq DOMAIN roots
      <4>1. roots \in Seq(Tree) /\ new = <<>>
        BY <1>1, <1>4 DEF StreamTypes, RootsInOrder
      <4>2. Len(roots) \in Nat /\ DOMAIN roots = 1 .. Len(roots) /\ Added = 1 .. Len(roots)
        BY <4>1 DEF Added
      <4>. QED  BY <4>2, NumbersUpTo
    <3>2. Z \in SUBSET Added
      OBVIOUS
    <3>3. IsFiniteSet(Z)
      BY <3>1, <3>2, FS_Subset
    <3>. QED  BY <1>1, <1>4, <1>16, <3>1, <3>3 DEF CountersRight
  <2>8. finished_ids' = Cardinality({d \in Added' : counter'[d] = 0})
    <3>1. CASE counter[c] + n = 1
      <4>0. counter'[c] = 0
        BY <1>7, <1>16, <2>5, <3>1
      <4>1. {d \in Added' : counter'[d] = 0} = Z \cup {c}
        BY <1>3, <1>9, <2>3, <2>7, <4>0
      <4>. HIDE DEF Z
      <4>. QED  BY <1>6, <2>7, <3>1, <4>1, FS_AddElement
    <3>2. CASE counter[c] + n # 1
      <4>1. counter'[c] # 0
        BY <1>7, <1>16, <2>5, <3>2
      <4>2. {d \in Added' : counter'[d] = 0} = Z
        BY <1>9, <2>3, <2>7, <4>1
      <4>. QED  BY <1>6, <2>7, <3>2, <4>2
    <3>. QED  BY <3>1, <3>2
  <2>. QED  BY <1>4, <1>6, <2>1, <2>2, <2>6, <2>8 DEF CountersRight
<1>. QED  BY <1>17, <1>18, <1>19, <1>20, <1>21, <1>22 DEF StreamInv

-----------------------------------------------------------------------------
(***************************************************************************)
(* The theorems                                                            *)
(***************************************************************************)

\* The counters of TreeStreamerOnce are right in all states: a tree is in one place only,
\* and how many are on their way below each root is what has been counted.
THEOREM StreamInvariant == StreamSpec => []StreamInv
<1>1. ASSUME StreamInv, [StreamNext]_streamVars  PROVE StreamInv'
  <2>1. CASE AddRoot  BY <1>1, <2>1, AddRootInv
  <2>2. CASE Started  BY <1>1, <2>2, StartedInv
  <2>3. CASE Receive  BY <1>1, <2>3, ReceiveInv
  <2>4. CASE ReceiveError  BY <1>1, <2>4, ReceiveErrorInv
  <2>5. CASE Finish  BY <1>1, <2>5, FinishInv
  <2>6. ASSUME NEW l \in Loader, Take(l) \/ Answer(l) \/ EndLoader(l)  PROVE StreamInv'
    BY <1>1, <2>6, TakeInv, AnswerInv, EndLoaderInv
  <2>7. CASE UNCHANGED streamVars
    <3>1. Item' = Item /\ Busy' = Busy /\ Loading' = Loading /\ Pending' = Pending
      BY <2>7 DEF Item, Busy, Loading, Pending, streamVars
    <3>2. StreamTypes'
      BY <1>1, <2>7, <3>1 DEF StreamInv, StreamTypes, streamVars
    <3>3. EachOnce'
      BY <1>1, <2>7, <3>1 DEF StreamInv, EachOnce, streamVars
    <3>. QED  BY <1>1, <2>7, <3>1, <3>2, <3>3, PendingMoved DEF streamVars
  <2>. QED  BY <1>1, <2>1, <2>2, <2>3, <2>4, <2>5, <2>6, <2>7 DEF StreamNext
<1>. QED  BY <1>1, StreamInitInv, PTL DEF StreamSpec

\* No tree is given to the consumer twice, and a stream that ends without an error has
\* given all trees below its roots and no others, for any trees, roots and threads.
THEOREM StreamGivesAllTrees == StreamSpec => []StreamedExactly
<1>1. ASSUME StreamInv  PROVE StreamedExactly
  <2>1. \A i, j \in DOMAIN got : got[i] = got[j] => i = j
    BY <1>1 DEF StreamInv, EachOnce, IsInjective
  <2>2. ASSUME consumer = "done"  PROVE Range(got) = Reachable
    <3>1. visited = Range(got) /\ Range(got) \subseteq Reachable
      BY <1>1, <2>2 DEF StreamInv, NothingLost, CountersRight, VisitedBelow, TreesOf
    <3>2. Range(roots) \subseteq Range(got)
      <4>1. roots \in Seq(Tree) /\ new = <<>>
        BY <1>1, <2>2 DEF StreamInv, StreamTypes, RootsInOrder
      <4>2. DOMAIN roots = Added
        BY <4>1 DEF Added
      <4>. QED  BY <1>1, <3>1, <4>2 DEF StreamInv, VisitedBelow, Range
    <3>3. Range(got) \in SUBSET Tree /\ SubtreesIn(Range(got))
      BY <1>1, <3>1, <3>2 DEF StreamInv, StreamTypes, VisitedBelow, SubtreesIn
    <3>. QED  BY <3>1, <3>3, ReachableIsLeast
  <2>. QED  BY <2>1, <2>2 DEF StreamedExactly
<1>. QED  BY <1>1, StreamInvariant, PTL

-----------------------------------------------------------------------------
(***************************************************************************)
(* Hot/cold repositories: every listed file can be read, for any number of *)
(* processes and files, if `repair hotcold` runs exclusively.              *)
(***************************************************************************)
LEMMA InitHolds ==
    ASSUME StartsReadable, Init
    PROVE  HotColdInv
BY HotColdAssumption DEF StartsReadable, Init, HotColdInv, TypeOK, ListedReadable, OwnsFile,
   NoRepair, Idle, InHot, File

LEMMA WriteFirstKeeps ==
    ASSUME HotColdInv, Exclusive, NEW p \in Proc, NEW f \in File, WriteFirst(p, f)
    PROVE  HotColdInv'
<1> USE DEF WriteFirst, HotColdInv, MayStart, Idle, InHot
<1>1. TypeOK'
  BY HotColdAssumption DEF TypeOK, File
<1>2. ListedReadable'
  BY DEF TypeOK, ListedReadable
<1>3. OwnsFile'
  <2>1. op'[p] = [pc |-> "write", file |-> f] /\ \A q \in Proc : q # p => op'[q] = op[q]
    BY DEF TypeOK
  <2>2. hot[f] = 0 /\ cold[f] = 0 /\ \A q \in Proc : op[q].pc \in {"write", "remove", "failed"} => op[q].file # f
    BY DEF OwnsFile, TypeOK
  <2>3. \A q \in Proc : op[q].pc \in {"idle", "write", "remove", "failed"}
    BY DEF TypeOK
  <2>4. InHot(f) => hot'[f] # 0
    BY HotColdAssumption DEF TypeOK
  <2>5. \A g \in File : g # f => hot'[g] = hot[g]
    BY DEF TypeOK
  <2> HIDE DEF WriteFirst, InHot
  <2>6. cold' = cold /\ born' = born \cup {f} /\ rep' = rep /\ rep.pc # "copy"
    BY DEF WriteFirst
  <2>7. ASSUME NEW q \in Proc
        PROVE  /\ op'[q].pc \in {"write", "remove", "failed"} => op'[q].file \in born' /\ cold'[op'[q].file] = 0
               /\ op'[q].pc = "write" /\ InHot(op'[q].file) => hot'[op'[q].file] # 0
    <3>1. CASE q = p
      BY <2>1, <2>2, <2>4, <2>6, <3>1 DEF OwnsFile
    <3>2. CASE q # p
      <4>1. op'[q] = op[q] /\ (op[q].pc \in {"write", "remove", "failed"} => op[q].file # f /\ op[q].file \in File)
        BY <2>1, <2>2, <3>2 DEF TypeOK
      <4> QED BY <4>1, <2>5, <2>6 DEF OwnsFile
    <3> QED BY <3>1, <3>2
  <2>8. \A q, r \in Proc : q # r /\ op'[q].pc = "write" /\ op'[r].pc # "idle" => op'[q].file # op'[r].file
    BY <2>1, <2>2, <2>3 DEF OwnsFile
  <2>9. \A g \in File : hot'[g] # 0 \/ cold'[g] # 0 => g \in born'
    BY <2>5, <2>6 DEF OwnsFile
  <2> QED BY <2>6, <2>7, <2>8, <2>9 DEF OwnsFile, InHot
<1> QED BY <1>1, <1>2, <1>3

LEMMA WriteColdKeeps ==
    ASSUME HotColdInv, Exclusive, NEW p \in Proc, WriteCold(p)
    PROVE  HotColdInv'
<1> USE DEF WriteCold, HotColdInv, Idle
<1>0. op[p].file \in File /\ op[p].pc = "write"
  BY DEF TypeOK
<1>1. TypeOK'
  BY <1>0, HotColdAssumption DEF TypeOK
<1>2. ListedReadable'
  BY <1>0 DEF TypeOK, ListedReadable, OwnsFile
<1>3. OwnsFile'
  <2>1. op'[p] = [pc |-> "idle"] /\ \A q \in Proc : q # p => op'[q] = op[q]
    BY DEF TypeOK
  <2>2. \A q \in Proc : q # p /\ op[q].pc # "idle" => op[q].file # op[p].file
    BY <1>0 DEF OwnsFile
  <2>3. \A q \in Proc : op'[q].pc \in {"write", "remove", "failed"} =>
           q # p /\ op'[q] = op[q] /\ op[q].file \in File /\ op[q].pc # "idle"
    BY <2>1 DEF TypeOK
  <2>4. \A g \in File : g # op[p].file => cold'[g] = cold[g]
    BY DEF TypeOK
  <2>5. op[p].file \in born /\ hot' = hot /\ born' = born /\ rep' = rep /\ rep.pc # "copy"
    BY <1>0 DEF OwnsFile
  <2>6. \A q \in Proc : op'[q].pc \in {"idle", "write", "remove", "failed"}
    BY <1>1 DEF TypeOK
  <2> QED BY <2>1, <2>2, <2>3, <2>4, <2>5, <2>6 DEF OwnsFile, InHot
<1> QED BY <1>1, <1>2, <1>3

LEMMA RemoveFirstKeeps ==
    ASSUME HotColdInv, Exclusive, NEW p \in Proc, NEW f \in File, NEW cacheable \in BOOLEAN,
           RemoveFileFirst(p, f, cacheable)
    PROVE  HotColdInv'
<1> USE DEF RemoveFileFirst, HotColdInv, MayStart, Idle
<1>1. TypeOK'
  BY HotColdAssumption DEF TypeOK
<1>2. ListedReadable'
  BY DEF TypeOK, ListedReadable
<1>3. OwnsFile'
  <2>1. /\ op'[p] \in {[pc |-> "idle"], [pc |-> "remove", file |-> f]}
        /\ \A q \in Proc : q # p => op'[q] = op[q]
    BY DEF TypeOK
  <2>2. f \in born /\ cold'[f] = 0 /\ \A g \in File : g # f => cold'[g] = cold[g]
    BY DEF OwnsFile, TypeOK
  <2>3. \A q \in Proc : op[q].pc \in {"write", "remove", "failed"} => op[q].file # f /\ op[q].file \in File
    BY DEF OwnsFile, TypeOK
  <2>4. \A q \in Proc : op[q].pc \in {"idle", "write", "remove", "failed"}
    BY DEF TypeOK
  <2>5. hot' = hot /\ born' = born /\ rep' = rep /\ rep.pc # "copy"
    OBVIOUS
  <2>6. \A q \in Proc : op'[q].pc = "write" => q # p /\ op'[q] = op[q]
    BY <2>1
  <2>7. \A q \in Proc : op'[q].pc \in {"write", "remove", "failed"} =>
           op'[q].file \in born /\ cold'[op'[q].file] = 0
    BY <2>1, <2>2, <2>3 DEF OwnsFile
  <2>8. \A q, r \in Proc : q # r /\ op'[q].pc = "write" /\ op'[r].pc # "idle" => op'[q].file # op'[r].file
    BY <2>1, <2>3, <2>4 DEF OwnsFile
  <2>9. \A q \in Proc : op'[q].pc = "write" /\ InHot(op'[q].file) => hot'[op'[q].file] # 0
    BY <2>5, <2>6 DEF OwnsFile
  <2>10. \A g \in File : hot'[g] # 0 \/ cold'[g] # 0 => g \in born'
    BY <2>2, <2>5 DEF OwnsFile
  <2> QED BY <2>5, <2>7, <2>8, <2>9, <2>10 DEF OwnsFile, InHot
<1> QED BY <1>1, <1>2, <1>3

LEMMA RemoveHotKeeps ==
    ASSUME HotColdInv, Exclusive, NEW p \in Proc, RemoveHot(p)
    PROVE  HotColdInv'
<1> USE DEF RemoveHot, HotColdInv, Idle
<1>0. op[p].file \in File /\ op[p].pc = "remove"
  BY DEF TypeOK
<1>1. TypeOK'
  BY <1>0, HotColdAssumption DEF TypeOK
<1>2. ListedReadable'
  BY <1>0 DEF TypeOK, ListedReadable, OwnsFile
<1>3. OwnsFile'
  <2>1. /\ op'[p].pc \in {"idle", "failed"} /\ (op'[p].pc = "failed" => op'[p].file = op[p].file)
        /\ \A q \in Proc : q # p => op'[q] = op[q]
    BY <1>0 DEF TypeOK
  <2>2. \A q \in Proc : q # p /\ op[q].pc = "write" => op[q].file # op[p].file /\ op[q].file \in File
    BY <1>0 DEF OwnsFile, TypeOK
  <2>3. /\ \A g \in File : g # op[p].file => hot'[g] = hot[g]
        /\ \A g \in File : hot'[g] # 0 => hot[g] # 0
    BY DEF TypeOK
  <2>4. cold' = cold /\ born' = born /\ rep' = rep /\ rep.pc # "copy"
    BY <1>0 DEF OwnsFile
  <2>5. \A q \in Proc : op[q].pc \in {"idle", "write", "remove", "failed"}
    BY DEF TypeOK
  <2> QED BY <1>0, <2>1, <2>2, <2>3, <2>4, <2>5 DEF OwnsFile, InHot
<1> QED BY <1>1, <1>2, <1>3

LEMMA CrashKeeps ==
    ASSUME HotColdInv, Exclusive, NEW p \in Proc, Crash(p)
    PROVE  HotColdInv'
<1> USE DEF Crash, HotColdInv, Idle
<1>1. TypeOK'
  BY DEF TypeOK
<1>2. ListedReadable'
  BY DEF ListedReadable, InHot
<1>3. OwnsFile'
  <2>1. op'[p] = [pc |-> "idle"] /\ \A q \in Proc : q # p => op'[q] = op[q]
    BY DEF TypeOK
  <2> QED BY <2>1 DEF OwnsFile, InHot
<1> QED BY <1>1, <1>2, <1>3

LEMMA RepairKeeps ==
    ASSUME HotColdInv, Exclusive, RepairNext
    PROVE  HotColdInv'
<1>1. CASE RepairStart
  <2>1. TypeOK'
    BY <1>1, HotColdAssumption DEF RepairStart, HotColdInv, TypeOK, File
  <2> QED BY <1>1, <2>1 DEF RepairStart, HotColdInv, ListedReadable, OwnsFile, InHot
<1>2. CASE RepairCopy
  <2>1. TypeOK'
    BY <1>2, HotColdAssumption DEF RepairCopy, HotColdInv, TypeOK
  <2>2. ListedReadable'
    BY <1>2 DEF RepairCopy, HotColdInv, TypeOK, ListedReadable, InHot
  <2>3. \A f \in File : hot'[f] # 0 \/ cold'[f] # 0 => f \in born'
    BY <1>2 DEF RepairCopy, HotColdInv, TypeOK, OwnsFile
  <2>4. \A p \in Proc : op'[p] = [pc |-> "idle"]
    BY <1>2 DEF RepairCopy, HotColdInv, OwnsFile, Idle
  <2> QED BY <2>1, <2>2, <2>3, <2>4 DEF HotColdInv, OwnsFile, Idle
<1>3. CASE RepairDone \/ RepairStop
  <2>1. TypeOK' /\ rep'.pc # "copy"
    BY <1>3 DEF RepairDone, RepairStop, NoRepair, HotColdInv, TypeOK
  <2> QED BY <1>3, <2>1 DEF RepairDone, RepairStop, HotColdInv, ListedReadable, OwnsFile, InHot
<1> QED BY <1>1, <1>2, <1>3 DEF RepairNext

\* The invariant: a listed file is in the part from which it is read, and every
\* operation between its two steps is alone with its file (HotColdBackend).
THEOREM HotColdInvariant ==
    ASSUME Exclusive, StartsReadable
    PROVE  Spec => []HotColdInv
<1>1. Init => HotColdInv
  BY InitHolds
<1>2. HotColdInv /\ [Next]_vars => HotColdInv'
  <2> SUFFICES ASSUME HotColdInv, [Next]_vars PROVE HotColdInv'
    OBVIOUS
  <2>1. CASE RepairNext
    BY <2>1, RepairKeeps
  <2>2. ASSUME NEW p \in Proc, ProcNext(p) PROVE HotColdInv'
    BY <2>2, WriteFirstKeeps, WriteColdKeeps, RemoveFirstKeeps, RemoveHotKeeps, CrashKeeps
       DEF ProcNext, RemoveFile
  <2>3. CASE UNCHANGED vars
    BY <2>3 DEF vars, HotColdInv, TypeOK, ListedReadable, OwnsFile, InHot
  <2> QED BY <2>1, <2>2, <2>3 DEF Next
<1> QED BY <1>1, <1>2, PTL DEF Spec

\* Every file a listing of the cold part names can be read in the part from which
\* HotColdBackend reads it, wherever other processes have stopped.
THEOREM ListedFilesReadable ==
    ASSUME Exclusive, StartsReadable
    PROVE  Spec => []ListedReadable
<1>1. HotColdInv => ListedReadable
  BY DEF HotColdInv
<1> QED BY <1>1, HotColdInvariant, PTL

-----------------------------------------------------------------------------
(***************************************************************************)
(* repair hotcold: whatever is missing or truncated at the beginning.      *)
(***************************************************************************)

\* A step of a process does not touch the parts while a repair copies.
LEMMA ProcKeepsRepair ==
    ASSUME RepairInv, Exclusive, NEW p \in Proc, ProcNext(p)
    PROVE  RepairInv'
<1> USE DEF RepairInv, Idle
<1>1. UNCHANGED rep
  BY DEF ProcNext, WriteFirst, WriteCold, RemoveFile, RemoveFileFirst, RemoveHot, Crash
<1>2. TypeOK'
  <2>1. ASSUME NEW f \in File, WriteFirst(p, f)  PROVE TypeOK'
    BY <2>1, HotColdAssumption DEF WriteFirst, TypeOK
  <2>2. CASE WriteCold(p)
    <3>1. op[p].file \in File
      BY <2>2 DEF WriteCold, TypeOK
    <3> QED BY <2>2, <3>1, HotColdAssumption DEF WriteCold, TypeOK
  <2>3. ASSUME NEW f \in File, NEW c \in BOOLEAN, RemoveFileFirst(p, f, c)  PROVE TypeOK'
    BY <2>3, HotColdAssumption DEF RemoveFileFirst, TypeOK
  <2>4. CASE RemoveHot(p)
    <3>1. op[p].file \in File /\ op[p] \in [pc : {"write", "remove", "failed"}, file : File]
      BY <2>4 DEF RemoveHot, TypeOK
    <3>2. [op[p] EXCEPT !.pc = "failed"] \in [pc : {"write", "remove", "failed"}, file : File]
      BY <3>1
    <3> QED BY <2>4, <3>1, <3>2, HotColdAssumption DEF RemoveHot, TypeOK
  <2>5. CASE Crash(p)
    BY <2>5 DEF Crash, TypeOK
  <2> QED BY <2>1, <2>2, <2>3, <2>4, <2>5 DEF ProcNext, RemoveFile
<1>3. rep.pc # "copy"
  <2>1. rep.pc = "copy" => op[p].pc = "idle"
    BY DEF RepairAlone
  <2> QED BY <2>1 DEF ProcNext, WriteFirst, MayStart, WriteCold, RemoveFile, RemoveFileFirst, RemoveHot, Crash,
                      RepairAlone
<1> QED BY <1>1, <1>2, <1>3 DEF RepairAlone, RestoredSoFar

LEMMA RepairKeepsRepair ==
    ASSUME RepairInv, Exclusive, RepairNext
    PROVE  RepairInv'
<1> USE DEF RepairInv
<1>1. CASE RepairStart
  <2>1. PICK known \in SUBSET TreePack :
           rep' = [pc |-> "copy", missing |-> {f \in Meta \cup known : (hot[f] = 0) # (cold[f] = 0)},
                   toCold |-> {f \in Meta \cup known : hot[f] # 0} \ Common,
                   toHot |-> {f \in Meta \cup known : cold[f] # 0} \ Common]
    BY <1>1 DEF RepairStart
  <2>2. UNCHANGED <<hot, cold, born, op>> /\ \A p \in Proc : op[p] = Idle
    BY <1>1 DEF RepairStart
  <2>3. TypeOK'
    BY <2>1, <2>2 DEF TypeOK, File
  <2>4. RestoredSoFar'
    BY <2>1, <2>2 DEF RestoredSoFar, Common, TypeOK, File
  <2> QED BY <2>2, <2>3, <2>4 DEF RepairAlone
<1>2. CASE RepairCopy
  <2>1. TypeOK'
    BY <1>2, HotColdAssumption DEF RepairCopy, TypeOK
  <2>2. RepairAlone'
    BY <1>2 DEF RepairCopy, RepairAlone
  <2>3. RestoredSoFar'
    BY <1>2 DEF RepairCopy, RestoredSoFar, TypeOK
  <2> QED BY <2>1, <2>2, <2>3
<1>3. CASE RepairDone \/ RepairStop
  <2>1. TypeOK' /\ rep'.pc # "copy"
    BY <1>3 DEF RepairDone, RepairStop, NoRepair, TypeOK
  <2> QED BY <2>1 DEF RepairAlone, RestoredSoFar
<1> QED BY <1>1, <1>2, <1>3 DEF RepairNext

THEOREM RepairInvariant ==
    ASSUME Exclusive
    PROVE  Spec => []RepairInv
<1>1. Init => RepairInv
  BY HotColdAssumption DEF Init, RepairInv, TypeOK, RepairAlone, RestoredSoFar, NoRepair, Idle, File
<1>2. RepairInv /\ [Next]_vars => RepairInv'
  <2> SUFFICES ASSUME RepairInv, [Next]_vars PROVE RepairInv'
    OBVIOUS
  <2>1. CASE UNCHANGED vars
    BY <2>1 DEF vars, RepairInv, TypeOK, RepairAlone, RestoredSoFar
  <2> QED BY <2>1, ProcKeepsRepair, RepairKeepsRepair DEF Next
<1> QED BY <1>1, <1>2, PTL DEF Spec

\* When `repair hotcold` is done, every file that one part was missing when it looked is
\* in both, with the same size, in whatever state a crash or a lost part had left them
\* (get_missing_files compares the listings, files are copied in both directions).
THEOREM RepairRestoresFiles ==
    ASSUME Exclusive
    PROVE  Spec => RepairRestores
<1>1. RepairInv /\ [Next]_vars => [RepairDone => \A f \in rep.missing : hot[f] = cold[f] /\ hot[f] # 0]_vars
  BY DEF RepairInv, RepairDone, RestoredSoFar
<1> QED BY <1>1, RepairInvariant, PTL DEF Spec, RepairRestores


-----------------------------------------------------------------------------
(***************************************************************************)
(* Restore reads warm packs only.                                          *)
(***************************************************************************)
\* The packs with a blob that the destination has nowhere are warmed up batch by batch;
\* those that are done grow until they are all of them.  Then they are waited for.
Commanded == job.warm_up \notin {"none", "access"}
WarmedSoFar ==
    /\ phase = "warming" /\ Commanded => to_packs \subseteq warm.left \cup warm.up
    /\ phase \in {"waiting", "warmed", "empty", "contents"} /\ Commanded => to_packs \subseteq warm.up
    /\ phase = "waiting" => to_packs \subseteq warm.left \cup warm.ready
    /\ phase \in {"warmed", "empty", "contents"} /\ job.wait = "command" => to_packs \subseteq warm.ready

\* Work for the threads is made when the plan is through; what is not read from a file
\* has a blob that is in none.
TasksOK ==
    /\ phase \in {"prepare", "collect"} => tasks = {}
    /\ \A t \in tasks : t.from_file = <<>> => t.pack \in to_packs

WarmInv ==
    /\ warm = [left |-> warm.left, up |-> warm.up, ready |-> warm.ready]
    /\ WarmedSoFar /\ TasksOK /\ PacksWarm

LEMMA SamePlan ==
  ASSUME plan' = plan
  PROVE  to_packs' = to_packs
  BY DEF to_packs, Needed, AllMissing, Blobs

LEMMA WarmUpdates ==
  ASSUME NEW w, w = [left |-> w.left, up |-> w.up, ready |-> w.ready], NEW a, NEW b
  PROVE  /\ [w EXCEPT !.left = a] = [left |-> a, up |-> w.up, ready |-> w.ready]
         /\ [w EXCEPT !.left = a, !.up = b] = [left |-> a, up |-> b, ready |-> w.ready]
         /\ [w EXCEPT !.left = a, !.ready = b] = [left |-> a, up |-> w.up, ready |-> b]
<1>. DEFINE v == [w EXCEPT !.left = a]
<1>1. v = [left |-> a, up |-> w.up, ready |-> w.ready]
  OBVIOUS
<1>2. /\ [w EXCEPT !.left = a, !.up = b] = [v EXCEPT !.up = b]
      /\ [w EXCEPT !.left = a, !.ready = b] = [v EXCEPT !.ready = b]
  OBVIOUS
<1>3. [v EXCEPT !.up = b] = [left |-> a, up |-> b, ready |-> w.ready]
  <2>. HIDE DEF v
  <2>. QED  BY <1>1
<1>4. [v EXCEPT !.ready = b] = [left |-> a, up |-> w.up, ready |-> b]
  <2>. HIDE DEF v
  <2>. QED  BY <1>1
<1>. QED  BY <1>1, <1>2, <1>3, <1>4

\* Steps that neither plan nor warm up nor read
LEMMA WarmStays ==
  ASSUME WarmInv, UNCHANGED <<job, plan, warm, packsRead>>, tasks' \subseteq tasks,
         \/ phase' = phase
         \/ phase = "prepare" /\ phase' = "collect"
         \/ phase = "empty" /\ phase' = "contents"
         \/ phase' \in {"warm", "metadata", "done", "failed", "cancelled"}
  PROVE  WarmInv'
<1>1. to_packs' = to_packs
  BY SamePlan
<1>2. WarmedSoFar'
  BY <1>1 DEF WarmInv, WarmedSoFar, Commanded
<1>3. TasksOK'
  BY <1>1 DEF WarmInv, TasksOK
<1>. QED  BY <1>2, <1>3 DEF WarmInv, PacksWarm, Random

\* The plan changes as long as there is no work.
LEMMA CollectStays ==
  ASSUME WarmInv, CollectBoth \/ CollectNode
  PROVE  WarmInv'
<1>1. /\ phase = "collect" /\ phase' \in {"collect", "failed"} /\ UNCHANGED <<job, warm, packsRead, tasks>>
  BY DEF CollectBoth, CollectNode, Collecting, process_node, pool
<1>2. WarmedSoFar'
  BY <1>1 DEF WarmedSoFar
<1>3. TasksOK'
  BY <1>1 DEF WarmInv, TasksOK
<1>. QED  BY <1>1, <1>2, <1>3 DEF WarmInv, PacksWarm, Random

LEMMA WarmUpSteps ==
  ASSUME WarmInv, WarmUp \/ WarmUpBatch \/ WarmUpDone \/ WaitBatch
  PROVE  WarmInv'
<1>1. UNCHANGED <<job, plan, packsRead, tasks>> /\ phase' \notin {"prepare", "collect"}
  BY DEF WarmUp, WarmUpBatch, WarmUpDone, WaitBatch, walk, pool
<1>2. to_packs' = to_packs
  BY <1>1, SamePlan
<1>3. warm = [left |-> warm.left, up |-> warm.up, ready |-> warm.ready] /\ WarmedSoFar /\ PacksWarm
  BY DEF WarmInv
<1>4. TasksOK'
  BY <1>1, <1>2 DEF WarmInv, TasksOK
<1>5. /\ warm' = [left |-> warm'.left, up |-> warm'.up, ready |-> warm'.ready]
      /\ warm.up \subseteq warm'.up /\ warm.ready \subseteq warm'.ready /\ WarmedSoFar'
  <2>1. CASE WarmUp
    <3>1. warm' = [left |-> to_packs, up |-> warm.up, ready |-> warm.ready]
      BY <1>3, <2>1, WarmUpdates DEF WarmUp
    <3>2. phase' = IF to_packs = {} THEN "warmed" ELSE "warming"
      BY <2>1 DEF WarmUp
    <3>. QED  BY <1>1, <1>2, <3>1, <3>2 DEF WarmedSoFar
  <2>2. CASE WarmUpBatch
    <3>1. CASE ~Commanded
      <4>1. PICK left, up : warm' = [left |-> left, up |-> warm.up \cup up, ready |-> warm.ready]
        <5>1. \/ warm' = [warm EXCEPT !.left = {}]
              \/ \E batch, ok : warm' = [warm EXCEPT !.left = warm.left \ batch, !.up = warm.up \cup ok]
          BY <2>2 DEF WarmUpBatch
        <5>2. CASE warm' = [warm EXCEPT !.left = {}]
          <6>1. warm' = [left |-> {}, up |-> warm.up \cup {}, ready |-> warm.ready]
            BY <1>3, <5>2, WarmUpdates
          <6>. QED  BY <6>1
        <5>3. ASSUME NEW batch, NEW ok, warm' = [warm EXCEPT !.left = warm.left \ batch, !.up = warm.up \cup ok]
              PROVE  \E left, up : warm' = [left |-> left, up |-> warm.up \cup up, ready |-> warm.ready]
          <6>1. warm' = [left |-> warm.left \ batch, up |-> warm.up \cup ok, ready |-> warm.ready]
            BY <1>3, <5>3, WarmUpdates
          <6>. QED  BY <6>1
        <5>. QED  BY <5>1, <5>2, <5>3
      <4>2. phase' \in {"warming", "failed"}
        BY <2>2 DEF WarmUpBatch
      <4>. QED  BY <1>1, <3>1, <4>1, <4>2 DEF WarmedSoFar, Commanded
    <3>2. CASE Commanded
      <4>1. PICK batch, ok : /\ warm' = [warm EXCEPT !.left = warm.left \ batch, !.up = warm.up \cup ok]
                             /\ phase' = IF Succeeded(job.warm_up, batch, ok) THEN "warming" ELSE "failed"
                             /\ phase = "warming"
        BY <2>2, <3>2 DEF WarmUpBatch, Commanded
      <4>2. warm' = [left |-> warm.left \ batch, up |-> warm.up \cup ok, ready |-> warm.ready]
        BY <1>3, <4>1, WarmUpdates
      <4>3. phase' = "failed" \/ (phase' = "warming" /\ ok = batch)
        BY <3>2, <4>1 DEF Succeeded, Commanded
      <4>4. to_packs \subseteq warm.left \cup warm.up
        BY <1>3, <3>2, <4>1 DEF WarmedSoFar
      <4>. QED  BY <1>1, <1>2, <4>2, <4>3, <4>4 DEF WarmedSoFar
    <3>. QED  BY <3>1, <3>2
  <2>3. CASE WarmUpDone
    <3>1. warm' = [left |-> to_packs, up |-> warm.up, ready |-> warm.ready]
      BY <1>3, <2>3, WarmUpdates DEF WarmUpDone
    <3>2. /\ phase' = IF job.wait = "command" THEN "waiting" ELSE "warmed"
          /\ phase = "warming" /\ warm.left = {}
      BY <2>3 DEF WarmUpDone
    <3>3. Commanded => to_packs \subseteq warm.up
      BY <1>3, <3>2 DEF WarmedSoFar
    <3>. QED  BY <1>1, <1>2, <3>1, <3>2, <3>3 DEF WarmedSoFar, Commanded
  <2>4. CASE WaitBatch
    <3>1. PICK batch, ok : /\ warm' = [warm EXCEPT !.left = warm.left \ batch, !.ready = warm.ready \cup ok]
                           /\ phase = "waiting"
                           /\ phase' = IF ~Succeeded("singular", batch, ok) THEN "failed"
                                       ELSE IF batch = warm.left THEN "warmed" ELSE "waiting"
      BY <2>4 DEF WaitBatch
    <3>2. warm' = [left |-> warm.left \ batch, up |-> warm.up, ready |-> warm.ready \cup ok]
      BY <1>3, <3>1, WarmUpdates
    <3>3. phase' = "failed" \/ (ok = batch /\ (phase' = "waiting" \/ (phase' = "warmed" /\ batch = warm.left)))
      BY <3>1 DEF Succeeded
    <3>4. to_packs \subseteq warm.left \cup warm.ready /\ (Commanded => to_packs \subseteq warm.up)
      BY <1>3, <3>1 DEF WarmedSoFar
    <3>. QED  BY <1>1, <1>2, <3>2, <3>3, <3>4 DEF WarmedSoFar, Commanded
  <2>. QED  BY <2>1, <2>2, <2>3, <2>4
<1>6. PacksWarm'
  BY <1>1, <1>3, <1>5 DEF PacksWarm, Random
<1>. QED  BY <1>4, <1>5, <1>6 DEF WarmInv

LEMMA StartStep ==
  ASSUME WarmInv, StartContents
  PROVE  WarmInv'
<1>1. /\ UNCHANGED <<job, plan, warm, packsRead>> /\ phase = "warmed" /\ phase' = "empty" /\ tasks' = PackInfos
  BY DEF StartContents, walk
<1>2. to_packs' = to_packs
  BY <1>1, SamePlan
\* Reading begins with a blob that is in no file.
<1>3. \A t \in PackInfos : t.from_file = <<>> => t.pack \in to_packs
  <2>1. ASSUME NEW b \in Needed, Info(b).from_file = <<>>  PROVE Info(b).pack \in to_packs
    <3>. DEFINE found == plan.r[b][Min({i \in DOMAIN plan.r[b] : plan.r[b][i].matches})]
                blobs == [i \in 1 .. Cardinality({c \in Needed : c = b \/ coalesce(b, c)}) |-> b + i - 1]
    <3>1. Info(b) = [pack |-> PackOf[b], blobs |-> blobs, from_file |-> IF AllMissing(b) THEN <<>> ELSE <<found>>]
      BY DEF Info
    <3>. HIDE DEF found, blobs
    <3>2. <<found>> # <<>>
      OBVIOUS
    <3>3. AllMissing(b) /\ Info(b).pack = PackOf[b]
      BY <2>1, <3>1, <3>2
    <3>. QED  BY <3>3 DEF to_packs
  <2>. QED  BY <2>1 DEF PackInfos
<1>4. WarmedSoFar'
  BY <1>1, <1>2 DEF WarmInv, WarmedSoFar, Commanded
<1>5. TasksOK'
  BY <1>1, <1>2, <1>3 DEF TasksOK
<1>. QED  BY <1>1, <1>4, <1>5 DEF WarmInv, PacksWarm, Random

LEMMA ReadStep ==
  ASSUME WarmInv, NEW t \in tasks, ReadPack(t)
  PROVE  WarmInv'
<1>1. /\ UNCHANGED <<job, plan, warm, phase>> /\ phase = "contents" /\ tasks' = tasks \ {t}
      /\ packsRead' = IF Random /\ t.from_file # <<>> THEN packsRead ELSE packsRead \cup {t.pack}
  BY DEF ReadPack, Working, walk
<1>2. to_packs' = to_packs
  BY <1>1, SamePlan
<1>3. WarmedSoFar' /\ TasksOK'
  BY <1>1, <1>2 DEF WarmInv, WarmedSoFar, TasksOK, Commanded
<1>4. PacksWarm'
  <2>1. Random /\ packsRead' # packsRead => t.pack \in to_packs /\ packsRead' = packsRead \cup {t.pack}
    BY <1>1 DEF WarmInv, TasksOK
  <2>2. Commanded => to_packs \subseteq warm.up
    BY <1>1 DEF WarmInv, WarmedSoFar
  <2>3. job.wait = "command" => to_packs \subseteq warm.ready
    BY <1>1 DEF WarmInv, WarmedSoFar
  <2>. QED  BY <1>1, <2>1, <2>2, <2>3 DEF WarmInv, PacksWarm, Commanded, Random
<1>. QED  BY <1>1, <1>3, <1>4 DEF WarmInv

\* A pack is read for a local destination only after the warm-up command has succeeded
\* for it and, if there is a command that waits, that one too: whichever batches the
\* packs are in, which fail, and which blobs are read together with others because they
\* follow them in the pack.
THEOREM RestoreReadsWarm == RestoreSpec => []PacksWarm
<1>1. RestoreInit => WarmInv
  BY DEF RestoreInit, WarmInv, WarmedSoFar, TasksOK, PacksWarm
<1>2. ASSUME WarmInv, [RestoreNext]_restoreVars  PROVE WarmInv'
  <2>1. CASE CollectBoth \/ CollectNode
    BY <1>2, <2>1, CollectStays
  <2>2. CASE WarmUp \/ WarmUpBatch \/ WarmUpDone \/ WaitBatch
    BY <1>2, <2>2, WarmUpSteps
  <2>3. CASE StartContents
    BY <1>2, <2>3, StartStep
  <2>4. ASSUME NEW t \in tasks, ReadPack(t)  PROVE WarmInv'
    BY <1>2, <2>4, ReadStep
  <2>5. CASE Prepare \/ CollectExisting \/ CollectDone
    BY <1>2, <2>5, WarmStays DEF Prepare, CollectExisting, CollectDone, walk, pool
  <2>6. CASE EmptyDone \/ ContentsDone \/ Abandon
    BY <1>2, <2>6, WarmStays DEF EmptyDone, ContentsDone, Abandon, walk, pool
  <2>7. ASSUME NEW f \in Files, EmptyFile(f)  PROVE WarmInv'
    BY <1>2, <2>7, WarmStays DEF EmptyFile, walk, pool
  <2>8. ASSUME NEW w \in writes, Write(w)  PROVE WarmInv'
    BY <1>2, <2>8, WarmStays DEF Write, walk
  <2>9. ASSUME NEW s \in senders, Send(s)  PROVE WarmInv'
    BY <1>2, <2>9, WarmStays DEF Send, walk
  <2>10. ASSUME NEW f \in DOMAIN writer, ReceivePiece(f)  PROVE WarmInv'
    BY <1>2, <2>10, WarmStays DEF ReceivePiece, walk
  <2>11. CASE Metadata \/ MetadataDone \/ Cancelled \/ Cancel \/ UNCHANGED restoreVars
    BY <1>2, <2>11, WarmStays DEF Metadata, MetadataDone, Cancelled, Cancel, restoreVars, walk, pool
  <2>. QED
    BY <1>2, <2>1, <2>2, <2>3, <2>4, <2>5, <2>6, <2>7, <2>8, <2>9, <2>10, <2>11 DEF RestoreNext, Step
<1>3. WarmInv => PacksWarm
  BY DEF WarmInv
<1>. QED
  BY <1>1, <1>2, <1>3, PTL DEF RestoreSpec
=============================================================================
