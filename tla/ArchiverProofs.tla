--------------------------- MODULE ArchiverProofs ---------------------------
(***************************************************************************)
(* A canceled backup never saves a partial snapshot, and a saved snapshot  *)
(* is that of the source and stored completely, for every source, every    *)
(* set of parents and any number of threads.                               *)
(***************************************************************************)
EXTENDS Archiver, FiniteSetTheorems, SequenceTheorems, TLAPS

-----------------------------------------------------------------------------
(***************************************************************************)
(* Induction over numbers, for a set instead of a predicate                *)
(***************************************************************************)
Smaller == {ss \in Nat \X Nat : ss[1] < ss[2]}

\* Every set of numbers that is not empty has a smallest one.
LEMMA LeastNumber ==
  ASSUME NEW T, T \subseteq Nat, T # {}
  PROVE  \E x \in T : \A y \in T : ~(y < x)
<1>1. IsWellFoundedOn(Smaller, Nat)
  BY NatLessThanWellFounded DEF OpToRel, Smaller
<1>2. \E x \in T : \A y \in T : ~(<<y, x>> \in Smaller)
  BY <1>1, WFMin
<1>3. \A x, y \in Nat : y < x => <<y, x>> \in Smaller
  BY DEF Smaller
<1>. QED  BY <1>2, <1>3

\* A set that has 0 and the successor of each of its numbers has all numbers.
LEMMA SetInduction ==
  ASSUME NEW S, 0 \in S, \A n \in Nat : n \in S => n + 1 \in S
  PROVE  Nat \subseteq S
<1>. DEFINE T == Nat \ S
<1>. SUFFICES ASSUME T # {}  PROVE FALSE
  OBVIOUS
<1>1. PICK x \in T : \A y \in T : ~(y < x)
  BY LeastNumber
<1>2. x # 0 /\ x - 1 \in Nat /\ x - 1 < x
  BY <1>1
<1>3. x - 1 \in S
  BY <1>1, <1>2
<1>. QED  BY <1>1, <1>2, <1>3

-----------------------------------------------------------------------------
(***************************************************************************)
(* Sequences of anything                                                   *)
(***************************************************************************)
LEMMA SequenceFacts ==
  ASSUME NEW s, IsSequence(s)
  PROVE  /\ Len(s) \in Nat /\ DOMAIN s = 1 .. Len(s) /\ s = [i \in 1 .. Len(s) |-> s[i]]
         /\ s # <<>> <=> Len(s) > 0
         /\ Len(s) = 0 => s = <<>>
<1>. DEFINE S == ToSet(s)
<1>1. s \in Seq(S)
  BY DEF IsSequence
<1>. HIDE DEF S
<1>. QED  BY <1>1

LEMMA MakeSequence ==
  ASSUME NEW S, NEW s \in Seq(S)
  PROVE  IsSequence(s)
<1>1. Len(s) \in Nat /\ s \in [1 .. Len(s) -> ToSet(s)]
  <2>1. Len(s) \in Nat /\ DOMAIN s = 1 .. Len(s) /\ s = [i \in 1 .. Len(s) |-> s[i]]
    OBVIOUS
  <2>2. \A i \in 1 .. Len(s) : s[i] \in ToSet(s)
    BY <2>1 DEF ToSet
  <2>. QED  BY <2>1, <2>2
<1>. DEFINE T == ToSet(s)
<1>2. s \in [1 .. Len(s) -> T]
  BY <1>1
<1>3. s \in Seq(T)
  <2>. HIDE DEF T
  <2>. QED  BY <1>1, <1>2
<1>. QED  BY <1>3 DEF IsSequence

LEMMA AppendFacts ==
  ASSUME NEW s, IsSequence(s), NEW x
  PROVE  /\ IsSequence(Append(s, x)) /\ Len(Append(s, x)) = Len(s) + 1
         /\ DOMAIN Append(s, x) = 1 .. Len(s) + 1
         /\ Append(s, x)[Len(s) + 1] = x /\ \A i \in 1 .. Len(s) : Append(s, x)[i] = s[i]
         /\ Append(s, x) # <<>> /\ Last(Append(s, x)) = x
<1>. DEFINE S == ToSet(s) \cup {x}
<1>1. s \in Seq(S) /\ x \in S
  <2>1. s \in Seq(ToSet(s))
    BY DEF IsSequence
  <2>. DEFINE T == ToSet(s)
  <2>2. T \subseteq S /\ s \in Seq(T)
    BY <2>1
  <2>. HIDE DEF T, S
  <2>3. s \in Seq(S)
    BY <2>2
  <2>. QED  BY <2>3 DEF S
<1>. HIDE DEF S
<1>2. Append(s, x) \in Seq(S) /\ Len(Append(s, x)) = Len(s) + 1 /\ Len(s) \in Nat
  BY <1>1
<1>3. IsSequence(Append(s, x))
  BY <1>2, MakeSequence
<1>. QED  BY <1>1, <1>2, <1>3 DEF Last

LEMMA TailFacts ==
  ASSUME NEW s, IsSequence(s), s # <<>>
  PROVE  /\ IsSequence(Tail(s)) /\ Len(s) \in Nat \ {0} /\ Len(Tail(s)) = Len(s) - 1
         /\ DOMAIN Tail(s) = 1 .. Len(s) - 1
         /\ Head(s) = s[1] /\ \A i \in 1 .. Len(s) - 1 : Tail(s)[i] = s[i + 1]
<1>. DEFINE S == ToSet(s)
<1>1. s \in Seq(S)
  BY DEF IsSequence
<1>. HIDE DEF S
<1>2. Tail(s) \in Seq(S) /\ Len(Tail(s)) = Len(s) - 1 /\ Len(s) \in Nat \ {0}
  BY <1>1
<1>3. IsSequence(Tail(s))
  BY <1>2, MakeSequence
<1>. QED  BY <1>1, <1>2, <1>3

LEMMA FrontFacts ==
  ASSUME NEW s, IsSequence(s), s # <<>>
  PROVE  /\ IsSequence(Front(s)) /\ Len(s) \in Nat \ {0} /\ Len(Front(s)) = Len(s) - 1
         /\ DOMAIN Front(s) = 1 .. Len(s) - 1 /\ Last(s) = s[Len(s)] /\ Len(s) \in DOMAIN s
         /\ \A i \in 1 .. Len(s) - 1 : Front(s)[i] = s[i]
<1>. DEFINE S == ToSet(s)
<1>1. s \in Seq(S)
  BY DEF IsSequence
<1>. HIDE DEF S
<1>2. Len(s) \in Nat \ {0} /\ Len(s) \in DOMAIN s
  BY <1>1
<1>3. /\ Front(s) \in Seq(S) /\ Len(Front(s)) = Len(s) - 1
      /\ \A i \in 1 .. Len(s) - 1 : Front(s)[i] = s[i]
  <2>. DEFINE n == Len(s) - 1
  <2>1. n \in Nat /\ \A i \in 1 .. n : s[i] \in S
    BY <1>1, <1>2
  <2>. HIDE DEF n
  <2>2. /\ SubSeq(s, 1, n) \in Seq(S) /\ Len(SubSeq(s, 1, n)) = n
        /\ \A i \in 1 .. n : SubSeq(s, 1, n)[i] = s[i]
    BY <2>1, SubSeqProperties
  <2>. QED  BY <2>2 DEF Front, n
<1>4. IsSequence(Front(s))
  BY <1>3, MakeSequence
<1>. QED  BY <1>2, <1>3, <1>4 DEF Last

LEMMA ExceptFacts ==
  ASSUME NEW s, IsSequence(s), NEW i \in DOMAIN s, NEW x
  PROVE  /\ IsSequence([s EXCEPT ![i] = x]) /\ Len([s EXCEPT ![i] = x]) = Len(s)
         /\ DOMAIN [s EXCEPT ![i] = x] = DOMAIN s /\ [s EXCEPT ![i] = x][i] = x
         /\ \A k \in DOMAIN s : k # i => [s EXCEPT ![i] = x][k] = s[k]
<1>. DEFINE S == ToSet(s) \cup {x}
<1>1. s \in Seq(S) /\ x \in S
  <2>1. s \in Seq(ToSet(s))
    BY DEF IsSequence
  <2>. DEFINE T == ToSet(s)
  <2>2. T \subseteq S /\ s \in Seq(T)
    BY <2>1
  <2>. HIDE DEF T, S
  <2>3. s \in Seq(S)
    BY <2>2
  <2>. QED  BY <2>3 DEF S
<1>. HIDE DEF S
<1>2. [s EXCEPT ![i] = x] \in Seq(S) /\ Len([s EXCEPT ![i] = x]) = Len(s)
  BY <1>1
<1>3. IsSequence([s EXCEPT ![i] = x])
  BY <1>2, MakeSequence
<1>. QED  BY <1>1, <1>2, <1>3

-----------------------------------------------------------------------------
(***************************************************************************)
(* The source up to an item, and the parents of its directories            *)
(***************************************************************************)
LEMMA SourceSteps ==
  ASSUME NEW input, Len(input.events) \in Nat, NEW failed
  PROVE  /\ ReadSource(input, failed)[0] = NoTree
         /\ \A i \in 1 .. Len(input.events) :
               ReadSource(input, failed)[i] =
                   Step(ReadSource(input, failed)[i - 1], input.events[i], i \in failed)
<1>. DEFINE n == Len(input.events)
            After(x, i) == Step(x, input.events[i], i \in failed)
            F(g) == [i \in 0 .. n |-> IF i = 0 THEN NoTree ELSE Step(g[i - 1], input.events[i], i \in failed)]
            read == CHOOSE g : g = F(g)
            IsRead(m, g) == /\ g = [i \in 0 .. m |-> g[i]] /\ g[0] = NoTree
                            /\ \A i \in 1 .. m : g[i] = After(g[i - 1], i)
            S == {m \in Nat : \E g : IsRead(m, g)}
<1>1. 0 \in S
  <2>. DEFINE g == [i \in 0 .. 0 |-> NoTree]
  <2>1. g = [i \in 0 .. 0 |-> g[i]] /\ g[0] = NoTree /\ 1 .. 0 = {}
    OBVIOUS
  <2>. HIDE DEF g, After
  <2>2. IsRead(0, g)
    BY <2>1
  <2>. QED  BY <2>2
<1>2. ASSUME NEW m \in Nat, m \in S  PROVE m + 1 \in S
  <2>1. PICK g : IsRead(m, g)
    BY <1>2
  <2>. DEFINE h == [i \in 0 .. m + 1 |-> IF i = m + 1 THEN After(g[m], m + 1) ELSE g[i]]
  <2>. HIDE DEF After
  <2>2. h = [i \in 0 .. m + 1 |-> h[i]] /\ h[0] = g[0] /\ h[m] = g[m] /\ h[m + 1] = After(g[m], m + 1)
    OBVIOUS
  <2>3. ASSUME NEW i \in 1 .. m  PROVE h[i] = g[i] /\ h[i - 1] = g[i - 1]
    OBVIOUS
  <2>4. (\A i \in 1 .. m + 1 : i = m + 1 \/ i \in 1 .. m) /\ (m + 1) - 1 = m
    OBVIOUS
  <2>. HIDE DEF h
  <2>5. IsRead(m + 1, h)
    BY <2>1, <2>2, <2>3, <2>4
  <2>. HIDE DEF IsRead
  <2>. QED  BY <2>5
<1>3. n \in S
  <2>. HIDE DEF S
  <2>. QED  BY <1>1, <1>2, SetInduction
<1>4. PICK g : IsRead(n, g)
  BY <1>3
<1>5. g = F(g)
  <2>. HIDE DEF n
  <2>1. \A i \in 0 .. n : i = 0 \/ i \in 1 .. n
    OBVIOUS
  <2>2. DOMAIN g = 0 .. n /\ \A i \in 0 .. n : g[i] = F(g)[i]
    <3>1. g = [i \in 0 .. n |-> g[i]]
      BY <1>4
    <3>2. ASSUME NEW i \in 0 .. n  PROVE g[i] = F(g)[i]
      <4>1. CASE i = 0
        BY <1>4, <4>1
      <4>2. CASE i # 0
        <5>1. g[i] = After(g[i - 1], i)
          BY <1>4, <2>1, <4>2
        <5>. QED  BY <4>2, <5>1
      <4>. QED  BY <4>1, <4>2
    <3>. HIDE DEF F, IsRead
    <3>. QED  BY <3>1, <3>2
  <2>3. F(g) = [i \in 0 .. n |-> F(g)[i]] /\ g = [i \in 0 .. n |-> g[i]]
    <3>1. g = [i \in 0 .. n |-> g[i]]
      BY <1>4
    <3>. QED  BY <3>1
  <2>. HIDE DEF F, IsRead
  <2>. QED  BY <2>2, <2>3
<1>6. read = F(read)
  <2>. HIDE DEF F
  <2>. QED  BY <1>5
<1>7. ReadSource(input, failed) = read
  BY DEF ReadSource
<1>. HIDE DEF read
<1>8. read[0] = NoTree /\ \A i \in 1 .. n : read[i] = Step(read[i - 1], input.events[i], i \in failed)
  <2>1. 0 \in 0 .. n /\ \A i \in 1 .. n : i \in 0 .. n /\ i # 0
    OBVIOUS
  <2>2. \A i \in 0 .. n : read[i] = F(read)[i]
    BY <1>6
  <2>3. F(read)[0] = NoTree /\ \A i \in 1 .. n : F(read)[i] = Step(read[i - 1], input.events[i], i \in failed)
    <3>. HIDE DEF n
    <3>. QED  BY <2>1
  <2>. HIDE DEF F, n
  <2>. QED  BY <2>1, <2>2, <2>3
<1>. QED  BY <1>7, <1>8

\* What comes up to an item does not depend on failures after it.
LEMMA SourceSame ==
  ASSUME NEW input, Len(input.events) \in Nat, NEW a, NEW b, NEW n \in 0 .. Len(input.events),
         \A i \in 1 .. n : i \in a <=> i \in b
  PROVE  ReadSource(input, a)[n] = ReadSource(input, b)[n]
<1>. DEFINE S == {m \in Nat : m <= n => ReadSource(input, a)[m] = ReadSource(input, b)[m]}
<1>1. 0 \in S
  BY SourceSteps
<1>2. ASSUME NEW m \in Nat, m \in S  PROVE m + 1 \in S
  <2>. SUFFICES ASSUME m + 1 <= n  PROVE ReadSource(input, a)[m + 1] = ReadSource(input, b)[m + 1]
    OBVIOUS
  <2>1. /\ m + 1 \in 1 .. Len(input.events) /\ m + 1 \in 1 .. n /\ (m + 1) - 1 = m
        /\ ReadSource(input, a)[m] = ReadSource(input, b)[m]
    BY <1>2
  <2>2. /\ ReadSource(input, a)[m + 1] = Step(ReadSource(input, a)[m], input.events[m + 1], m + 1 \in a)
        /\ ReadSource(input, b)[m + 1] = Step(ReadSource(input, b)[m], input.events[m + 1], m + 1 \in b)
    BY <2>1, SourceSteps
  <2>3. CASE m + 1 \in a
    <3>1. (m + 1 \in a) = TRUE /\ (m + 1 \in b) = TRUE
      BY <2>1, <2>3
    <3>. QED  BY <2>1, <2>2, <3>1
  <2>4. CASE m + 1 \notin a
    <3>1. (m + 1 \in a) = FALSE /\ (m + 1 \in b) = FALSE
      BY <2>1, <2>4
    <3>. QED  BY <2>1, <2>2, <3>1
  <2>. QED  BY <2>3, <2>4
<1>3. n \in S
  <2>. HIDE DEF S
  <2>. QED  BY <1>1, <1>2, SetInduction
<1>. QED  BY <1>3

\* The parents of the directories that are open before and after an item
NextDirs(input, dirs, e) ==
    IF e.type = "NewTree" THEN Append(dirs, SubTrees(Last(dirs), e.node.name) \cap input.trees)
    ELSE IF e.type = "EndTree" THEN Front(dirs) ELSE dirs

LEMMA DirsSteps ==
  ASSUME NEW input, Len(input.events) \in Nat
  PROVE  /\ ParentDirs(input)[0] = <<ToSet(input.parents) \cap input.trees>>
         /\ \A i \in 1 .. Len(input.events) :
               ParentDirs(input)[i] = NextDirs(input, ParentDirs(input)[i - 1], input.events[i])
<1>. DEFINE n == Len(input.events)
            first == <<ToSet(input.parents) \cap input.trees>>
            After(x, i) == NextDirs(input, x, input.events[i])
            F(g) == [i \in 0 .. n |-> IF i = 0 THEN first ELSE After(g[i - 1], i)]
            dirs == CHOOSE g : g = F(g)
            Opens(m, g) == /\ g = [i \in 0 .. m |-> g[i]] /\ g[0] = first
                           /\ \A i \in 1 .. m : g[i] = After(g[i - 1], i)
            S == {m \in Nat : \E g : Opens(m, g)}
<1>1. 0 \in S
  <2>. DEFINE g == [i \in 0 .. 0 |-> first]
  <2>1. g = [i \in 0 .. 0 |-> g[i]] /\ g[0] = first /\ 1 .. 0 = {}
    OBVIOUS
  <2>. HIDE DEF g, After, first
  <2>2. Opens(0, g)
    BY <2>1
  <2>. QED  BY <2>2
<1>2. ASSUME NEW m \in Nat, m \in S  PROVE m + 1 \in S
  <2>1. PICK g : Opens(m, g)
    BY <1>2
  <2>. DEFINE h == [i \in 0 .. m + 1 |-> IF i = m + 1 THEN After(g[m], m + 1) ELSE g[i]]
  <2>. HIDE DEF After, first
  <2>2. h = [i \in 0 .. m + 1 |-> h[i]] /\ h[0] = g[0] /\ h[m] = g[m] /\ h[m + 1] = After(g[m], m + 1)
    OBVIOUS
  <2>3. ASSUME NEW i \in 1 .. m  PROVE h[i] = g[i] /\ h[i - 1] = g[i - 1]
    OBVIOUS
  <2>4. (\A i \in 1 .. m + 1 : i = m + 1 \/ i \in 1 .. m) /\ (m + 1) - 1 = m
    OBVIOUS
  <2>. HIDE DEF h
  <2>5. Opens(m + 1, h)
    BY <2>1, <2>2, <2>3, <2>4
  <2>. HIDE DEF Opens
  <2>. QED  BY <2>5
<1>3. n \in S
  <2>. HIDE DEF S
  <2>. QED  BY <1>1, <1>2, SetInduction
<1>4. PICK g : Opens(n, g)
  BY <1>3
<1>5. g = F(g)
  <2>. HIDE DEF n, first, After
  <2>1. \A i \in 0 .. n : i = 0 \/ i \in 1 .. n
    OBVIOUS
  <2>2. g = [i \in 0 .. n |-> g[i]] /\ \A i \in 0 .. n : g[i] = IF i = 0 THEN first ELSE After(g[i - 1], i)
    BY <1>4, <2>1
  <2>. HIDE DEF Opens
  <2>. QED  BY <2>2
<1>6. dirs = F(dirs)
  <2>. HIDE DEF F
  <2>. QED  BY <1>5
<1>7. ParentDirs(input) = dirs
  BY DEF ParentDirs, NextDirs
<1>. HIDE DEF dirs
<1>8. dirs[0] = first /\ \A i \in 1 .. n : dirs[i] = After(dirs[i - 1], i)
  <2>1. 0 \in 0 .. n /\ \A i \in 1 .. n : i \in 0 .. n /\ i # 0
    OBVIOUS
  <2>2. \A i \in 0 .. n : dirs[i] = F(dirs)[i]
    BY <1>6
  <2>3. F(dirs)[0] = first /\ \A i \in 1 .. n : F(dirs)[i] = After(dirs[i - 1], i)
    <3>. HIDE DEF n, After, first
    <3>. QED  BY <2>1
  <2>. HIDE DEF F, n, After, first
  <2>. QED  BY <2>1, <2>2, <2>3
<1>. QED  BY <1>7, <1>8

LEMMA DirsTyped ==
  ASSUME NEW input, ItemsOK(input), NEW n \in 0 .. Len(input.events)
  PROVE  ParentDirs(input)[n] \in Seq(SUBSET input.trees) /\ Len(ParentDirs(input)[n]) > 0
<1>. DEFINE X == {ds \in Seq(SUBSET input.trees) : Len(ds) > 0}
            S == {m \in Nat : m <= n => ParentDirs(input)[m] \in X}
<1>1. IsSequence(input.events) /\ Len(input.events) \in Nat /\ DOMAIN input.events = 1 .. Len(input.events)
  BY SequenceFacts DEF ItemsOK
<1>2. 0 \in S
  <2>. DEFINE T == ToSet(input.parents) \cap input.trees
  <2>1. T \in SUBSET input.trees
    OBVIOUS
  <2>. HIDE DEF T
  <2>2. <<T>> \in X
    <3>. DEFINE U == SUBSET input.trees
    <3>. HIDE DEF U
    <3>1. T \in U
      BY <2>1 DEF U
    <3>2. <<T>> \in Seq(U) /\ Len(<<T>>) > 0
      BY <3>1
    <3>. QED  BY <3>2 DEF U
  <2>3. ParentDirs(input)[0] = <<T>>
    BY <1>1, DirsSteps DEF T
  <2>. HIDE DEF X
  <2>. QED  BY <2>2, <2>3
<1>3. ASSUME NEW m \in Nat, m \in S  PROVE m + 1 \in S
  <2>. SUFFICES ASSUME m + 1 <= n  PROVE ParentDirs(input)[m + 1] \in X
    OBVIOUS
  <2>. DEFINE ds == ParentDirs(input)[m]
              e == input.events[m + 1]
              T == SubTrees(Last(ds), e.node.name) \cap input.trees
  <2>1. m + 1 \in 1 .. Len(input.events) /\ (m + 1) - 1 = m /\ ds \in X
    BY <1>1, <1>3
  <2>2. ParentDirs(input)[m + 1] = NextDirs(input, ds, e)
    BY <1>1, <2>1, DirsSteps
  <2>3. e.type = "EndTree" => Len(ds) > 1
    BY <1>1, <2>1 DEF ItemsOK
  <2>4. T \in SUBSET input.trees
    OBVIOUS
  <2>5. Append(ds, T) \in X
    <3>. HIDE DEF T, ds
    <3>. QED  BY <2>1, <2>4
  <2>6. CASE e.type = "EndTree"
    <3>. DEFINE k == Len(ds) - 1
                U == SUBSET input.trees
    <3>1. k \in Nat /\ k > 0
      BY <2>1, <2>3, <2>6
    <3>2. \A i \in 1 .. k : ds[i] \in U
      BY <2>1, <3>1
    <3>. HIDE DEF ds, k, U
    <3>3. SubSeq(ds, 1, k) \in Seq(U) /\ Len(SubSeq(ds, 1, k)) = k
      BY <3>1, <3>2, SubSeqProperties
    <3>. QED  BY <2>2, <2>6, <3>1, <3>3 DEF NextDirs, Front, k, U
  <2>. HIDE DEF X, ds, e
  <2>. QED  BY <2>1, <2>2, <2>5, <2>6 DEF NextDirs
<1>4. n \in S
  <2>1. n \in Nat
    BY <1>1
  <2>. HIDE DEF S
  <2>. QED  BY <1>2, <1>3, <2>1, SetInduction
<1>. QED  BY <1>1, <1>4

-----------------------------------------------------------------------------
(***************************************************************************)
(* The invariant of a backup that nobody cancels                           *)
(***************************************************************************)
\* Items that have left the queue; the parents of the directories open after n items
Added == fed - Len(queue)
DirsAt(n) == ParentDirs(in)[n]

\* The trees that are not sent: those in the index, and what parents say is there
Presumed(input) == input.trees \cup TakenOver(input)

\* What is presumed to be in the index, or with the packers
AllTrees == Presumed(in) \cup sent.trees
AllData == in.data \cup sent.data

\* Parents are those of the directory that the next item is in.
ParentsIn(parents, trees) ==
    /\ DOMAIN parents \subseteq Nat /\ IsFiniteSet(DOMAIN parents)
    /\ \A k \in DOMAIN parents :
          /\ parents[k] = [tree |-> parents[k].tree, idx |-> parents[k].idx]
          /\ parents[k].tree \in trees \cup {<<>>}
          /\ parents[k].idx \in 1 .. Len(parents[k].tree) + 1
ParentsOK ==
    /\ IsSequence(p_stack) /\ Len(DirsAt(fed)) = Len(p_stack) + 1
    /\ ParentsIn(p_trees, Last(DirsAt(fed)))
    /\ \A k \in DOMAIN p_stack : ParentsIn(p_stack[k], DirsAt(fed)[k])

\* A thread is through with an item, or will leave it as it is.
Finished(q) == q.state = "ok" \/ (q.state = "todo" /\ ~Reads(q))
NodeRead(e) == IF e.type = "Other" /\ e.node.type = "file" THEN ReadNode(e) ELSE e.node
InIndex(result, trees) == result.result = "Matched" => result.value[1] \in trees

\* q is item n of the source, which is e.
ItemOK(q, n, e, failed, data, trees) ==
    /\ q = [pos |-> n, item |-> q.item, parent |-> q.parent, state |-> q.state]
    /\ q.item = [type |-> e.type, node |-> q.item.node, data |-> e.data]
    /\ q.state \in {"todo", "ok", "err"}
    /\ q.state = "err" <=> n \in failed
    /\ q.state = "err" => e.type = "Other"
    /\ q.state = "todo" /\ Reads(q) => q.item.node = e.node
    /\ Finished(q) => q.item.node = NodeRead(e)
    /\ Finished(q) /\ e.type = "Other" /\ e.node.type = "file" => ToSet(e.data) \subseteq data
    /\ e.type = "NewTree" => InIndex(q.parent, trees)

CountsOK ==
    /\ in \in Inputs /\ fed \in 0 .. Len(in.events)
    /\ IsSequence(queue) /\ Len(queue) <= fed /\ IsSequence(stack)
    /\ sent = [trees |-> sent.trees, data |-> sent.data]
QueueOK ==
    \A k \in DOMAIN queue : ItemOK(queue[k], Added + k, in.events[Added + k], lost, AllData, Presumed(in))

\* TreeArchiver has what the items so far say, and has stored what is finished of it.
Opened(dirs) == [k \in DOMAIN dirs |-> [node |-> dirs[k].node, tree |-> dirs[k].tree]]
BuiltOK ==
    LET so_far == ReadSource(in, lost)[Added]
    IN /\ tree = so_far.tree
       /\ so_far = [tree |-> so_far.tree, open |-> so_far.open, trees |-> so_far.trees, data |-> so_far.data]
       /\ so_far.open = Opened(stack)
       /\ so_far.trees \subseteq AllTrees /\ so_far.data \subseteq AllData
StackOK == \A k \in DOMAIN stack : InIndex(stack[k].parent, Presumed(in))
LostOK == lost \subseteq 1 .. fed /\ errors = Cardinality(lost \cap 1 .. Added)

EndOK ==
    /\ phase \in {"finalize", "saved", "skipped"} => fed = Len(in.events) /\ queue = <<>>
    /\ phase \in {"saved", "skipped"} => snap = <<tree>>
    /\ phase = "saved" => tree \in AllTrees

ArchiveInv ==
    /\ CountsOK /\ ParentsOK /\ EndOK
    /\ dropped = {} => QueueOK /\ BuiltOK /\ StackOK /\ LostOK

LEMMA InputFacts ==
  ASSUME in \in Inputs
  PROVE  /\ ItemsOK(in) /\ ChangesShow(in) /\ DirsHaveTrees(in) /\ \A t \in in.trees : IsSequence(t)
         /\ IsSequence(in.events) /\ Len(in.events) \in Nat /\ DOMAIN in.events = 1 .. Len(in.events)
         /\ IsSequence(in.parents) /\ DOMAIN in.parents = 1 .. Len(in.parents) /\ Len(in.parents) \in Nat
<1>1. ItemsOK(in) /\ ChangesShow(in) /\ DirsHaveTrees(in) /\ \A t \in in.trees : IsSequence(t)
  BY InputAssumption, ParentAssumption
<1>. QED  BY <1>1, SequenceFacts DEF ItemsOK

LEMMA EventFacts ==
  ASSUME in \in Inputs, NEW n \in 1 .. Len(in.events)
  PROVE  LET e == in.events[n]
         IN /\ e = [type |-> e.type, node |-> e.node, data |-> e.data] /\ IsSequence(e.data)
            /\ e.node = [name |-> e.node.name, type |-> e.node.type, meta |-> e.node.meta,
                         content |-> e.node.content, subtree |-> e.node.subtree]
            /\ e.type \in {"NewTree", "EndTree", "Other"}
            /\ e.type = "NewTree" => e.node.type = "dir"
            /\ e.type = "EndTree" => Len(DirsAt(n - 1)) > 1
  BY InputFacts DEF ItemsOK, DirsAt

LEMMA DirsFacts ==
  ASSUME in \in Inputs
  PROVE  /\ DirsAt(0) = <<ToSet(in.parents) \cap in.trees>>
         /\ \A n \in 0 .. Len(in.events) :
               /\ DirsAt(n) \in Seq(SUBSET in.trees) /\ Len(DirsAt(n)) > 0 /\ IsSequence(DirsAt(n))
               /\ n < Len(in.events) => DirsAt(n + 1) = NextDirs(in, DirsAt(n), in.events[n + 1])
<1>1. ItemsOK(in) /\ Len(in.events) \in Nat
  BY InputFacts
<1>2. ASSUME NEW n \in 0 .. Len(in.events)
      PROVE  DirsAt(n) \in Seq(SUBSET in.trees) /\ Len(DirsAt(n)) > 0 /\ IsSequence(DirsAt(n))
  BY <1>1, DirsTyped, MakeSequence DEF DirsAt
<1>3. ASSUME NEW n \in 0 .. Len(in.events), n < Len(in.events)
      PROVE  DirsAt(n + 1) = NextDirs(in, DirsAt(n), in.events[n + 1])
  <2>1. n + 1 \in 1 .. Len(in.events) /\ (n + 1) - 1 = n
    BY <1>1, <1>3
  <2>. QED  BY <1>1, <2>1, DirsSteps DEF DirsAt
<1>. QED  BY <1>1, <1>2, <1>3, DirsSteps DEF DirsAt

-----------------------------------------------------------------------------
(***************************************************************************)
(* Parent                                                                  *)
(***************************************************************************)
LEMMA MinFact ==
  ASSUME NEW T, T \subseteq Nat, T # {}
  PROVE  Min(T) \in T
<1>1. \E x \in T : \A y \in T : x <= y
  <2>1. PICK x \in T : \A y \in T : ~(y < x)
    BY LeastNumber
  <2>2. \A y \in T : x <= y
    BY <2>1
  <2>. QED  BY <2>2
<1>. QED  BY <1>1 DEF Min

LEMMA IdxForFacts ==
  ASSUME NEW p, IsSequence(p.tree), p.idx \in 1 .. Len(p.tree) + 1, NEW name
  PROVE  /\ IdxFor(p, name) \in 1 .. Len(p.tree) + 1
         /\ Has(p, name) => NodeOf(p, name) \in ToSet(p.tree) /\ NodeOf(p, name).name = name
<1>. DEFINE n == Len(p.tree)
            T == {k \in p.idx .. n + 1 : k > n \/ p.tree[k].name >= name}
<1>1. n \in Nat /\ DOMAIN p.tree = 1 .. n
  BY SequenceFacts
<1>2. T \subseteq 1 .. n + 1 /\ n + 1 \in T /\ T \subseteq Nat
  BY <1>1
<1>3. Min(T) \in T
  <2>. HIDE DEF T
  <2>. QED  BY <1>2, MinFact
<1>4. IdxFor(p, name) \in 1 .. n + 1
  <2>1. IdxFor(p, name) = Min(T)
    BY DEF IdxFor
  <2>. HIDE DEF T
  <2>. QED  BY <1>2, <1>3, <2>1
<1>5. IdxFor(p, name) <= n => IdxFor(p, name) \in DOMAIN p.tree
  BY <1>1, <1>4
<1>. QED  BY <1>4, <1>5 DEF Has, NodeOf, ToSet

\* Trees of parents, and what is_parent finds in them
LEMMA ParentFacts ==
  ASSUME in \in Inputs, NEW parents, NEW trees, trees \subseteq in.trees, ParentsIn(parents, trees),
         NEW k \in DOMAIN parents, NEW name
  PROVE  /\ IsSequence(parents[k].tree)
         /\ IdxFor(parents[k], name) \in 1 .. Len(parents[k].tree) + 1
         /\ Has(parents[k], name) => NodeOf(parents[k], name) \in NodesOf(trees, name)
<1>1. parents[k].tree \in trees \cup {<<>>} /\ parents[k].idx \in 1 .. Len(parents[k].tree) + 1
  BY DEF ParentsIn
<1>2. IsSequence(<<>>)
  <2>1. <<>> \in Seq({})
    OBVIOUS
  <2>. QED  BY <2>1, MakeSequence
<1>3. IsSequence(parents[k].tree)
  BY <1>1, <1>2, InputFacts
<1>4. ASSUME Has(parents[k], name)  PROVE parents[k].tree \in trees
  <2>1. CASE parents[k].tree = <<>>
    <3>1. ToSet(<<>>) = {}
      BY DEF ToSet
    <3>. QED  BY <1>1, <1>3, <1>4, <2>1, <3>1, IdxForFacts
  <2>. QED  BY <1>1, <2>1
<1>. QED  BY <1>1, <1>3, <1>4, IdxForFacts DEF NodesOf

LEMMA MovedOn ==
  ASSUME in \in Inputs, NEW trees, trees \subseteq in.trees, ParentsIn(p_trees, trees), NEW name, NEW upto
  PROVE  ParentsIn(MoveOn(name, upto), trees)
<1>. DEFINE moved == MoveOn(name, upto)
<1>1. DOMAIN moved = DOMAIN p_trees
  BY DEF MoveOn
<1>2. ASSUME NEW k \in DOMAIN p_trees
      PROVE  /\ moved[k] = [tree |-> moved[k].tree, idx |-> moved[k].idx]
             /\ moved[k].tree \in trees \cup {<<>>}
             /\ moved[k].idx \in 1 .. Len(moved[k].tree) + 1
  <2>1. /\ p_trees[k] = [tree |-> p_trees[k].tree, idx |-> p_trees[k].idx]
        /\ p_trees[k].tree \in trees \cup {<<>>} /\ p_trees[k].idx \in 1 .. Len(p_trees[k].tree) + 1
    BY DEF ParentsIn
  <2>. DEFINE j == IdxFor(p_trees[k], name)
  <2>2. j \in 1 .. Len(p_trees[k].tree) + 1
    BY ParentFacts
  <2>3. moved[k] = p_trees[k] \/ moved[k] = [p_trees[k] EXCEPT !.idx = j]
    BY DEF MoveOn
  <2>4. [p_trees[k] EXCEPT !.idx = j] = [tree |-> p_trees[k].tree, idx |-> j]
    <3>. HIDE DEF j
    <3>. QED  BY <2>1
  <2>. HIDE DEF moved, j
  <2>. QED  BY <2>1, <2>2, <2>3, <2>4
<1>. HIDE DEF moved
<1>3. ParentsIn(moved, trees)
  BY <1>1, <1>2 DEF ParentsIn
<1>. QED  BY <1>3 DEF moved

LEMMA Loaded ==
  ASSUME NEW ids, DOMAIN ids \subseteq Nat, IsFiniteSet(DOMAIN ids), NEW trees,
         \A k \in DOMAIN ids : ids[k] \in in.trees => ids[k] \in trees,
         \A t \in trees : IsSequence(t)
  PROVE  ParentsIn(LoadTrees(ids), trees)
<1>. DEFINE parents == LoadTrees(ids)
<1>1. DOMAIN parents = DOMAIN ids
  BY DEF LoadTrees
<1>2. ASSUME NEW k \in DOMAIN ids
      PROVE  /\ parents[k] = [tree |-> parents[k].tree, idx |-> parents[k].idx]
             /\ parents[k].tree \in trees \cup {<<>>}
             /\ parents[k].idx \in 1 .. Len(parents[k].tree) + 1
  <2>1. /\ parents[k] = [tree |-> parents[k].tree, idx |-> parents[k].idx] /\ parents[k].idx = 1
        /\ parents[k].tree \in trees \cup {<<>>}
    BY DEF LoadTrees
  <2>2. Len(parents[k].tree) \in Nat
    <3>1. Len(<<>>) \in Nat
      OBVIOUS
    <3>. HIDE DEF parents
    <3>. QED  BY <2>1, <3>1, SequenceFacts
  <2>. HIDE DEF parents
  <2>. QED  BY <2>1, <2>2
<1>. HIDE DEF parents
<1>3. ParentsIn(parents, trees)
  BY <1>1, <1>2 DEF ParentsIn
<1>. QED  BY <1>3 DEF parents

\* set_dir loads the trees of that name in the parents.
LEMMA DirLoaded ==
  ASSUME in \in Inputs, NEW trees, trees \subseteq in.trees, ParentsIn(p_trees, trees), NEW name,
         NEW parents \in DirTrees(name)
  PROVE  ParentsIn(parents, SubTrees(trees, name) \cap in.trees)
<1>. DEFINE found == {k \in DOMAIN p_trees : Has(p_trees[k], name) /\ NodeOf(p_trees[k], name).subtree # None}
            T == {NodeOf(p_trees[k], name).subtree[1] : k \in found}
<1>1. PICK ids \in SetToSeqs(T) : parents = LoadTrees(ids)
  BY DEF DirTrees
<1>2. IsFiniteSet(T)
  <2>. DEFINE g == [k \in found |-> NodeOf(p_trees[k], name).subtree[1]]
  <2>1. IsFiniteSet(found)
    BY FS_Subset DEF ParentsIn
  <2>2. g \in Surjection(found, T)
    <3>1. g \in [found -> T] /\ \A t \in T : \E k \in found : g[k] = t
      OBVIOUS
    <3>. HIDE DEF g, found, T
    <3>. QED  BY <3>1 DEF Surjection
  <2>. HIDE DEF g, found, T
  <2>. QED  BY <2>1, <2>2, FS_Surjection
<1>3. Cardinality(T) \in Nat
  BY <1>2, FS_CardinalityType
<1>4. ids \in [1 .. Cardinality(T) -> T]
  BY <1>1 DEF SetToSeqs
<1>5. DOMAIN ids \subseteq Nat /\ IsFiniteSet(DOMAIN ids)
  <2>. HIDE DEF T
  <2>1. 1 .. Cardinality(T) \subseteq Nat /\ IsFiniteSet(1 .. Cardinality(T))
    BY <1>3, FS_Interval
  <2>. QED  BY <1>4, <2>1
<1>6. ASSUME NEW k \in DOMAIN ids  PROVE ids[k] \in SubTrees(trees, name)
  <2>1. ids[k] \in T
    <3>. HIDE DEF T
    <3>. QED  BY <1>4, <1>6
  <2>2. PICK j \in found : ids[k] = NodeOf(p_trees[j], name).subtree[1]
    BY <2>1
  <2>3. NodeOf(p_trees[j], name) \in NodesOf(trees, name) /\ NodeOf(p_trees[j], name).subtree # None
    BY ParentFacts
  <2>. QED  BY <2>2, <2>3 DEF SubTrees
<1>7. \A t \in SubTrees(trees, name) \cap in.trees : IsSequence(t)
  BY InputFacts
<1>. QED  BY <1>1, <1>5, <1>6, <1>7, Loaded

\* is_parent answers with a node of that name that looks the same.
LEMMA MatchingFacts ==
  ASSUME in \in Inputs, NEW trees, trees \subseteq in.trees, ParentsIn(p_trees, trees), NEW node,
         Matching(node) # {}
  PROVE  ParentNode(node) \in NodesOf(trees, node.name) /\ SameFile(ParentNode(node), node)
<1>. DEFINE k == Min(Matching(node))
<1>1. k \in Matching(node)
  <2>1. Matching(node) \subseteq Nat
    BY DEF Matching, ParentsIn
  <2>. QED  BY <2>1, MinFact
<1>2. k \in DOMAIN p_trees /\ Has(p_trees[k], node.name) /\ SameFile(NodeOf(p_trees[k], node.name), node)
  BY <1>1 DEF Matching
<1>. HIDE DEF k
<1>3. NodeOf(p_trees[k], node.name) \in NodesOf(trees, node.name)
  BY <1>2, ParentFacts
<1>. QED  BY <1>2, <1>3 DEF ParentNode, k

-----------------------------------------------------------------------------
(***************************************************************************)
(* The steps                                                               *)
(***************************************************************************)
LEMMA SourceNext ==
  ASSUME in \in Inputs, NEW failed, NEW n \in 1 .. Len(in.events)
  PROVE  ReadSource(in, failed)[n] = Step(ReadSource(in, failed)[n - 1], in.events[n], n \in failed)
  BY InputFacts, SourceSteps

LEMMA ArchiveStarts ==
  ASSUME Init
  PROVE  ArchiveInv
<1>1. /\ in \in Inputs /\ fed = 0 /\ p_trees = LoadTrees(in.parents) /\ p_stack = <<>>
      /\ queue = <<>> /\ tree = <<>> /\ stack = <<>> /\ lost = {} /\ errors = 0 /\ phase = "archive"
      /\ sent = [trees |-> sent.trees, data |-> sent.data]
  BY DEF Init
<1>2. IsSequence(<<>>) /\ Len(<<>>) = 0 /\ DOMAIN <<>> = {}
  <2>1. <<>> \in Seq({}) /\ Len(<<>>) = 0 /\ DOMAIN <<>> = {}
    OBVIOUS
  <2>2. IsSequence(<<>>)
    BY <2>1, MakeSequence
  <2>. QED  BY <2>1, <2>2
<1>3. CountsOK
  BY <1>1, <1>2, InputFacts DEF CountsOK
<1>4. ParentsOK
  <2>. DEFINE T == ToSet(in.parents) \cap in.trees
  <2>1. DirsAt(fed) = <<T>>
    BY <1>1, DirsFacts
  <2>2. Len(<<T>>) = 1 /\ Last(<<T>>) = T
    BY DEF Last
  <2>3. \A k \in DOMAIN in.parents : in.parents[k] \in in.trees => in.parents[k] \in T
    BY DEF ToSet
  <2>4. \A t \in T : IsSequence(t)
    BY <1>1, InputFacts
  <2>5. DOMAIN in.parents \subseteq Nat /\ IsFiniteSet(DOMAIN in.parents)
    <3>. DEFINE n == Len(in.parents)
    <3>1. DOMAIN in.parents = 1 .. n /\ n \in Nat
      BY <1>1, InputFacts
    <3>. HIDE DEF n
    <3>2. 1 .. n \subseteq Nat /\ IsFiniteSet(1 .. n)
      BY <3>1, FS_Interval
    <3>. QED  BY <3>1, <3>2
  <2>. HIDE DEF T
  <2>6. ParentsIn(LoadTrees(in.parents), T)
    BY <2>3, <2>4, <2>5, Loaded
  <2>. QED  BY <1>1, <1>2, <2>1, <2>2, <2>6 DEF ParentsOK
<1>5. EndOK
  BY <1>1 DEF EndOK
<1>6. QueueOK /\ StackOK
  BY <1>1, <1>2 DEF QueueOK, StackOK
<1>7. Added = 0 /\ 1 .. 0 = {}
  <2>1. Added = 0 - 0
    BY <1>1, <1>2 DEF Added
  <2>. QED  BY <2>1
<1>8. BuiltOK
  <2>1. ReadSource(in, lost)[Added] = NoTree
    BY <1>1, <1>7, InputFacts, SourceSteps
  <2>. QED  BY <1>1, <1>2, <2>1 DEF BuiltOK, NoTree, Opened
<1>9. LostOK
  BY <1>1, <1>7, FS_EmptySet DEF LostOK
<1>. QED  BY <1>3, <1>4, <1>5, <1>6, <1>8, <1>9 DEF ArchiveInv

\* Parent keeps in step with the items.
LEMMA FeedParents ==
  ASSUME ArchiveInv, Feed
  PROVE  ParentsOK'
<1>. DEFINE e == in.events[fed + 1]
            ds == DirsAt(fed)
            name == e.node.name
            T == SubTrees(Last(ds), name) \cap in.trees
<1>1. /\ in \in Inputs /\ fed \in 0 .. Len(in.events) /\ fed < Len(in.events)
      /\ in' = in /\ fed' = fed + 1 /\ Len(in.events) \in Nat
  BY InputFacts DEF ArchiveInv, CountsOK, Feed
<1>2. /\ IsSequence(p_stack) /\ Len(ds) = Len(p_stack) + 1 /\ ParentsIn(p_trees, Last(ds))
      /\ \A k \in DOMAIN p_stack : ParentsIn(p_stack[k], ds[k])
      /\ Len(p_stack) \in Nat /\ DOMAIN p_stack = 1 .. Len(p_stack)
  BY SequenceFacts DEF ArchiveInv, ParentsOK
<1>3. IsSequence(ds) /\ Last(ds) \subseteq in.trees /\ DOMAIN ds = 1 .. Len(ds)
  <2>1. ds \in Seq(SUBSET in.trees) /\ Len(ds) > 0 /\ IsSequence(ds)
    BY <1>1, DirsFacts
  <2>2. ds[Len(ds)] \in SUBSET in.trees
    <3>. DEFINE U == SUBSET in.trees
    <3>. HIDE DEF U, ds
    <3>1. ds \in Seq(U)
      BY <2>1 DEF U
    <3>2. ds[Len(ds)] \in U
      BY <2>1, <3>1
    <3>. QED  BY <3>2 DEF U
  <2>. QED  BY <2>1, <2>2, SequenceFacts DEF Last
<1>4. DirsAt(fed)' = NextDirs(in, ds, e)
  <2>1. DirsAt(fed)' = DirsAt(fed + 1)
    BY <1>1 DEF DirsAt
  <2>. QED  BY <1>1, <2>1, DirsFacts
<1>5. CASE e.type = "NewTree"
  <2>1. p_trees' \in DirTrees(name) /\ p_stack' = Append(p_stack, MoveOn(name, Len(p_trees)))
    BY <1>5 DEF Feed
  <2>. DEFINE moved == MoveOn(name, Len(p_trees))
  <2>2. DirsAt(fed)' = Append(ds, T)
    BY <1>4, <1>5 DEF NextDirs
  <2>3. ParentsIn(p_trees', T)
    BY <1>1, <1>2, <1>3, <2>1, DirLoaded
  <2>4. ParentsIn(moved, Last(ds))
    BY <1>1, <1>2, <1>3, MovedOn
  <2>. HIDE DEF moved, T, ds
  <2>5. /\ Len(Append(ds, T)) = Len(ds) + 1 /\ Last(Append(ds, T)) = T
        /\ \A k \in 1 .. Len(ds) : Append(ds, T)[k] = ds[k]
    BY <1>3, AppendFacts
  <2>6. /\ IsSequence(Append(p_stack, moved)) /\ Len(Append(p_stack, moved)) = Len(p_stack) + 1
        /\ DOMAIN Append(p_stack, moved) = 1 .. Len(p_stack) + 1
        /\ Append(p_stack, moved)[Len(p_stack) + 1] = moved
        /\ \A k \in 1 .. Len(p_stack) : Append(p_stack, moved)[k] = p_stack[k]
    BY <1>2, AppendFacts
  <2>7. ASSUME NEW k \in 1 .. Len(p_stack) + 1
        PROVE  ParentsIn(Append(p_stack, moved)[k], Append(ds, T)[k])
    <3>1. CASE k \in 1 .. Len(p_stack)
      BY <1>2, <2>5, <2>6, <3>1
    <3>2. CASE k = Len(p_stack) + 1
      BY <1>2, <2>4, <2>5, <2>6, <3>2 DEF Last
    <3>. QED  BY <1>2, <3>1, <3>2
  <2>8. p_stack' = Append(p_stack, moved)
    BY <2>1 DEF moved
  <2>. QED  BY <1>2, <2>2, <2>3, <2>5, <2>6, <2>7, <2>8 DEF ParentsOK
<1>6. CASE e.type = "EndTree"
  <2>1. p_trees' = Last(p_stack) /\ p_stack' = Front(p_stack)
    BY <1>6 DEF Feed
  <2>2. DirsAt(fed)' = Front(ds)
    BY <1>4, <1>6 DEF NextDirs
  <2>3. Len(ds) > 1
    <3>1. fed + 1 \in 1 .. Len(in.events) /\ (fed + 1) - 1 = fed
      BY <1>1
    <3>. QED  BY <1>1, <1>6, <3>1, EventFacts
  <2>. HIDE DEF ds
  <2>4. p_stack # <<>> /\ ds # <<>> /\ Len(p_stack) > 0
    BY <1>2, <1>3, <2>3, SequenceFacts
  <2>5. /\ Len(Front(ds)) = Len(p_stack) /\ Last(Front(ds)) = ds[Len(p_stack)]
        /\ \A k \in 1 .. Len(p_stack) : Front(ds)[k] = ds[k]
    <3>1. /\ Len(Front(ds)) = Len(ds) - 1 /\ \A k \in 1 .. Len(ds) - 1 : Front(ds)[k] = ds[k]
      BY <1>3, <2>4, FrontFacts
    <3>2. Len(ds) - 1 = Len(p_stack) /\ Len(p_stack) \in 1 .. Len(p_stack)
      BY <1>2, <2>4
    <3>. QED  BY <3>1, <3>2 DEF Last
  <2>6. /\ IsSequence(Front(p_stack)) /\ Len(Front(p_stack)) = Len(p_stack) - 1
        /\ DOMAIN Front(p_stack) = 1 .. Len(p_stack) - 1 /\ Last(p_stack) = p_stack[Len(p_stack)]
        /\ Len(p_stack) \in DOMAIN p_stack
        /\ \A k \in 1 .. Len(p_stack) - 1 : Front(p_stack)[k] = p_stack[k]
    BY <1>2, <2>4, FrontFacts
  <2>7. ParentsIn(p_trees', Last(Front(ds)))
    BY <1>2, <2>1, <2>5, <2>6
  <2>8. \A k \in 1 .. Len(p_stack) - 1 : ParentsIn(Front(p_stack)[k], Front(ds)[k])
    BY <1>2, <2>5, <2>6
  <2>. QED  BY <1>2, <2>1, <2>2, <2>5, <2>6, <2>7, <2>8 DEF ParentsOK
<1>7. CASE e.type = "Other"
  <2>1. p_trees' = MoveOn(name, LookedAt(e.node)) /\ p_stack' = p_stack
    BY <1>7 DEF Feed
  <2>2. DirsAt(fed)' = ds
    BY <1>4, <1>7 DEF NextDirs
  <2>3. ParentsIn(p_trees', Last(ds))
    BY <1>1, <1>2, <1>3, <2>1, MovedOn
  <2>. QED  BY <1>2, <2>1, <2>2, <2>3 DEF ParentsOK
<1>. QED  BY <1>5, <1>6, <1>7 DEF Feed

\* What goes to the threads is the next item, and what Parent::process copies from a parent
\* is what reading the file would give.
LEMMA FeedItem ==
  ASSUME in \in Inputs, fed \in 0 .. Len(in.events), Feed, ParentsOK, lost \subseteq 1 .. fed
  PROVE  \E q : /\ queue' = Append(queue, q)
                /\ ItemOK(q, fed + 1, in.events[fed + 1], lost, AllData, Presumed(in))
<1>. DEFINE n == fed + 1
            e == in.events[n]
            node == e.node
            trees == Last(DirsAt(fed))
            copied == ParentNode(node)
<1>1. /\ n \in 1 .. Len(in.events) /\ n - 1 = fed /\ n \notin lost /\ Len(in.events) \in Nat
  <2>1. fed < Len(in.events)
    BY DEF Feed
  <2>2. Len(in.events) \in Nat
    BY InputFacts
  <2>. HIDE DEF e, node, trees, copied
  <2>. QED  BY <2>1, <2>2
<1>2. /\ e = [type |-> e.type, node |-> node, data |-> e.data] /\ IsSequence(e.data)
      /\ node = [name |-> node.name, type |-> node.type, meta |-> node.meta,
                 content |-> node.content, subtree |-> node.subtree]
      /\ e.type \in {"NewTree", "EndTree", "Other"}
      /\ e.type = "NewTree" => node.type = "dir"
  BY <1>1, EventFacts
<1>3. trees \subseteq in.trees /\ ParentsIn(p_trees, trees)
  <2>. DEFINE ds == DirsAt(fed)
              U == SUBSET in.trees
  <2>1. ds \in Seq(U) /\ Len(ds) > 0
    BY DirsFacts
  <2>2. ds[Len(ds)] \in U
    <3>. HIDE DEF U, ds
    <3>. QED  BY <2>1
  <2>. QED  BY <2>2 DEF Last, ParentsOK
<1>4. ASSUME Matching(node) # {}
      PROVE  copied \in NodesOf(trees, node.name) /\ SameFile(copied, node) /\ copied.type = node.type
  BY <1>3, <1>4, MatchingFacts DEF SameFile
<1>. DEFINE result == IF ~Found(node) THEN NotFound
                      ELSE IF Matching(node) = {} THEN NotMatched
                      ELSE Matched(IF e.type = "NewTree" THEN copied.subtree[1] ELSE None)
            fresh(r) == [pos |-> n, item |-> e, parent |-> r, state |-> "todo"]
<1>5. ASSUME NEW r, e.type = "Other", r.result # "Matched"  PROVE ItemOK(fresh(r), n, e, lost, AllData, Presumed(in))
  <2>. DEFINE q == fresh(r)
  <2>1. q.pos = n /\ q.item = e /\ q.parent = r /\ q.state = "todo"
        /\ q = [pos |-> n, item |-> q.item, parent |-> q.parent, state |-> q.state]
    OBVIOUS
  <2>. HIDE DEF q, e
  <2>2. Finished(q) => node.type # "file"
    BY <1>5, <2>1 DEF Finished, Reads
  <2>. QED  BY <1>1, <1>2, <1>5, <2>1, <2>2 DEF ItemOK, NodeRead, Finished
<1>6. CASE e.type = "NewTree"
  <2>. DEFINE q == fresh(result)
  <2>1. queue' = Append(queue, q)
    BY <1>6 DEF Feed, Item
  <2>2. InIndex(result, Presumed(in))
    <3>. SUFFICES ASSUME result.result = "Matched"  PROVE result.value[1] \in TakenOver(in)
      BY DEF InIndex, Presumed
    <3>1. Matching(node) # {} /\ result = Matched(copied.subtree[1])
      BY <1>6 DEF NotFound, NotMatched
    <3>2. copied.type = "dir" /\ copied \in NodesOf(trees, node.name)
      BY <1>2, <1>4, <1>6, <3>1
    <3>3. PICK t \in trees : copied \in ToSet(t)
      BY <3>2 DEF NodesOf
    <3>4. copied.subtree # None
      BY <1>3, <3>2, <3>3, InputFacts DEF DirsHaveTrees
    <3>5. copied.subtree[1] \in SubTrees(trees, node.name)
      BY <3>2, <3>4 DEF SubTrees
    <3>6. copied.subtree[1] \in TakenOver(in)
      <4>. DEFINE x == copied.subtree[1]
      <4>1. n \in DOMAIN in.events /\ trees = Last(ParentDirs(in)[n - 1])
        BY <1>1, InputFacts DEF DirsAt
      <4>. HIDE DEF x, copied, trees, result
      <4>. QED  BY <1>6, <3>5, <4>1 DEF TakenOver, x
    <3>. HIDE DEF copied, result
    <3>. QED  BY <3>1, <3>6 DEF Matched
  <2>3. q.pos = n /\ q.item = e /\ q.parent = result /\ q.state = "todo"
        /\ q = [pos |-> n, item |-> q.item, parent |-> q.parent, state |-> q.state]
    OBVIOUS
  <2>. HIDE DEF q, e, result
  <2>4. ItemOK(q, n, e, lost, AllData, Presumed(in))
    BY <1>1, <1>2, <1>6, <2>2, <2>3 DEF ItemOK, NodeRead, Finished, Reads
  <2>. QED  BY <2>1, <2>4 DEF e
<1>7. CASE e.type = "EndTree"
  <2>. DEFINE q == fresh(NotFound)
  <2>1. queue' = Append(queue, q)
    BY <1>7 DEF Feed, Item
  <2>3. q.pos = n /\ q.item = e /\ q.parent = NotFound /\ q.state = "todo"
        /\ q = [pos |-> n, item |-> q.item, parent |-> q.parent, state |-> q.state]
    OBVIOUS
  <2>. HIDE DEF q, e
  <2>4. ItemOK(q, n, e, lost, AllData, Presumed(in))
    BY <1>1, <1>2, <1>7, <2>3 DEF ItemOK, NodeRead, Finished, Reads
  <2>. QED  BY <2>1, <2>4 DEF e
<1>8. CASE e.type = "Other" /\ result.result # "Matched"
  <2>1. queue' = Append(queue, fresh(result))
    BY <1>8 DEF Feed, Item
  <2>2. ItemOK(fresh(result), n, e, lost, AllData, Presumed(in))
    <3>. HIDE DEF fresh, result, e
    <3>. QED  BY <1>5, <1>8
  <2>. QED  BY <2>1, <2>2
<1>9. CASE e.type = "Other" /\ result.result = "Matched" /\ ~Known(copied.content)
  <2>1. queue' = Append(queue, fresh(NotFound))
    BY <1>9 DEF Feed, Item
  <2>2. ItemOK(fresh(NotFound), n, e, lost, AllData, Presumed(in))
    <3>1. NotFound.result # "Matched"
      BY DEF NotFound
    <3>. HIDE DEF fresh, result, e
    <3>. QED  BY <1>5, <1>9, <3>1
  <2>. QED  BY <2>1, <2>2
<1>10. CASE e.type = "Other" /\ result.result = "Matched" /\ Known(copied.content)
  <2>. DEFINE item == [e EXCEPT !.node = [node EXCEPT !.content = copied.content]]
              q == [pos |-> n, item |-> item, parent |-> result, state |-> "todo"]
  <2>1. queue' = Append(queue, q)
    BY <1>10 DEF Feed, Item
  <2>2. Matching(node) # {}
    BY <1>10 DEF NotFound, NotMatched
  <2>3. copied.content = IF node.type = "file" THEN <<e.data>> ELSE node.content
    <3>1. SameVersion(in, copied, node)
      BY <1>4, <2>2 DEF SameFile, SameVersion
    <3>2. copied \in NodesOf(Last(ParentDirs(in)[n - 1]), node.name)
      BY <1>1, <1>4, <2>2 DEF DirsAt
    <3>3. ChangesShow(in) /\ n \in DOMAIN in.events
      BY <1>1, InputFacts
    <3>. HIDE DEF copied
    <3>. QED  BY <1>10, <3>1, <3>2, <3>3 DEF ChangesShow
  <2>4. q.pos = n /\ q.item = item /\ q.parent = result /\ q.state = "todo"
        /\ q = [pos |-> n, item |-> q.item, parent |-> q.parent, state |-> q.state]
    OBVIOUS
  <2>5. item = [type |-> e.type, node |-> [node EXCEPT !.content = copied.content], data |-> e.data]
    <3>. HIDE DEF e, copied
    <3>. QED  BY <1>2
  <2>6. [node EXCEPT !.content = copied.content] = NodeRead(e)
    <3>1. CASE node.type = "file"
      BY <1>10, <2>3, <3>1 DEF NodeRead, ReadNode
    <3>2. CASE node.type # "file"
      <4>1. copied.content = node.content
        BY <2>3, <3>2
      <4>2. [node EXCEPT !.content = node.content] = node
        <5>. HIDE DEF e
        <5>. QED  BY <1>2
      <4>. HIDE DEF copied
      <4>. QED  BY <3>2, <4>1, <4>2 DEF NodeRead
    <3>. QED  BY <3>1, <3>2
  <2>7. node.type = "file" => ToSet(e.data) \subseteq AllData
    <3>. SUFFICES ASSUME node.type = "file"  PROVE ToSet(e.data) \subseteq in.data
      BY DEF AllData
    <3>1. Known(<<e.data>>)
      BY <1>10, <2>3
    <3>2. 1 \in DOMAIN <<e.data>> /\ <<e.data>>[1] = e.data
      OBVIOUS
    <3>. HIDE DEF e
    <3>. QED  BY <3>1, <3>2 DEF Known, ToSet
  <2>8. ~Reads(q)
    BY <1>10, <2>4 DEF Reads
  <2>9. q.item.node = NodeRead(e) /\ q.item = [type |-> e.type, node |-> q.item.node, data |-> e.data]
    <3>. HIDE DEF q, item, e, copied
    <3>. QED  BY <2>4, <2>5, <2>6
  <2>. HIDE DEF q, item, e, result, copied
  <2>10. ItemOK(q, n, e, lost, AllData, Presumed(in))
    BY <1>1, <1>10, <2>4, <2>7, <2>8, <2>9 DEF ItemOK
  <2>. QED  BY <2>1, <2>10 DEF e
<1>. QED  BY <1>2, <1>6, <1>7, <1>8, <1>9, <1>10

LEMMA QueueFacts ==
  ASSUME CountsOK
  PROVE  /\ in \in Inputs /\ fed \in 0 .. Len(in.events) /\ Len(in.events) \in Nat /\ fed \in Nat
         /\ IsSequence(queue) /\ Len(queue) \in Nat /\ DOMAIN queue = 1 .. Len(queue) /\ Len(queue) <= fed
         /\ Added = fed - Len(queue) /\ Added \in Nat /\ Added <= Len(in.events)
         /\ \A k \in DOMAIN queue : Added + k \in 1 .. fed /\ Added + k > Added
<1>1. /\ in \in Inputs /\ fed \in 0 .. Len(in.events) /\ Len(in.events) \in Nat
      /\ IsSequence(queue) /\ Len(queue) \in Nat /\ DOMAIN queue = 1 .. Len(queue) /\ Len(queue) <= fed
  BY InputFacts, SequenceFacts DEF CountsOK
<1>. QED  BY <1>1 DEF Added

\* An item stays as it is when others are processed.
LEMMA ItemStays ==
  ASSUME NEW q, NEW n, NEW e, NEW a, NEW b, n \in a <=> n \in b, NEW data, NEW more, data \subseteq more,
         NEW trees, ItemOK(q, n, e, a, data, trees)
  PROVE  ItemOK(q, n, e, b, more, trees)
  BY DEF ItemOK

LEMMA FeedKeeps ==
  ASSUME ArchiveInv, Feed
  PROVE  ArchiveInv'
<1>1. /\ in' = in /\ fed' = fed + 1 /\ fed < Len(in.events) /\ UNCHANGED <<tree, stack, sent, lost, dropped, errors, phase, snap>>
      /\ phase = "archive"
  BY DEF Feed, treeVars
<1>2. CountsOK /\ ParentsOK /\ EndOK
  BY DEF ArchiveInv
<1>3. /\ in \in Inputs /\ fed \in 0 .. Len(in.events) /\ Len(in.events) \in Nat /\ fed \in Nat
      /\ IsSequence(queue) /\ Len(queue) \in Nat /\ DOMAIN queue = 1 .. Len(queue) /\ Len(queue) <= fed
      /\ Added = fed - Len(queue) /\ Added \in Nat
  BY <1>2, QueueFacts
<1>4. PICK q : queue' = Append(queue, q)
  BY DEF Feed
<1>5. /\ IsSequence(Append(queue, q)) /\ Len(Append(queue, q)) = Len(queue) + 1
      /\ DOMAIN Append(queue, q) = 1 .. Len(queue) + 1
  BY <1>3, AppendFacts
<1>6. Added' = Added
  BY <1>1, <1>3, <1>4, <1>5 DEF Added
<1>7. CountsOK'
  BY <1>1, <1>2, <1>3, <1>4, <1>5 DEF CountsOK
<1>8. EndOK'
  BY <1>1 DEF EndOK
<1>9. ASSUME dropped' = {}  PROVE (QueueOK /\ BuiltOK /\ StackOK /\ LostOK)'
  <2>1. QueueOK /\ BuiltOK /\ StackOK /\ LostOK
    BY <1>1, <1>9 DEF ArchiveInv
  <2>2. BuiltOK' /\ StackOK'
    BY <1>1, <1>6, <2>1 DEF BuiltOK, StackOK, AllTrees, AllData
  <2>3. LostOK'
    BY <1>1, <1>3, <1>6, <2>1 DEF LostOK
  <2>4. QueueOK'
    <3>1. PICK r : /\ queue' = Append(queue, r)
                   /\ ItemOK(r, fed + 1, in.events[fed + 1], lost, AllData, Presumed(in))
      BY <1>2, <1>3, <2>1, FeedItem DEF LostOK
    <3>2. /\ DOMAIN queue' = 1 .. Len(queue) + 1 /\ queue'[Len(queue) + 1] = r
          /\ \A k \in 1 .. Len(queue) : queue'[k] = queue[k]
      BY <1>3, <3>1, AppendFacts
    <3>3. Added + (Len(queue) + 1) = fed + 1
      BY <1>3
    <3>4. AllData' = AllData
      BY <1>1 DEF AllData
    <3>5. ASSUME NEW k \in 1 .. Len(queue) + 1
          PROVE  ItemOK(queue'[k], Added + k, in.events[Added + k], lost, AllData, Presumed(in))
      <4>1. k \in 1 .. Len(queue) \/ k = Len(queue) + 1
        BY <1>3
      <4>2. CASE k \in 1 .. Len(queue)
        BY <1>3, <2>1, <3>2, <4>2 DEF QueueOK
      <4>3. CASE k = Len(queue) + 1
        BY <3>1, <3>2, <3>3, <4>3
      <4>. QED  BY <4>1, <4>2, <4>3
    <3>. QED  BY <1>1, <1>6, <3>2, <3>4, <3>5 DEF QueueOK
  <2>. QED  BY <2>2, <2>3, <2>4
<1>. QED  BY <1>7, <1>8, <1>9, FeedParents DEF ArchiveInv

LEMMA GiveUpKeeps ==
  ASSUME ArchiveInv, NEW i \in 1 .. InFlight, GiveUp(i)
  PROVE  ArchiveInv'
<1>1. /\ UNCHANGED <<in, fed, p_trees, p_stack, tree, stack, sent, lost, errors, phase, snap>>
      /\ phase = "archive" /\ i \in DOMAIN queue /\ dropped' # {}
      /\ \E x : queue' = [queue EXCEPT ![i] = x]
  BY DEF GiveUp, parentVars, treeVars
<1>2. CountsOK /\ ParentsOK
  BY DEF ArchiveInv
<1>3. IsSequence(queue') /\ Len(queue') = Len(queue)
  <2>1. PICK x : queue' = [queue EXCEPT ![i] = x]
    BY <1>1
  <2>2. IsSequence(queue) /\ i \in DOMAIN queue
    BY <1>1, <1>2 DEF CountsOK
  <2>. QED  BY <2>1, <2>2, ExceptFacts
<1>4. CountsOK'
  BY <1>1, <1>2, <1>3 DEF CountsOK
<1>5. ParentsOK'
  BY <1>1, <1>2 DEF ParentsOK, DirsAt
<1>6. EndOK'
  BY <1>1 DEF EndOK
<1>. QED  BY <1>1, <1>4, <1>5, <1>6 DEF ArchiveInv

\* The threads finish in any order; what they make of an item is up to it alone.
LEMMA ProcessKeeps ==
  ASSUME ArchiveInv, NEW i \in 1 .. InFlight, Process(i)
  PROVE  ArchiveInv'
<1>. DEFINE q == queue[i]
            n == Added + i
            e == in.events[n]
<1>1. /\ UNCHANGED <<in, fed, p_trees, p_stack, tree, stack, dropped, errors, phase, snap>>
      /\ phase = "archive" /\ i \in DOMAIN queue /\ q.state = "todo"
      /\ sent'.trees = sent.trees /\ sent.data \subseteq sent'.data
      /\ \/ /\ ~Reads(q) /\ queue' = [queue EXCEPT ![i] = [q EXCEPT !.state = "ok"]] /\ lost' = lost
         \/ /\ Reads(q) /\ lost' = lost
            /\ queue' = [queue EXCEPT ![i] = [q EXCEPT !.state = "ok", !.item = ReadItem(q.item)]]
            /\ NewChunks(q.item.data, Len(q.item.data)) \subseteq sent'.data
         \/ /\ Reads(q) /\ queue' = [queue EXCEPT ![i] = [q EXCEPT !.state = "err"]]
            /\ lost' = lost \cup {q.pos}
  <2>1. /\ UNCHANGED <<in, fed, p_trees, p_stack, tree, stack, dropped, errors, phase, snap>>
        /\ phase = "archive" /\ i \in DOMAIN queue /\ q.state = "todo"
    BY DEF Process, parentVars, treeVars
  <2>2. sent = [trees |-> sent.trees, data |-> sent.data]
    BY DEF ArchiveInv, CountsOK
  <2>3. CASE ~Reads(q) /\ queue' = [queue EXCEPT ![i].state = "ok"] /\ sent' = sent /\ lost' = lost
    BY <2>1, <2>3
  <2>4. CASE /\ Reads(q) /\ lost' = lost
             /\ queue' = [queue EXCEPT ![i] = [q EXCEPT !.state = "ok", !.item = ReadItem(@)]]
             /\ sent' = [sent EXCEPT !.data = @ \cup NewChunks(q.item.data, Len(q.item.data))]
    <3>1. sent'.trees = sent.trees /\ sent'.data = sent.data \cup NewChunks(q.item.data, Len(q.item.data))
      BY <2>2, <2>4
    <3>. QED  BY <2>1, <2>4, <3>1
  <2>5. CASE /\ Reads(q) /\ lost' = lost \cup {q.pos}
             /\ queue' = [queue EXCEPT ![i].state = "err"]
             /\ \E k \in 0 .. Len(q.item.data) :
                   sent' = [sent EXCEPT !.data = @ \cup NewChunks(q.item.data, k)]
    <3>1. sent'.trees = sent.trees /\ sent.data \subseteq sent'.data
      BY <2>2, <2>5
    <3>. QED  BY <2>1, <2>5, <3>1
  <2>. QED  BY <2>3, <2>4, <2>5 DEF Process
<1>2. CountsOK /\ ParentsOK
  BY DEF ArchiveInv
<1>3. /\ in \in Inputs /\ fed \in 0 .. Len(in.events) /\ Len(in.events) \in Nat /\ fed \in Nat
      /\ IsSequence(queue) /\ Len(queue) \in Nat /\ DOMAIN queue = 1 .. Len(queue) /\ Len(queue) <= fed
      /\ Added = fed - Len(queue) /\ Added \in Nat /\ n \in 1 .. fed /\ n > Added /\ i \in Nat
  BY <1>1, <1>2, QueueFacts
<1>4. PICK x : queue' = [queue EXCEPT ![i] = x]
  BY <1>1
<1>5. /\ IsSequence(queue') /\ Len(queue') = Len(queue) /\ DOMAIN queue' = DOMAIN queue
      /\ queue'[i] = x /\ \A k \in DOMAIN queue : k # i => queue'[k] = queue[k]
  BY <1>1, <1>3, <1>4, ExceptFacts
<1>6. Added' = Added
  BY <1>1, <1>5 DEF Added
<1>7. CountsOK'
  <2>1. sent' = [trees |-> sent'.trees, data |-> sent'.data]
    <3>1. sent = [trees |-> sent.trees, data |-> sent.data]
      BY <1>2 DEF CountsOK
    <3>2. sent' = sent \/ \E d : sent' = [sent EXCEPT !.data = d]
      BY DEF Process
    <3>. QED  BY <3>1, <3>2
  <2>. QED  BY <1>1, <1>2, <1>5, <2>1 DEF CountsOK
<1>8. ParentsOK'
  BY <1>1, <1>2 DEF ParentsOK, DirsAt
<1>9. EndOK'
  BY <1>1 DEF EndOK
<1>10. ASSUME dropped' = {}  PROVE (QueueOK /\ BuiltOK /\ StackOK /\ LostOK)'
  <2>1. QueueOK /\ BuiltOK /\ StackOK /\ LostOK
    BY <1>1, <1>10 DEF ArchiveInv
  <2>2. ItemOK(q, n, e, lost, AllData, Presumed(in))
    BY <1>1, <2>1 DEF QueueOK
  <2>3. AllData \subseteq AllData' /\ AllTrees' = AllTrees
    BY <1>1 DEF AllData, AllTrees
  <2>4. q.pos = n /\ n \notin lost
    BY <1>1, <2>2 DEF ItemOK
  <2>5. lost' = lost \/ lost' = lost \cup {n}
    BY <1>1, <2>4
  <2>6. ItemOK(x, n, e, lost', AllData', Presumed(in))
    <3>1. queue'[i] = x
      BY <1>5
    <3>2. /\ q = [pos |-> n, item |-> q.item, parent |-> q.parent, state |-> "todo"]
          /\ q.item = [type |-> e.type, node |-> q.item.node, data |-> e.data]
          /\ Reads(q) => q.item.node = e.node
          /\ ~Reads(q) => /\ q.item.node = NodeRead(e)
                          /\ e.type = "Other" /\ e.node.type = "file" => ToSet(e.data) \subseteq AllData
          /\ e.type = "NewTree" => InIndex(q.parent, Presumed(in))
      BY <1>1, <2>2 DEF ItemOK, Finished
    <3>3. Reads(q) => e.type = "Other" /\ e.node.type = "file"
      BY <3>2 DEF Reads
    <3>. DEFINE as(item, state) == [pos |-> n, item |-> item, parent |-> q.parent, state |-> state]
    <3>. HIDE DEF q, e, n
    <3>4. CASE ~Reads(q) /\ queue' = [queue EXCEPT ![i] = [q EXCEPT !.state = "ok"]] /\ lost' = lost
      <4>1. x = [q EXCEPT !.state = "ok"]
        BY <1>1, <1>3, <3>1, <3>4, ExceptFacts
      <4>2. x = as(q.item, "ok")
        BY <3>2, <4>1
      <4>3. x.pos = n /\ x.item = q.item /\ x.parent = q.parent /\ x.state = "ok"
        BY <4>2
      <4>. QED  BY <2>3, <2>4, <3>2, <3>4, <4>2, <4>3 DEF ItemOK, Finished
    <3>5. CASE /\ Reads(q) /\ lost' = lost
               /\ queue' = [queue EXCEPT ![i] = [q EXCEPT !.state = "ok", !.item = ReadItem(q.item)]]
               /\ NewChunks(q.item.data, Len(q.item.data)) \subseteq sent'.data
      <4>1. x = [q EXCEPT !.state = "ok", !.item = ReadItem(q.item)]
        BY <1>1, <1>3, <3>1, <3>5, ExceptFacts
      <4>2. x = as(ReadItem(q.item), "ok")
        <5>. DEFINE read == ReadItem(q.item)
                    parent == q.parent
        <5>1. x = [q EXCEPT !.state = "ok", !.item = read]
          BY <4>1
        <5>2. q = [pos |-> n, item |-> q.item, parent |-> parent, state |-> "todo"]
          BY <3>2
        <5>. HIDE DEF read, parent
        <5>3. x = [pos |-> n, item |-> read, parent |-> parent, state |-> "ok"]
          <6>. DEFINE r == [q EXCEPT !.state = "ok"]
          <6>1. x = [r EXCEPT !.item = read]
            BY <5>1, <5>2
          <6>2. r = [pos |-> n, item |-> q.item, parent |-> parent, state |-> "ok"]
            BY <5>2
          <6>. HIDE DEF r
          <6>. QED  BY <6>1, <6>2
        <5>. QED  BY <5>3 DEF read, parent
      <4>3. x.pos = n /\ x.item = ReadItem(q.item) /\ x.parent = q.parent /\ x.state = "ok"
        BY <4>2
      <4>4. ReadItem(q.item) = [type |-> e.type, node |-> ReadNode(e), data |-> e.data]
        BY <3>2, <3>5 DEF ReadItem, ReadNode
      <4>5. ReadNode(e) = NodeRead(e)
        BY <3>3, <3>5 DEF NodeRead
      <4>6. ToSet(e.data) \subseteq AllData'
        <5>1. e.data = q.item.data
          BY <3>2
        <5>2. IsSequence(e.data)
          <6>1. n \in 1 .. Len(in.events)
            BY <1>3
          <6>. QED  BY <1>3, <6>1, EventFacts DEF e
        <5>3. ToSet(e.data) = {e.data[k] : k \in 1 .. Len(e.data)}
          BY <5>2, SequenceFacts DEF ToSet
        <5>. QED  BY <1>1, <3>5, <5>1, <5>3 DEF NewChunks, AllData
      <4>7. x.item.node = NodeRead(e) /\ x.item = [type |-> e.type, node |-> x.item.node, data |-> e.data]
        BY <4>3, <4>4, <4>5
      <4>8. x = [pos |-> n, item |-> x.item, parent |-> x.parent, state |-> x.state]
        BY <4>2
      <4>. QED  BY <2>4, <3>2, <3>5, <4>3, <4>6, <4>7, <4>8 DEF ItemOK, Finished
    <3>6. CASE /\ Reads(q) /\ queue' = [queue EXCEPT ![i] = [q EXCEPT !.state = "err"]]
               /\ lost' = lost \cup {q.pos}
      <4>1. x = [q EXCEPT !.state = "err"]
        BY <1>1, <1>3, <3>1, <3>6, ExceptFacts
      <4>2. x = as(q.item, "err")
        BY <3>2, <4>1
      <4>3. x.pos = n /\ x.item = q.item /\ x.parent = q.parent /\ x.state = "err"
        BY <4>2
      <4>. QED  BY <2>4, <3>2, <3>3, <3>6, <4>2, <4>3 DEF ItemOK, Finished
    <3>. QED  BY <1>1, <3>4, <3>5, <3>6 DEF q
  <2>7. ASSUME NEW k \in DOMAIN queue
        PROVE  ItemOK(queue'[k], Added + k, in.events[Added + k], lost', AllData', Presumed(in))
    <3>1. CASE k = i
      BY <1>5, <2>6, <3>1
    <3>2. CASE k # i
      <4>1. Added + k # n /\ (Added + k \in lost' <=> Added + k \in lost)
        <5>1. k \in Nat /\ Added + k # Added + i
          BY <1>3, <3>2
        <5>. QED  BY <2>5, <5>1
      <4>2. ItemOK(queue[k], Added + k, in.events[Added + k], lost, AllData, Presumed(in))
        BY <2>1 DEF QueueOK
      <4>3. queue'[k] = queue[k]
        BY <1>5, <3>2
      <4>. QED  BY <2>3, <4>1, <4>2, <4>3, ItemStays
    <3>. QED  BY <3>1, <3>2
  <2>8. QueueOK'
    BY <1>1, <1>5, <1>6, <2>7 DEF QueueOK
  <2>9. \A k \in 1 .. Added : k \in lost' <=> k \in lost
    <3>1. n \notin 1 .. Added
      BY <1>3
    <3>. QED  BY <2>5, <3>1
  <2>10. ReadSource(in, lost')[Added] = ReadSource(in, lost)[Added]
    <3>. DEFINE a == lost'
                b == lost
                m == Added
    <3>1. m \in 0 .. Len(in.events) /\ Len(in.events) \in Nat
      BY <1>3
    <3>2. \A k \in 1 .. m : k \in a <=> k \in b
      BY <2>9
    <3>. HIDE DEF a, b, m
    <3>3. ReadSource(in, a)[m] = ReadSource(in, b)[m]
      BY <3>1, <3>2, SourceSame
    <3>. QED  BY <3>3 DEF a, b, m
  <2>11. BuiltOK' /\ StackOK'
    BY <1>1, <1>6, <2>1, <2>3, <2>10 DEF BuiltOK, StackOK
  <2>12. LostOK'
    <3>1. lost' \cap 1 .. Added = lost \cap 1 .. Added
      BY <2>9
    <3>2. lost' \subseteq 1 .. fed
      BY <1>3, <2>1, <2>5 DEF LostOK
    <3>. QED  BY <1>1, <1>6, <2>1, <3>1, <3>2 DEF LostOK
  <2>. QED  BY <2>8, <2>11, <2>12
<1>. QED  BY <1>1, <1>7, <1>8, <1>9, <1>10 DEF ArchiveInv

\* The directories that are open
LEMMA OpenedFacts ==
  ASSUME NEW dirs, IsSequence(dirs)
  PROVE  /\ IsSequence(Opened(dirs)) /\ Len(Opened(dirs)) = Len(dirs)
         /\ \A d : Opened(Append(dirs, d)) = Append(Opened(dirs), [node |-> d.node, tree |-> d.tree])
         /\ dirs # <<>> => /\ Opened(Front(dirs)) = Front(Opened(dirs))
                           /\ Last(Opened(dirs)) = [node |-> Last(dirs).node, tree |-> Last(dirs).tree]
<1>. DEFINE n == Len(dirs)
            of(d) == [node |-> d.node, tree |-> d.tree]
<1>1. n \in Nat /\ DOMAIN dirs = 1 .. n /\ (dirs # <<>> <=> n > 0)
  BY SequenceFacts
<1>2. Opened(dirs) = [k \in 1 .. n |-> of(dirs[k])]
  BY <1>1 DEF Opened
<1>. HIDE DEF of, n
<1>3. IsSequence(Opened(dirs)) /\ Len(Opened(dirs)) = n
  <2>. DEFINE S == {of(dirs[k]) : k \in 1 .. n}
  <2>1. \A k \in 1 .. n : of(dirs[k]) \in S
    OBVIOUS
  <2>. HIDE DEF S
  <2>2. Opened(dirs) \in Seq(S) /\ Len(Opened(dirs)) = n
    BY <1>1, <1>2, <2>1
  <2>. QED  BY <2>2, MakeSequence
<1>4. ASSUME NEW d  PROVE Opened(Append(dirs, d)) = Append(Opened(dirs), of(d))
  <2>. DEFINE a == Append(dirs, d)
              b == Append(Opened(dirs), of(d))
  <2>1. DOMAIN a = 1 .. n + 1 /\ a[n + 1] = d /\ \A k \in 1 .. n : a[k] = dirs[k]
    BY AppendFacts DEF n
  <2>2. /\ IsSequence(b) /\ DOMAIN b = 1 .. n + 1 /\ Len(b) = n + 1
        /\ b[n + 1] = of(d) /\ \A k \in 1 .. n : b[k] = Opened(dirs)[k]
    BY <1>3, AppendFacts
  <2>3. b = [k \in 1 .. n + 1 |-> b[k]]
    BY <2>2, SequenceFacts
  <2>4. Opened(a) = [k \in 1 .. n + 1 |-> of(a[k])]
    BY <2>1 DEF Opened, of
  <2>5. ASSUME NEW k \in 1 .. n + 1  PROVE of(a[k]) = b[k]
    <3>1. k \in 1 .. n \/ k = n + 1
      BY <1>1
    <3>. HIDE DEF a, b
    <3>. QED  BY <1>2, <2>1, <2>2, <3>1
  <2>. HIDE DEF a, b
  <2>6. Opened(a) = b
    BY <2>3, <2>4, <2>5
  <2>. QED  BY <2>6 DEF a, b
<1>5. ASSUME dirs # <<>>
      PROVE  Opened(Front(dirs)) = Front(Opened(dirs)) /\ Last(Opened(dirs)) = of(Last(dirs))
  <2>. DEFINE a == Front(dirs)
              b == Front(Opened(dirs))
  <2>1. n > 0 /\ n \in 1 .. n /\ Opened(dirs) # <<>>
    <3>1. n > 0
      BY <1>1, <1>5
    <3>. QED  BY <1>1, <1>3, <3>1, SequenceFacts
  <2>2. DOMAIN a = 1 .. n - 1 /\ Last(dirs) = dirs[n] /\ \A k \in 1 .. n - 1 : a[k] = dirs[k]
    BY <1>5, FrontFacts DEF n
  <2>3. /\ IsSequence(b) /\ DOMAIN b = 1 .. n - 1 /\ Len(b) = n - 1 /\ Last(Opened(dirs)) = Opened(dirs)[n]
        /\ \A k \in 1 .. n - 1 : b[k] = Opened(dirs)[k]
    BY <1>3, <2>1, FrontFacts
  <2>4. b = [k \in 1 .. n - 1 |-> b[k]]
    BY <2>3, SequenceFacts
  <2>5. Opened(a) = [k \in 1 .. n - 1 |-> of(a[k])]
    BY <2>2 DEF Opened, of
  <2>6. ASSUME NEW k \in 1 .. n - 1  PROVE of(a[k]) = b[k]
    <3>1. k \in 1 .. n
      BY <1>1
    <3>. HIDE DEF a, b
    <3>. QED  BY <1>2, <2>2, <2>3, <3>1
  <2>. HIDE DEF a, b
  <2>7. Opened(a) = b
    BY <2>4, <2>5, <2>6
  <2>. QED  BY <1>2, <2>1, <2>2, <2>3, <2>7 DEF a, b
<1>. QED  BY <1>3, <1>4, <1>5 DEF n, of

\* The head of the queue is the next item; the others move up.
LEMMA HeadLeaves ==
  ASSUME CountsOK, queue # <<>>, queue' = Tail(queue), UNCHANGED <<in, fed>>
  PROVE  /\ Added' = Added + 1 /\ Added \in Nat /\ Added + 1 \in 1 .. Len(in.events) /\ (Added + 1) - 1 = Added
         /\ IsSequence(queue') /\ Len(queue') <= fed'
         /\ QueueOK => ItemOK(Head(queue), Added + 1, in.events[Added + 1], lost, AllData, Presumed(in))
         /\ QueueOK /\ lost' = lost /\ AllData' = AllData => QueueOK'
<1>1. /\ in \in Inputs /\ fed \in 0 .. Len(in.events) /\ Len(in.events) \in Nat /\ fed \in Nat
      /\ IsSequence(queue) /\ Len(queue) \in Nat /\ DOMAIN queue = 1 .. Len(queue) /\ Len(queue) <= fed
      /\ Added = fed - Len(queue) /\ Added \in Nat
  BY QueueFacts
<1>2. /\ IsSequence(queue') /\ Len(queue) \in Nat \ {0} /\ Len(queue') = Len(queue) - 1
      /\ DOMAIN queue' = 1 .. Len(queue) - 1
      /\ Head(queue) = queue[1] /\ \A k \in 1 .. Len(queue) - 1 : queue'[k] = queue[k + 1]
  BY <1>1, TailFacts
<1>3. Added' = Added + 1
  BY <1>1, <1>2 DEF Added
<1>4. Added + 1 \in 1 .. Len(in.events) /\ (Added + 1) - 1 = Added /\ 1 \in DOMAIN queue
  BY <1>1, <1>2
<1>5. QueueOK => ItemOK(Head(queue), Added + 1, in.events[Added + 1], lost, AllData, Presumed(in))
  BY <1>2, <1>4 DEF QueueOK
<1>6. ASSUME QueueOK, lost' = lost, AllData' = AllData  PROVE QueueOK'
  <2>1. ASSUME NEW k \in DOMAIN queue'
        PROVE  ItemOK(queue'[k], Added' + k, in.events[Added' + k], lost, AllData, Presumed(in))
    <3>1. k + 1 \in DOMAIN queue /\ Added + (k + 1) = Added' + k /\ queue'[k] = queue[k + 1]
      BY <1>1, <1>2, <1>3
    <3>2. ItemOK(queue[k + 1], Added + (k + 1), in.events[Added + (k + 1)], lost, AllData, Presumed(in))
      BY <1>6, <3>1 DEF QueueOK
    <3>. QED  BY <3>1, <3>2
  <2>. QED  BY <1>6, <2>1 DEF QueueOK
<1>. QED  BY <1>1, <1>2, <1>3, <1>4, <1>5, <1>6

\* What is after an item, field by field
LEMMA StepFacts ==
  ASSUME NEW s, s = [tree |-> s.tree, open |-> s.open, trees |-> s.trees, data |-> s.data], NEW e
  PROVE  /\ e.type = "NewTree" =>
               Step(s, e, FALSE) = [tree |-> <<>>, open |-> Append(s.open, [node |-> e.node, tree |-> s.tree]),
                                    trees |-> s.trees, data |-> s.data]
         /\ e.type = "EndTree" =>
               Step(s, e, FALSE) =
                   [tree |-> Append(Last(s.open).tree, [Last(s.open).node EXCEPT !.subtree = <<s.tree>>]),
                    open |-> Front(s.open), trees |-> s.trees \cup {s.tree}, data |-> s.data]
         /\ e.type = "Other" =>
               /\ Step(s, e, FALSE) =
                      [tree |-> Append(s.tree, NodeRead(e)), open |-> s.open, trees |-> s.trees,
                       data |-> IF e.node.type = "file" THEN s.data \cup ToSet(e.data) ELSE s.data]
               /\ Step(s, e, TRUE) = s
<1>1. ASSUME NEW a, NEW b
      PROVE  [s EXCEPT !.tree = a, !.open = b] = [tree |-> a, open |-> b, trees |-> s.trees, data |-> s.data]
  <2>. DEFINE r == [s EXCEPT !.tree = a]
  <2>1. r = [tree |-> a, open |-> s.open, trees |-> s.trees, data |-> s.data]
    OBVIOUS
  <2>2. [s EXCEPT !.tree = a, !.open = b] = [r EXCEPT !.open = b]
    OBVIOUS
  <2>. HIDE DEF r
  <2>. QED  BY <2>1, <2>2
<1>2. ASSUME NEW a, NEW b, NEW c
      PROVE  [s EXCEPT !.tree = a, !.open = b, !.trees = c] = [tree |-> a, open |-> b, trees |-> c, data |-> s.data]
  <2>. DEFINE r == [s EXCEPT !.tree = a, !.open = b]
  <2>1. r = [tree |-> a, open |-> b, trees |-> s.trees, data |-> s.data]
    BY <1>1
  <2>2. [s EXCEPT !.tree = a, !.open = b, !.trees = c] = [r EXCEPT !.trees = c]
    OBVIOUS
  <2>. HIDE DEF r
  <2>. QED  BY <2>1, <2>2
<1>3. ASSUME NEW a, NEW b
      PROVE  [s EXCEPT !.tree = a, !.data = b] = [tree |-> a, open |-> s.open, trees |-> s.trees, data |-> b]
  <2>. DEFINE r == [s EXCEPT !.tree = a]
  <2>1. r = [tree |-> a, open |-> s.open, trees |-> s.trees, data |-> s.data]
    OBVIOUS
  <2>2. [s EXCEPT !.tree = a, !.data = b] = [r EXCEPT !.data = b]
    OBVIOUS
  <2>. HIDE DEF r
  <2>. QED  BY <2>1, <2>2
<1>4. ASSUME NEW a  PROVE [s EXCEPT !.tree = a] = [tree |-> a, open |-> s.open, trees |-> s.trees, data |-> s.data]
  OBVIOUS
<1>5. CASE e.type = "NewTree"
  BY <1>1, <1>5 DEF Step
<1>6. CASE e.type = "EndTree"
  BY <1>2, <1>6 DEF Step
<1>7. CASE e.type = "Other"
  <2>1. CASE e.node.type = "file"
    BY <1>3, <1>7, <2>1 DEF Step, NodeRead
  <2>2. CASE e.node.type # "file"
    BY <1>4, <1>7, <2>2 DEF Step, NodeRead
  <2>. QED  BY <2>1, <2>2
<1>. QED  BY <1>5, <1>6, <1>7

\* A tree is sent unless the index has it.
LEMMA TreeSent ==
  ASSUME NEW parent, CountsOK, SendTree(parent), in' = in
  PROVE  /\ sent' = [trees |-> sent'.trees, data |-> sent'.data] /\ AllData' = AllData
         /\ AllTrees \subseteq AllTrees' /\ (InIndex(parent, Presumed(in)) => tree \in AllTrees')
<1>1. sent = [trees |-> sent.trees, data |-> sent.data]
  BY DEF CountsOK
<1>2. sent' = [trees |-> sent.trees \cup NewTrees(parent), data |-> sent.data]
  <2>. DEFINE new == NewTrees(parent)
  <2>1. sent' = [sent EXCEPT !.trees = @ \cup new]
    BY DEF SendTree
  <2>. HIDE DEF new
  <2>2. sent' = [trees |-> sent.trees \cup new, data |-> sent.data]
    BY <1>1, <2>1
  <2>. QED  BY <2>2 DEF new
<1>3. InIndex(parent, Presumed(in)) => tree \in Presumed(in) \cup NewTrees(parent)
  <2>1. CASE parent = Matched(tree)
    <3>1. parent.result = "Matched" /\ parent.value[1] = tree
      BY <2>1 DEF Matched
    <3>. QED  BY <3>1 DEF InIndex
  <2>2. CASE parent # Matched(tree)
    BY <2>2 DEF NewTrees, Presumed
  <2>. QED  BY <2>1, <2>2
<1>. QED  BY <1>2, <1>3 DEF AllTrees, AllData

\* TreeArchiver makes of the next item what the source says of it.
LEMMA AddKeeps ==
  ASSUME ArchiveInv, Add
  PROVE  ArchiveInv'
<1>. DEFINE q == Head(queue)
            n == Added + 1
            e == in.events[n]
            s == ReadSource(in, lost)[Added]
<1>1. /\ UNCHANGED <<in, fed, p_trees, p_stack, lost, dropped, errors, phase, snap>>
      /\ phase = "archive" /\ queue # <<>> /\ q.state = "ok" /\ queue' = Tail(queue)
  BY DEF Add, parentVars
<1>2. CountsOK /\ ParentsOK
  BY DEF ArchiveInv
<1>3. /\ Added' = n /\ Added \in Nat /\ n \in 1 .. Len(in.events) /\ n - 1 = Added
      /\ IsSequence(queue') /\ Len(queue') <= fed' /\ in \in Inputs /\ IsSequence(stack)
  BY <1>1, <1>2, HeadLeaves DEF CountsOK
<1>4. \/ /\ q.item.type = "NewTree" /\ sent' = sent /\ tree' = <<>>
         /\ stack' = Append(stack, [node |-> q.item.node, parent |-> q.parent, tree |-> tree])
      \/ /\ q.item.type = "EndTree" /\ stack # <<>> /\ SendTree(Last(stack).parent)
         /\ tree' = Append(Last(stack).tree, [Last(stack).node EXCEPT !.subtree = <<tree>>])
         /\ stack' = Front(stack)
      \/ /\ q.item.type = "Other" /\ tree' = Append(tree, q.item.node) /\ stack' = stack /\ sent' = sent
  BY DEF Add
<1>5. IsSequence(stack') /\ sent' = [trees |-> sent'.trees, data |-> sent'.data] /\ AllData' = AllData
  <2>1. sent' = sent => sent' = [trees |-> sent'.trees, data |-> sent'.data] /\ AllData' = AllData
    BY <1>1, <1>2 DEF CountsOK, AllData
  <2>2. \A d : IsSequence(Append(stack, d))
    BY <1>3, AppendFacts
  <2>3. stack # <<>> => IsSequence(Front(stack))
    BY <1>3, FrontFacts
  <2>. HIDE DEF q
  <2>. QED  BY <1>1, <1>2, <1>3, <1>4, <2>1, <2>2, <2>3, TreeSent
<1>6. CountsOK'
  BY <1>1, <1>2, <1>3, <1>5 DEF CountsOK
<1>7. ParentsOK' /\ EndOK'
  BY <1>1, <1>2 DEF ParentsOK, DirsAt, EndOK
<1>8. ASSUME dropped' = {}  PROVE (QueueOK /\ BuiltOK /\ StackOK /\ LostOK)'
  <2>1. QueueOK /\ BuiltOK /\ StackOK /\ LostOK
    BY <1>1, <1>8 DEF ArchiveInv
  <2>2. ItemOK(q, n, e, lost, AllData, Presumed(in)) /\ QueueOK'
    BY <1>1, <1>2, <1>5, <2>1, HeadLeaves
  <2>3. /\ n \notin lost /\ q.item.type = e.type /\ q.item.node = NodeRead(e)
        /\ e.type = "Other" /\ e.node.type = "file" => ToSet(e.data) \subseteq AllData
        /\ e.type = "NewTree" => InIndex(q.parent, Presumed(in))
        /\ e.type # "Other" => NodeRead(e) = e.node
    <3>1. q.item.type = e.type
      BY <2>2 DEF ItemOK
    <3>. QED  BY <1>1, <2>2, <3>1 DEF ItemOK, Finished, NodeRead
  <2>4. ReadSource(in, lost)[n] = Step(s, e, FALSE)
    <3>1. (n \in lost) = FALSE
      BY <2>3
    <3>. HIDE DEF n
    <3>. QED  BY <1>3, <3>1, SourceNext DEF n
  <2>5. /\ s = [tree |-> s.tree, open |-> s.open, trees |-> s.trees, data |-> s.data]
        /\ tree = s.tree /\ s.open = Opened(stack) /\ s.trees \subseteq AllTrees /\ s.data \subseteq AllData
    BY <2>1 DEF BuiltOK
  <2>. DEFINE t == Step(s, e, FALSE)
  <2>6. LostOK'
    <3>1. lost \cap 1 .. n = lost \cap 1 .. Added
      BY <1>3, <2>3
    <3>. QED  BY <1>1, <1>3, <2>1, <3>1 DEF LostOK
  <2>7. /\ tree' = t.tree /\ t = [tree |-> t.tree, open |-> t.open, trees |-> t.trees, data |-> t.data]
        /\ t.open = Opened(stack') /\ t.trees \subseteq AllTrees' /\ t.data \subseteq AllData
        /\ StackOK'
    <3>. HIDE DEF q, n, s, e
    <3>1. CASE /\ q.item.type = "NewTree" /\ sent' = sent /\ tree' = <<>>
               /\ stack' = Append(stack, [node |-> q.item.node, parent |-> q.parent, tree |-> tree])
      <4>. DEFINE d == [node |-> q.item.node, parent |-> q.parent, tree |-> tree]
                  o == Append(s.open, [node |-> e.node, tree |-> s.tree])
      <4>1. t = [tree |-> <<>>, open |-> o, trees |-> s.trees, data |-> s.data]
        BY <2>3, <2>5, <3>1, StepFacts
      <4>2. Opened(stack') = o
        <5>1. Opened(stack') = Append(Opened(stack), [node |-> d.node, tree |-> d.tree])
          BY <1>3, <3>1, OpenedFacts
        <5>. QED  BY <2>3, <2>5, <3>1, <5>1
      <4>3. StackOK'
        <5>1. /\ DOMAIN stack' = 1 .. Len(stack) + 1 /\ stack'[Len(stack) + 1] = d
              /\ \A k \in 1 .. Len(stack) : stack'[k] = stack[k]
          BY <1>3, <3>1, AppendFacts
        <5>2. InIndex(d.parent, Presumed(in))
          BY <2>3, <3>1
        <5>3. Len(stack) \in Nat /\ DOMAIN stack = 1 .. Len(stack)
          BY <1>3, SequenceFacts
        <5>4. \A k \in 1 .. Len(stack) + 1 : k \in 1 .. Len(stack) \/ k = Len(stack) + 1
          BY <5>3
        <5>. HIDE DEF d
        <5>. QED  BY <1>1, <2>1, <5>1, <5>2, <5>3, <5>4 DEF StackOK
      <4>4. AllTrees' = AllTrees
        BY <1>1, <3>1 DEF AllTrees
      <4>. HIDE DEF o, t, d
      <4>. QED  BY <2>5, <3>1, <4>1, <4>2, <4>3, <4>4
    <3>2. CASE /\ q.item.type = "EndTree" /\ stack # <<>> /\ SendTree(Last(stack).parent)
               /\ tree' = Append(Last(stack).tree, [Last(stack).node EXCEPT !.subtree = <<tree>>])
               /\ stack' = Front(stack)
      <4>1. t = [tree |-> Append(Last(s.open).tree, [Last(s.open).node EXCEPT !.subtree = <<s.tree>>]),
                 open |-> Front(s.open), trees |-> s.trees \cup {s.tree}, data |-> s.data]
        <5>1. e.type = "EndTree" /\ s = [tree |-> s.tree, open |-> s.open, trees |-> s.trees, data |-> s.data]
          BY <2>3, <2>5, <3>2
        <5>. QED  BY <5>1, StepFacts
      <4>. HIDE DEF t
      <4>2. /\ Opened(stack') = Front(s.open)
            /\ Last(s.open) = [node |-> Last(stack).node, tree |-> Last(stack).tree]
        BY <1>3, <2>5, <3>2, OpenedFacts
      <4>3. tree' = t.tree
        <5>1. t.tree = Append(Last(s.open).tree, [Last(s.open).node EXCEPT !.subtree = <<s.tree>>])
          BY <4>1
        <5>2. Last(s.open).tree = Last(stack).tree /\ Last(s.open).node = Last(stack).node
          BY <4>2
        <5>. QED  BY <2>5, <3>2, <5>1, <5>2
      <4>4. InIndex(Last(stack).parent, Presumed(in))
        BY <1>3, <2>1, <3>2, FrontFacts DEF StackOK
      <4>5. AllTrees \subseteq AllTrees' /\ tree \in AllTrees'
        BY <1>1, <1>2, <3>2, <4>4, TreeSent
      <4>6. StackOK'
        <5>1. /\ DOMAIN stack' = 1 .. Len(stack) - 1 /\ Len(stack) \in Nat \ {0}
              /\ \A k \in 1 .. Len(stack) - 1 : stack'[k] = stack[k]
          BY <1>3, <3>2, FrontFacts
        <5>2. DOMAIN stack = 1 .. Len(stack)
          BY <1>3, SequenceFacts
        <5>3. \A k \in 1 .. Len(stack) - 1 : k \in 1 .. Len(stack)
          BY <5>1
        <5>. QED  BY <1>1, <2>1, <5>1, <5>2, <5>3 DEF StackOK
      <4>7. t.open = Front(s.open) /\ t.trees = s.trees \cup {s.tree} /\ t.data = s.data
        <5>. DEFINE o == Front(s.open)
                    built == Append(Last(s.open).tree, [Last(s.open).node EXCEPT !.subtree = <<s.tree>>])
        <5>1. t = [tree |-> built, open |-> o, trees |-> s.trees \cup {s.tree}, data |-> s.data]
          BY <4>1
        <5>. HIDE DEF o, built
        <5>2. t.open = o /\ t.trees = s.trees \cup {s.tree} /\ t.data = s.data
          BY <5>1
        <5>. QED  BY <5>2 DEF o
      <4>8. t = [tree |-> t.tree, open |-> t.open, trees |-> t.trees, data |-> t.data]
        BY <4>1
      <4>. HIDE DEF t
      <4>. QED  BY <2>5, <4>2, <4>3, <4>5, <4>6, <4>7, <4>8
    <3>3. CASE /\ q.item.type = "Other" /\ tree' = Append(tree, q.item.node) /\ stack' = stack /\ sent' = sent
      <4>. DEFINE more == IF e.node.type = "file" THEN s.data \cup ToSet(e.data) ELSE s.data
      <4>1. t = [tree |-> Append(s.tree, NodeRead(e)), open |-> s.open, trees |-> s.trees, data |-> more]
        <5>1. e.type = "Other" /\ s = [tree |-> s.tree, open |-> s.open, trees |-> s.trees, data |-> s.data]
          BY <2>3, <2>5, <3>3
        <5>. QED  BY <5>1, StepFacts
      <4>2. more \subseteq AllData
        BY <2>3, <2>5, <3>3
      <4>3. StackOK' /\ AllTrees' = AllTrees
        BY <1>1, <2>1, <3>3 DEF StackOK, AllTrees
      <4>. HIDE DEF t, more
      <4>. QED  BY <2>3, <2>5, <3>3, <4>1, <4>2, <4>3
    <3>. QED  BY <1>4, <3>1, <3>2, <3>3
  <2>. HIDE DEF t, s
  <2>8. BuiltOK'
    <3>1. ReadSource(in, lost)'[Added'] = t
      BY <1>1, <1>3, <2>4 DEF t
    <3>. QED  BY <1>1, <1>5, <2>7, <3>1 DEF BuiltOK
  <2>. QED  BY <2>2, <2>6, <2>7, <2>8
<1>. QED  BY <1>6, <1>7, <1>8 DEF ArchiveInv

\* A file with an error is left out and counted.
LEMMA ReportKeeps ==
  ASSUME ArchiveInv, Report
  PROVE  ArchiveInv'
<1>. DEFINE q == Head(queue)
            n == Added + 1
            e == in.events[n]
            s == ReadSource(in, lost)[Added]
<1>1. /\ UNCHANGED <<in, fed, p_trees, p_stack, tree, stack, sent, lost, dropped, phase, snap>>
      /\ errors' = errors + 1
      /\ phase = "archive" /\ queue # <<>> /\ q.state = "err" /\ queue' = Tail(queue)
  BY DEF Report, parentVars, treeVars, Counted
<1>2. CountsOK /\ ParentsOK
  BY DEF ArchiveInv
<1>3. /\ Added' = n /\ Added \in Nat /\ n \in 1 .. Len(in.events) /\ n - 1 = Added
      /\ IsSequence(queue') /\ Len(queue') <= fed' /\ in \in Inputs
  BY <1>1, <1>2, HeadLeaves DEF CountsOK
<1>4. AllData' = AllData /\ AllTrees' = AllTrees
  BY <1>1 DEF AllData, AllTrees
<1>5. CountsOK'
  BY <1>1, <1>2, <1>3 DEF CountsOK
<1>6. ParentsOK' /\ EndOK'
  BY <1>1, <1>2 DEF ParentsOK, DirsAt, EndOK
<1>7. ASSUME dropped' = {}  PROVE (QueueOK /\ BuiltOK /\ StackOK /\ LostOK)'
  <2>1. QueueOK /\ BuiltOK /\ StackOK /\ LostOK
    BY <1>1, <1>7 DEF ArchiveInv
  <2>2. ItemOK(q, n, e, lost, AllData, Presumed(in)) /\ QueueOK'
    BY <1>1, <1>2, <1>4, <2>1, HeadLeaves
  <2>3. n \in lost /\ e.type = "Other"
    BY <1>1, <2>2 DEF ItemOK
  <2>4. ReadSource(in, lost)[n] = s
    <3>1. (n \in lost) = TRUE
      BY <2>3
    <3>2. ReadSource(in, lost)[n] = Step(s, e, TRUE)
      <4>. HIDE DEF n
      <4>. QED  BY <1>3, <3>1, SourceNext DEF n
    <3>3. s = [tree |-> s.tree, open |-> s.open, trees |-> s.trees, data |-> s.data]
      BY <2>1 DEF BuiltOK
    <3>. HIDE DEF s, e, n
    <3>. QED  BY <2>3, <3>2, <3>3, StepFacts
  <2>5. BuiltOK' /\ StackOK'
    <3>1. ReadSource(in, lost)'[Added'] = ReadSource(in, lost)[Added]
      BY <1>1, <1>3, <2>4
    <3>. QED  BY <1>1, <1>4, <2>1, <3>1 DEF BuiltOK, StackOK
  <2>6. LostOK'
    <3>. DEFINE T == lost \cap 1 .. Added
    <3>1. lost \cap 1 .. n = T \cup {n} /\ n \notin T
      BY <1>3, <2>3
    <3>2. IsFiniteSet(T)
      <4>1. IsFiniteSet(1 .. Added) /\ T \subseteq 1 .. Added
        BY <1>3, FS_Interval
      <4>. HIDE DEF T
      <4>. QED  BY <4>1, FS_Subset
    <3>3. Cardinality(T \cup {n}) = Cardinality(T) + 1
      BY <3>1, <3>2, FS_AddElement
    <3>. QED  BY <1>1, <1>3, <2>1, <3>1, <3>3 DEF LostOK
  <2>. QED  BY <2>2, <2>5, <2>6
<1>. QED  BY <1>5, <1>6, <1>7 DEF ArchiveInv

\* What a step leaves that does not archive
LEMMA IdleKeeps ==
  ASSUME ArchiveInv,
         UNCHANGED <<in, fed, p_trees, p_stack, queue, tree, stack, sent, lost, dropped, errors>>,
         EndOK'
  PROVE  ArchiveInv'
<1>1. Added' = Added /\ AllData' = AllData /\ AllTrees' = AllTrees
  BY DEF Added, AllData, AllTrees
<1>2. CountsOK' /\ ParentsOK'
  BY DEF ArchiveInv, CountsOK, ParentsOK, DirsAt
<1>3. ASSUME dropped' = {}  PROVE (QueueOK /\ BuiltOK /\ StackOK /\ LostOK)'
  <2>1. QueueOK /\ BuiltOK /\ StackOK /\ LostOK
    BY <1>3 DEF ArchiveInv
  <2>. QED  BY <1>1, <2>1 DEF QueueOK, BuiltOK, StackOK, LostOK
<1>. QED  BY <1>2, <1>3 DEF ArchiveInv

\* The root tree of the first parent, which is not sent again, is in the index.
LEMMA RootKnown ==
  ASSUME in \in Inputs
  PROVE  InIndex(RootParent, Presumed(in))
<1>. DEFINE loaded == {k \in DOMAIN in.parents : in.parents[k] \in in.trees}
<1>1. CASE loaded = {}
  BY <1>1 DEF RootParent, FirstParent, InIndex, NotFound
<1>2. CASE loaded # {}
  <2>1. Min(loaded) \in loaded
    <3>1. loaded \subseteq Nat
      BY InputFacts
    <3>. HIDE DEF loaded
    <3>. QED  BY <1>2, <3>1, MinFact
  <2>. DEFINE t == in.parents[Min(loaded)]
  <2>2. t \in in.trees
    BY <2>1
  <2>3. FirstParent = <<t>>
    BY <1>2 DEF FirstParent
  <2>. HIDE DEF t
  <2>4. RootParent = Matched(t)
    BY <2>3 DEF RootParent, None
  <2>. QED  BY <2>2, <2>4 DEF InIndex, Matched, Presumed
<1>. QED  BY <1>1, <1>2

\* The root tree is stored before the snapshot is saved.
LEMMA FinalizeKeeps ==
  ASSUME ArchiveInv, Finalize
  PROVE  ArchiveInv'
<1>. DEFINE root == RootParent
<1>1. /\ UNCHANGED <<in, fed, p_trees, p_stack, queue, tree, stack, lost, dropped, errors>>
      /\ phase = "finalize" /\ SendTree(root) /\ snap' = <<tree>>
  BY DEF Finalize, parentVars, treeVars
<1>2. CountsOK /\ ParentsOK /\ EndOK /\ in \in Inputs
  BY DEF ArchiveInv, CountsOK
<1>3. /\ sent' = [trees |-> sent'.trees, data |-> sent'.data] /\ AllData' = AllData
      /\ AllTrees \subseteq AllTrees' /\ tree \in AllTrees'
  <2>1. InIndex(root, Presumed(in)) /\ in' = in
    BY <1>1, <1>2, RootKnown
  <2>. HIDE DEF root
  <2>. QED  BY <1>1, <1>2, <2>1, TreeSent
<1>4. Added' = Added
  BY <1>1 DEF Added
<1>5. CountsOK' /\ ParentsOK'
  BY <1>1, <1>2, <1>3 DEF CountsOK, ParentsOK, DirsAt
<1>6. EndOK'
  BY <1>1, <1>2, <1>3 DEF EndOK
<1>7. ASSUME dropped' = {}  PROVE (QueueOK /\ BuiltOK /\ StackOK /\ LostOK)'
  <2>1. QueueOK /\ BuiltOK /\ StackOK /\ LostOK
    BY <1>1, <1>7 DEF ArchiveInv
  <2>. QED  BY <1>1, <1>3, <1>4, <2>1 DEF QueueOK, BuiltOK, StackOK, LostOK
<1>. QED  BY <1>5, <1>6, <1>7 DEF ArchiveInv

LEMMA ArchiveStep ==
  ASSUME ArchiveInv, [Next]_vars
  PROVE  ArchiveInv'
<1>1. CASE Feed
  BY <1>1, FeedKeeps
<1>2. ASSUME NEW i \in 1 .. InFlight, GiveUp(i)  PROVE ArchiveInv'
  BY <1>2, GiveUpKeeps
<1>3. ASSUME NEW i \in 1 .. InFlight, Process(i)  PROVE ArchiveInv'
  BY <1>3, ProcessKeeps
<1>4. CASE Add
  BY <1>4, AddKeeps
<1>5. CASE Report
  BY <1>5, ReportKeeps
<1>6. CASE Stop \/ Guard \/ FinalizeFails
  <2>1. UNCHANGED <<in, fed, p_trees, p_stack, queue, tree, stack, sent, lost, dropped, errors>>
    BY <1>6 DEF Stop, Guard, FinalizeFails, parentVars, treeVars
  <2>2. \/ phase' = "failed"
        \/ phase' = "finalize" /\ fed = Len(in.events) /\ queue = <<>>
    BY <1>6 DEF Stop, Guard, FinalizeFails, Drained
  <2>3. EndOK'
    BY <2>1, <2>2 DEF EndOK
  <2>. QED  BY <2>1, <2>3, IdleKeeps
<1>7. CASE Finalize
  BY <1>7, FinalizeKeeps
<1>8. CASE Cancel \/ UNCHANGED vars
  <2>1. UNCHANGED <<in, fed, p_trees, p_stack, queue, tree, stack, sent, lost, dropped, errors, phase, snap>>
    BY <1>8 DEF Cancel, vars, parentVars, treeVars
  <2>2. EndOK'
    BY <2>1 DEF ArchiveInv, EndOK, AllTrees
  <2>. QED  BY <2>1, <2>2, IdleKeeps
<1>. QED
  BY <1>1, <1>2, <1>3, <1>4, <1>5, <1>6, <1>7, <1>8 DEF Next, Archive

-----------------------------------------------------------------------------
(***************************************************************************)
(* Cancellation.  CanceledNotSaved is not inductive: that nothing has been *)
(* dropped when the final check passes follows from items being dropped    *)
(* only once the token is set, and from the token being never reset.       *)
(***************************************************************************)
\* An item was dropped only because the token was set; from the final check on
\* nothing has been dropped.
CancelInv ==
    /\ dropped # {} => canceled
    /\ phase \in {"finalize", "saved", "skipped"} => dropped = {}

LEMMA CancelInit == Init => CancelInv
  BY DEF Init, CancelInv

LEMMA CancelStep == CancelInv /\ [Next]_vars => CancelInv'
<1> SUFFICES ASSUME CancelInv, [Next]_vars
             PROVE  CancelInv'
  OBVIOUS
<1> USE DEF CancelInv
\* Nothing is dropped, and the final check has not been reached.
<1>1. CASE Feed \/ Add \/ Report
  BY <1>1 DEF Feed, Add, Report
\* The only step that drops something needs the token.
<1>2. ASSUME NEW i \in 1 .. InFlight, GiveUp(i)
      PROVE  CancelInv'
  BY <1>2 DEF GiveUp
<1>3. ASSUME NEW i \in 1 .. InFlight, Process(i)
      PROVE  CancelInv'
  BY <1>3 DEF Process
<1>4. CASE Stop \/ FinalizeFails
  BY <1>4 DEF Stop, FinalizeFails
\* The final check passes only if the token is not set.
<1>5. CASE Guard
  BY <1>5 DEF Guard, Drained, Continues
<1>6. CASE Finalize
  BY <1>6 DEF Finalize
\* A cancellation after the final check comes too late.
<1>7. CASE Cancel
  BY <1>7 DEF Cancel
<1>8. CASE UNCHANGED vars
  BY <1>8 DEF vars
<1> QED
  BY <1>1, <1>2, <1>3, <1>4, <1>5, <1>6, <1>7, <1>8 DEF Next, Archive

\* A snapshot is saved, or found to be that of the parent, only if no item was
\* dropped because of a cancellation: the check after the scope in Archiver::archive
\* is enough, although the threads only check the token before an item.
THEOREM CanceledNeverSaved == Spec => []CanceledNotSaved
<1>1. CancelInv => CanceledNotSaved
  BY DEF CancelInv, CanceledNotSaved
<1> QED
  BY CancelInit, CancelStep, <1>1, PTL DEF Spec

-----------------------------------------------------------------------------
(***************************************************************************)
(* The snapshot                                                            *)
(***************************************************************************)
\* At the end all items have left the queue, and none was dropped.
LEMMA AllAdded ==
  ASSUME ArchiveInv, CancelInv, phase \in {"saved", "skipped"}
  PROVE  /\ BuiltOK /\ LostOK /\ Added = Len(in.events) /\ fed = Len(in.events)
         /\ Source = ReadSource(in, lost)[Added]
         /\ snap = <<tree>> /\ (phase = "saved" => tree \in AllTrees)
<1>1. dropped = {} /\ fed = Len(in.events) /\ queue = <<>> /\ snap = <<tree>> /\ (phase = "saved" => tree \in AllTrees)
  BY DEF ArchiveInv, CancelInv, EndOK
<1>2. Added = Len(in.events)
  <2>1. Len(<<>>) = 0
    OBVIOUS
  <2>2. Added = Len(in.events) - 0 /\ Len(in.events) \in Nat
    BY <1>1, <2>1, QueueFacts DEF ArchiveInv, Added
  <2>. QED  BY <2>2
<1>. QED  BY <1>1, <1>2 DEF ArchiveInv, Source

LEMMA IsSource == ArchiveInv /\ CancelInv => SnapshotFaithful
<1>. SUFFICES ASSUME ArchiveInv, CancelInv, phase \in {"saved", "skipped"}
              PROVE  snap = <<Source.tree>> /\ errors = Cardinality(lost)
  BY DEF SnapshotFaithful
<1>1. lost \cap 1 .. Added = lost
  BY AllAdded DEF LostOK
<1>. QED  BY <1>1, AllAdded DEF BuiltOK, LostOK

LEMMA IsStored == ArchiveInv /\ CancelInv => SnapshotStored
<1>. SUFFICES ASSUME ArchiveInv, CancelInv, phase = "saved"
              PROVE  /\ Source.trees \cup {Source.tree} \subseteq in.trees \cup sent.trees \cup TakenOver(in)
                     /\ Source.data \subseteq in.data \cup sent.data
  BY DEF SnapshotStored
<1>. QED  BY AllAdded DEF BuiltOK, AllTrees, AllData, Presumed

\* A snapshot that is saved, or found to be that of the parent, has the tree of the
\* source without the files with an error, of which error_count is the number: neither
\* the parents, nor a part of their trees that cannot be loaded, nor the order in which
\* the threads of FileArchiver finish can be seen in it.
THEOREM SnapshotIsSource == Spec => []SnapshotFaithful
<1>1. Init => ArchiveInv /\ CancelInv
  BY ArchiveStarts, CancelInit
<1>2. (ArchiveInv /\ CancelInv) /\ [Next]_vars => (ArchiveInv /\ CancelInv)'
  BY ArchiveStep, CancelStep
<1>. QED
  BY <1>1, <1>2, IsSource, PTL DEF Spec

\* All trees and chunks of a snapshot that is saved are in the index or have been given to
\* the packers, although trees like those of the parents and files like those in them,
\* whose blobs the index has, are never given to them.  The exception are trees that a
\* parent names at the same place and the index has lost (tree_archiver.rs:178).
THEOREM SnapshotIsStored == Spec => []SnapshotStored
<1>1. Init => ArchiveInv /\ CancelInv
  BY ArchiveStarts, CancelInit
<1>2. (ArchiveInv /\ CancelInv) /\ [Next]_vars => (ArchiveInv /\ CancelInv)'
  BY ArchiveStep, CancelStep
<1>. QED
  BY <1>1, <1>2, IsStored, PTL DEF Spec
=============================================================================
