---------------------------- MODULE PruneProofs ----------------------------
(***************************************************************************)
(* Prune on its own: the deciding algorithm keeps its promise, and the     *)
(* execution of its plan loses no used blob wherever it stops.             *)
(***************************************************************************)
EXTENDS PruneRun, FiniteSetTheorems, WellFoundedInduction, TLAPS

-----------------------------------------------------------------------------
(***************************************************************************)
(* Least numbers, finite images                                            *)
(***************************************************************************)
Smaller == {ss \in Nat \X Nat : ss[1] < ss[2]}

\* Every set of numbers that is not empty has a smallest one.
LEMMA LeastNumber ==
  ASSUME NEW T, T \subseteq Nat, T # {}
  PROVE  \E x \in T : \A y \in T : ~(y < x)
<1>1. IsWellFoundedOn(Smaller, Nat)
  BY NatLessThanWellFounded DEF OpToRel, Smaller
<1>2. \E x \in T : \A y \in T : ~(<<y, x>> \in Smaller)
  BY <1>1, WFMin
<1>3. \A x, y \in Nat : y < x => <<y, x>> \in Smaller
  BY DEF Smaller
<1>. QED  BY <1>2, <1>3

\* A set that has 0 and the successor of each of its numbers has all numbers.
LEMMA SetInduction ==
  ASSUME NEW S, 0 \in S, \A n \in Nat : n \in S => n + 1 \in S
  PROVE  Nat \subseteq S
<1>. DEFINE T == Nat \ S
<1>. SUFFICES ASSUME T # {}  PROVE FALSE
  OBVIOUS
<1>1. PICK x \in T : \A y \in T : ~(y < x)
  BY LeastNumber
<1>2. x # 0 /\ x - 1 \in Nat /\ x - 1 < x
  BY <1>1
<1>3. x - 1 \in S
  BY <1>1, <1>2
<1>. QED  BY <1>1, <1>2, <1>3

\* What rule makes of first, n times
IsIteration(g, first, rule, n) == g[0] = first /\ \A i \in 1 .. n : g[i] = rule[<<i, g[i - 1]>>]

\* A recursive function on 0 .. n whose steps are given by another function exists.
LEMMA IterationExists ==
  ASSUME NEW X, NEW first \in X, NEW rule \in [Nat \X X -> X], NEW n \in Nat
  PROVE  \E g \in [0 .. n -> X] : IsIteration(g, first, rule, n)
<1>. DEFINE Iterates(m, g) == g[0] = first /\ \A i \in 1 .. m : g[i] = rule[<<i, g[i - 1]>>]
            S == {m \in Nat : \E g \in [0 .. m -> X] : Iterates(m, g)}
<1>1. 0 \in S
  <2>1. [i \in 0 .. 0 |-> first] \in [0 .. 0 -> X] /\ Iterates(0, [i \in 0 .. 0 |-> first])
    OBVIOUS
  <2>. QED  BY <2>1
<1>2. ASSUME NEW m \in Nat, m \in S  PROVE m + 1 \in S
  <2>1. PICK g \in [0 .. m -> X] : Iterates(m, g)
    BY <1>2
  <2>. DEFINE h == [i \in 0 .. m + 1 |-> IF i = m + 1 THEN rule[<<i, g[m]>>] ELSE g[i]]
  <2>2. h \in [0 .. m + 1 -> X]
    <3>1. rule[<<m + 1, g[m]>>] \in X
      OBVIOUS
    <3>2. \A i \in 0 .. m + 1 : i = m + 1 \/ i \in 0 .. m
      OBVIOUS
    <3>. QED  BY <3>1, <3>2
  <2>3. Iterates(m + 1, h)
    <3>1. h[0] = g[0] /\ h[m] = g[m] /\ h[m + 1] = rule[<<m + 1, g[m]>>]
      OBVIOUS
    <3>2. ASSUME NEW i \in 1 .. m  PROVE h[i] = g[i] /\ h[i - 1] = g[i - 1]
      OBVIOUS
    <3>3. \A i \in 1 .. m + 1 : i = m + 1 \/ i \in 1 .. m
      OBVIOUS
    <3>4. (m + 1) - 1 = m
      OBVIOUS
    <3>. HIDE DEF h
    <3>. QED  BY <2>1, <3>1, <3>2, <3>3, <3>4
  <2>. HIDE DEF h, Iterates
  <2>4. \E f \in [0 .. m + 1 -> X] : Iterates(m + 1, f)
    BY <2>2, <2>3
  <2>. QED  BY <2>4
<1>3. n \in S
  <2>. HIDE DEF S
  <2>. QED  BY <1>1, <1>2, SetInduction
<1>. QED  BY <1>3 DEF IsIteration

\* The values of a function on a finite set are finitely many.
LEMMA FiniteImage ==
  ASSUME NEW S, IsFiniteSet(S), NEW f, f = [x \in S |-> f[x]]
  PROVE  IsFiniteSet({f[x] : x \in S})
<1>. DEFINE T == {f[x] : x \in S}
<1>1. f \in Surjection(S, T)
  BY DEF Surjection
<1>. QED  BY <1>1, FS_Surjection

-----------------------------------------------------------------------------
(***************************************************************************)
(* Entries of the index                                                    *)
(***************************************************************************)
Found == \E family \in DOMAIN Inputs : in \in Inputs[family]

LEMMA InputFacts ==
  ASSUME Found
  PROVE  /\ DOMAIN in.files \subseteq Nat /\ IsFiniteSet(DOMAIN in.files)
         /\ \A i \in DOMAIN in.files : \A s \in SectionName :
               /\ DOMAIN in.files[i][s] \subseteq Nat /\ IsFiniteSet(DOMAIN in.files[i][s])
               /\ \A k \in DOMAIN in.files[i][s] : EntryOK(in.files[i][s][k])
  BY InputAssumption DEF Found

\* An entry with its place
Placed(s, i, k) == [file |-> i, pos |-> k, entry |-> in.files[i][s][k]]

LEMMA SectionMembers ==
  ASSUME NEW s
  PROVE  /\ \A e \in Section(s) : \E i \in DOMAIN in.files : \E k \in DOMAIN in.files[i][s] : e = Placed(s, i, k)
         /\ \A i \in DOMAIN in.files : \A k \in DOMAIN in.files[i][s] : Placed(s, i, k) \in Section(s)
  BY DEF Section, SectionOf, Placed

LEMMA SectionFacts ==
  ASSUME Found, NEW s \in SectionName, NEW e \in Section(s)
  PROVE  /\ e.file \in DOMAIN in.files /\ e.pos \in DOMAIN in.files[e.file][s]
         /\ e = Placed(s, e.file, e.pos) /\ e.entry = in.files[e.file][s][e.pos]
         /\ e.file \in Nat /\ e.pos \in Nat /\ EntryOK(e.entry)
<1>1. PICK i \in DOMAIN in.files : \E k \in DOMAIN in.files[i][s] : e = Placed(s, i, k)
  BY SectionMembers
<1>2. PICK k \in DOMAIN in.files[i][s] : e = Placed(s, i, k)
  BY <1>1
<1>3. e.file = i /\ e.pos = k /\ e.entry = in.files[i][s][k]
  BY <1>2 DEF Placed
<1>. QED  BY <1>2, <1>3, InputFacts

LEMMA SectionFinite ==
  ASSUME Found, NEW s \in SectionName
  PROVE  IsFiniteSet(Section(s)) /\ IsFiniteSet(IdsOf(Section(s)))
<1>. DEFINE Here(i) == {Placed(s, i, k) : k \in DOMAIN in.files[i][s]}
            All == {Here(i) : i \in DOMAIN in.files}
<1>1. ASSUME NEW i \in DOMAIN in.files  PROVE IsFiniteSet(Here(i))
  <2>. DEFINE f == [k \in DOMAIN in.files[i][s] |-> Placed(s, i, k)]
  <2>1. IsFiniteSet({f[k] : k \in DOMAIN in.files[i][s]})
    <3>1. f = [k \in DOMAIN in.files[i][s] |-> f[k]]
      OBVIOUS
    <3>2. IsFiniteSet(DOMAIN in.files[i][s])
      BY InputFacts
    <3>. HIDE DEF f
    <3>. QED  BY <3>1, <3>2, FiniteImage
  <2>2. {f[k] : k \in DOMAIN in.files[i][s]} = Here(i)
    OBVIOUS
  <2>. QED  BY <2>1, <2>2
<1>2. IsFiniteSet(All)
  <2>. DEFINE f == [i \in DOMAIN in.files |-> Here(i)]
  <2>1. IsFiniteSet({f[i] : i \in DOMAIN in.files})
    <3>1. f = [i \in DOMAIN in.files |-> f[i]]
      OBVIOUS
    <3>2. IsFiniteSet(DOMAIN in.files)
      BY InputFacts
    <3>. HIDE DEF f
    <3>. QED  BY <3>1, <3>2, FiniteImage
  <2>2. {f[i] : i \in DOMAIN in.files} = All
    OBVIOUS
  <2>. QED  BY <2>1, <2>2
<1>3. IsFiniteSet(UNION All)
  <2>1. \A T \in All : IsFiniteSet(T)
    BY <1>1
  <2>. HIDE DEF All
  <2>. QED  BY <1>2, <2>1, FS_UNION
<1>4. Section(s) = UNION All
  BY DEF Section, SectionOf, Placed
<1>5. IsFiniteSet(Section(s))
  BY <1>3, <1>4
<1>6. IsFiniteSet(IdsOf(Section(s)))
  <2>. DEFINE S == Section(s)
              f == [e \in S |-> e.entry.id]
  <2>1. IsFiniteSet({f[e] : e \in S})
    <3>1. f = [e \in S |-> f[e]]
      OBVIOUS
    <3>2. IsFiniteSet(S)
      BY <1>5
    <3>. HIDE DEF f, S
    <3>. QED  BY <3>1, <3>2, FiniteImage
  <2>2. {f[e] : e \in S} = IdsOf(S)
    BY DEF IdsOf
  <2>. QED  BY <2>1, <2>2
<1>. QED  BY <1>5, <1>6

\* Among the listings of a pack there is a first one.
LEMMA FirstExists ==
  ASSUME Found, NEW s \in SectionName, NEW p \in IdsOf(Section(s))
  PROVE  /\ FirstOf(Section(s), p) \in Listings(Section(s), p)
         /\ \A f \in Listings(Section(s), p) : ~ReadBefore(f, FirstOf(Section(s), p))
<1>. DEFINE L == Listings(Section(s), p)
<1>0. \A e \in L : e \in Section(s) /\ e.file \in Nat /\ e.pos \in Nat
  BY SectionFacts DEF Listings
<1>1. L # {}
  BY DEF IdsOf, Listings
<1>2. PICK i \in {e.file : e \in L} : \A j \in {e.file : e \in L} : ~(j < i)
  <2>1. {e.file : e \in L} \subseteq Nat /\ {e.file : e \in L} # {}
    BY <1>0, <1>1
  <2>. HIDE DEF L
  <2>. QED  BY <2>1, LeastNumber
<1>. DEFINE M == {e \in L : e.file = i}
<1>3. PICK k \in {e.pos : e \in M} : \A j \in {e.pos : e \in M} : ~(j < k)
  <2>1. {e.pos : e \in M} \subseteq Nat /\ {e.pos : e \in M} # {}
    BY <1>0, <1>2
  <2>. HIDE DEF M
  <2>. QED  BY <2>1, LeastNumber
<1>4. PICK e \in M : e.pos = k
  BY <1>3
<1>5. e \in L /\ \A f \in L : ~ReadBefore(f, e)
  <2>1. ASSUME NEW f \in L, ReadBefore(f, e)  PROVE FALSE
    <3>1. ~(f.file < e.file)
      BY <1>2, <1>4
    <3>2. f.file = e.file /\ f.pos < e.pos
      BY <2>1, <3>1 DEF ReadBefore
    <3>3. f \in M
      BY <1>4, <3>2
    <3>. QED  BY <1>3, <1>4, <3>2, <3>3
  <2>. QED  BY <1>4, <2>1
<1>. QED  BY <1>5 DEF FirstOf

-----------------------------------------------------------------------------
(***************************************************************************)
(* Counting the places of a blob                                           *)
(***************************************************************************)
LEMMA OccurrencesFinite ==
  ASSUME NEW p, NEW x, plan[p].blobs \in Seq(Blob)
  PROVE  /\ IsFiniteSet(Occurrences(x, p))
         /\ Cardinality(Occurrences(x, p)) = Times(x, plan[p].blobs)
         /\ Times(x, plan[p].blobs) \in Nat
         /\ Times(x, plan[p].blobs) = 0 <=> x \notin ToSet(plan[p].blobs)
<1>. DEFINE blobs == plan[p].blobs
            K == {k \in DOMAIN blobs : blobs[k] = x}
            f == [k \in K |-> <<p, k>>]
<1>1. IsFiniteSet(K)
  <2>1. DOMAIN blobs = 1 .. Len(blobs) /\ Len(blobs) \in Nat
    OBVIOUS
  <2>2. IsFiniteSet(1 .. Len(blobs))
    BY <2>1, FS_Interval
  <2>3. K \subseteq 1 .. Len(blobs)
    BY <2>1
  <2>. QED  BY <2>2, <2>3, FS_Subset
<1>2. f \in Bijection(K, Occurrences(x, p))
  BY DEF Occurrences, Bijection, Injection, Surjection, IsInjective
<1>3. IsFiniteSet(Occurrences(x, p)) /\ Cardinality(Occurrences(x, p)) = Cardinality(K)
  <2>1. ExistsBijection(K, Occurrences(x, p))
    BY <1>2 DEF ExistsBijection
  <2>. HIDE DEF K
  <2>. QED  BY <1>1, <2>1, FS_Bijection
<1>4. Cardinality(K) = Times(x, plan[p].blobs)
  BY DEF Times
<1>5. Cardinality(K) \in Nat /\ (Cardinality(K) = 0 <=> K = {})
  <2>. HIDE DEF K
  <2>. QED  BY <1>1, FS_CardinalityType, FS_EmptySet
<1>6. K = {} <=> x \notin ToSet(plan[p].blobs)
  BY DEF ToSet
<1>. QED  BY <1>3, <1>4, <1>5, <1>6

LEMMA CopiesFinite ==
  ASSUME NEW packs, IsFiniteSet(packs), \A p \in packs : plan[p].blobs \in Seq(Blob), NEW x
  PROVE  /\ IsFiniteSet(UNION {Occurrences(x, p) : p \in packs})
         /\ Copies(x, packs) \in Nat
<1>. DEFINE All == {Occurrences(x, p) : p \in packs}
            f == [p \in packs |-> Occurrences(x, p)]
<1>1. IsFiniteSet(All)
  <2>1. IsFiniteSet({f[p] : p \in packs})
    <3>1. f = [p \in packs |-> f[p]]
      OBVIOUS
    <3>. HIDE DEF f
    <3>. QED  BY <3>1, FiniteImage
  <2>2. {f[p] : p \in packs} = All
    OBVIOUS
  <2>. QED  BY <2>1, <2>2
<1>2. \A T \in All : IsFiniteSet(T)
  BY OccurrencesFinite
<1>3. IsFiniteSet(UNION All)
  <2>. HIDE DEF All
  <2>. QED  BY <1>1, <1>2, FS_UNION
<1>. QED  BY <1>3, FS_CardinalityType DEF Copies

\* A pack takes its own places with it.
LEMMA CopiesRemove ==
  ASSUME NEW packs, IsFiniteSet(packs), \A q \in packs : plan[q].blobs \in Seq(Blob),
         NEW p \in packs, NEW x
  PROVE  /\ Copies(x, packs) = Copies(x, packs \ {p}) + Times(x, plan[p].blobs)
         /\ Copies(x, packs) \in Nat /\ Copies(x, packs \ {p}) \in Nat
         /\ Times(x, plan[p].blobs) \in Nat
<1>. DEFINE Rest == UNION {Occurrences(x, q) : q \in packs \ {p}}
            Own == Occurrences(x, p)
<1>1. IsFiniteSet(packs \ {p})
  BY FS_RemoveElement
<1>2. IsFiniteSet(Rest) /\ IsFiniteSet(Own) /\ Copies(x, packs) \in Nat /\ Copies(x, packs \ {p}) \in Nat
  <2>1. IsFiniteSet(Rest) /\ Copies(x, packs \ {p}) \in Nat
    <3>1. \A q \in packs \ {p} : plan[q].blobs \in Seq(Blob)
      OBVIOUS
    <3>. QED  BY <1>1, <3>1, CopiesFinite
  <2>2. Copies(x, packs) \in Nat
    BY CopiesFinite
  <2>3. IsFiniteSet(Own)
    BY OccurrencesFinite
  <2>. QED  BY <2>1, <2>2, <2>3
<1>3. UNION {Occurrences(x, q) : q \in packs} = Rest \cup Own
  OBVIOUS
<1>4. Rest \cap Own = {}
  BY DEF Occurrences
<1>5. Cardinality(Rest \cup Own) = Cardinality(Rest) + Cardinality(Own) - Cardinality({})
  <2>. HIDE DEF Rest, Own
  <2>. QED  BY <1>2, <1>4, FS_Union
<1>6. Cardinality({}) = 0 /\ Cardinality(Rest) \in Nat
  BY <1>2, FS_EmptySet, FS_CardinalityType
<1>7. Cardinality(Own) = Times(x, plan[p].blobs) /\ Times(x, plan[p].blobs) \in Nat
  BY OccurrencesFinite
<1>8. Copies(x, packs) = Cardinality(Rest \cup Own) /\ Copies(x, packs \ {p}) = Cardinality(Rest)
  BY <1>3 DEF Copies
<1>. HIDE DEF Rest, Own
<1>. QED  BY <1>2, <1>5, <1>6, <1>7, <1>8

LEMMA CopiesOfNone == \A x : Copies(x, {}) = 0
  BY FS_EmptySet DEF Copies

-----------------------------------------------------------------------------
(***************************************************************************)
(* The invariant of the planning half                                      *)
(***************************************************************************)
SectionNameOf(p) == IF p \in Normal THEN "packs" ELSE "packs_to_delete"
FirstEntry(p) == FirstOf(Section(SectionNameOf(p)), p)
PackFrom(p, todo) ==
    [file |-> FirstEntry(p).file, pos |-> FirstEntry(p).pos, mark |-> p \notin Normal,
     time |-> FirstEntry(p).entry.time, blobs |-> FirstEntry(p).entry.blobs, todo |-> todo]

DirtyFiles ==
    {i \in DOMAIN in.files :
        \/ Duplicates(Section("packs"), i)
        \/ Duplicates(Section("packs_to_delete"), i)
        \/ \E k \in DOMAIN in.files[i].packs_to_delete : in.files[i].packs_to_delete[k].id \in Normal}

\* Each pack is as its first entry tells, only its to-do changes.
FromIndex ==
    /\ plan = [p \in Normal \cup Marked |-> PackFrom(p, plan[p].todo)]
    /\ dirty = DirtyFiles

Candidates == {c.id : c \in cand \cup resize}

\* Why a marked pack is recovered: an unmarked one with this blob would have been
\* counted as well, unless there are too many to count.
MissingElsewhere(x) == x \notin BlobsOf(Normal) \/ Copies(x, DOMAIN plan) > MaxCount

UsedIn(p) == ToSet(plan[p].blobs) \cap in.used

PackOK(p) ==
    /\ plan[p].todo \in IF plan[p].mark
                        THEN {"Undecided", "KeepMarked", "KeepMarkedAndCorrect", "Recover", "Delete"}
                        ELSE {"Undecided", "Keep", "Repack", "MarkDelete"}
    /\ plan[p].todo = "Undecided" <=> p \in undecided \cup Candidates
    /\ plan[p].todo = "Delete" => Older(plan[p].time, in.opts.keep_delete)
    /\ plan[p].todo \in {"KeepMarked", "KeepMarkedAndCorrect"} => ~Older(plan[p].time, in.opts.keep_delete)
    /\ plan[p].todo = "Recover" => \E x \in UsedIn(p) : MissingElsewhere(x)
    /\ plan[p].todo = "Repack" \/ p \in Candidates =>
          UsedIn(p) # {} /\ ~TooYoung(p) /\ ~KeepUncacheable(p)
    /\ plan[p].todo = "MarkDelete" => ~TooYoung(p)

\* Of each pack there is one candidate, and it is not marked.
CandidatesOK ==
    /\ \A c \in cand \cup resize : c.id \in DOMAIN plan \ undecided /\ ~plan[c.id].mark
    /\ \A c, d \in cand \cup resize : c.id = d.id => c = d
    /\ cand \cap resize = {}

\* Blob x is in a pack that stays, comes back, is copied or may yet be.
Served(x) ==
    \E p \in DOMAIN plan \ undecided :
        x \in ToSet(plan[p].blobs) /\ (p \in Candidates \/ plan[p].todo \in {"Keep", "Recover", "Repack"})

\* A counter is 0 if its blob has been served.  Otherwise it counts at most the places
\* in packs that are still to be decided on, and exactly these if it has not saturated.
CounterOK(x) ==
    IF count[x] = 0 THEN Served(x)
    ELSE /\ count[x] <= Copies(x, undecided)
         /\ Copies(x, DOMAIN plan) <= MaxCount => count[x] = Copies(x, undecided)

\* As long as there are marked packs to decide on, there are all the others.
MarkedFirst == (\E p \in undecided : plan[p].mark) => Normal \subseteq undecided

Deciding ==
    /\ count \in [in.used -> Nat]
    /\ \A x \in in.used : CounterOK(x)
    /\ MarkedFirst

PlanInv ==
    /\ Found
    /\ pc \in {"new", "count", "error", "decide", "panic", "repack", "check", "filter", "planned"}
    /\ undecided \subseteq DOMAIN plan
    /\ CandidatesOK
    /\ IF pc = "new" THEN plan = <<>> ELSE FromIndex
    /\ \A p \in DOMAIN plan : PackOK(p)
    /\ pc \in {"new", "count"} => cand = {} /\ resize = {} /\ undecided = DOMAIN plan
    /\ pc \notin {"new", "count", "error"} => in.used \subseteq BlobsOf(DOMAIN plan)
    /\ pc = "decide" => Deciding
    /\ pc \in {"panic", "repack", "check", "filter", "planned"} =>
          undecided = {} /\ \A x \in in.used : Served(x)
    /\ pc \in {"check", "filter", "planned"} => cand = {} /\ resize = {}
    /\ pc \in {"filter", "planned"} =>
          /\ keepIds = in.used \ BlobsOf(WithTodo({"Keep", "Recover"}))
          /\ unref \subseteq in.stored \ DOMAIN plan
    /\ pc = "planned" => /\ rebuild \subseteq DOMAIN in.files
                         /\ \A i \in DOMAIN in.files \ rebuild : ~MustModify(i)

(***************************************************************************)
(* What the plan tells                                                     *)
(***************************************************************************)
LEMMA PackFields ==
  ASSUME NEW p, NEW d, NEW e
  PROVE  /\ PackFrom(p, d).todo = d /\ PackFrom(p, d).mark = (p \notin Normal)
         /\ [PackFrom(p, d) EXCEPT !.todo = e] = PackFrom(p, e)
  BY DEF PackFrom

LEMMA PlanFacts ==
  ASSUME Found, FromIndex, NEW p \in DOMAIN plan
  PROVE  /\ DOMAIN plan = Normal \cup Marked
         /\ plan[p] = PackFrom(p, plan[p].todo)
         /\ plan[p].mark = (p \notin Normal) /\ plan[p].mark \in BOOLEAN /\ (plan[p].mark <=> p \in Marked)
         /\ SectionNameOf(p) \in SectionName
         /\ FirstEntry(p) \in Listings(Section(SectionNameOf(p)), p)
         /\ \A f \in Listings(Section(SectionNameOf(p)), p) : ~ReadBefore(f, FirstEntry(p))
         /\ plan[p].file = FirstEntry(p).file /\ plan[p].pos = FirstEntry(p).pos
         /\ plan[p].time = FirstEntry(p).entry.time /\ plan[p].blobs = FirstEntry(p).entry.blobs
         /\ plan[p].file \in DOMAIN in.files /\ plan[p].file \in Nat /\ plan[p].pos \in Nat
         /\ plan[p].time \in Nat \cup {NoTime} /\ plan[p].blobs \in Seq(Blob)
<1>1. DOMAIN plan = Normal \cup Marked /\ plan[p] = PackFrom(p, plan[p].todo)
  BY DEF FromIndex
<1>2. SectionNameOf(p) \in SectionName /\ p \in IdsOf(Section(SectionNameOf(p)))
  BY <1>1 DEF SectionNameOf, SectionName, Normal, Marked
<1>3. /\ FirstEntry(p) \in Listings(Section(SectionNameOf(p)), p)
      /\ \A f \in Listings(Section(SectionNameOf(p)), p) : ~ReadBefore(f, FirstEntry(p))
  BY <1>2, FirstExists DEF FirstEntry
<1>4. /\ plan[p].file = FirstEntry(p).file /\ plan[p].pos = FirstEntry(p).pos
      /\ plan[p].time = FirstEntry(p).entry.time /\ plan[p].blobs = FirstEntry(p).entry.blobs
      /\ plan[p].mark = (p \notin Normal)
  BY <1>1 DEF PackFrom
<1>5. FirstEntry(p) \in Section(SectionNameOf(p))
  BY <1>3 DEF Listings
<1>6. /\ FirstEntry(p).file \in DOMAIN in.files /\ FirstEntry(p).file \in Nat /\ FirstEntry(p).pos \in Nat
      /\ EntryOK(FirstEntry(p).entry)
  BY <1>2, <1>5, SectionFacts
<1>7. p \notin Normal <=> p \in Marked
  BY <1>1 DEF Marked
<1>. QED  BY <1>1, <1>2, <1>3, <1>4, <1>6, <1>7 DEF EntryOK

LEMMA PlanFinite ==
  ASSUME Found, FromIndex
  PROVE  IsFiniteSet(DOMAIN plan)
<1>1. DOMAIN plan = Normal \cup Marked
  BY DEF FromIndex
<1>2. IsFiniteSet(IdsOf(Section("packs"))) /\ IsFiniteSet(IdsOf(Section("packs_to_delete")))
  BY SectionFinite DEF SectionName
<1>3. DOMAIN plan = IdsOf(Section("packs")) \cup IdsOf(Section("packs_to_delete"))
  BY <1>1 DEF Normal, Marked
<1>. QED  BY <1>2, <1>3, FS_Union

\* A step that changes nothing but to-dos.
OnlyTodos ==
    /\ in' = in /\ dirty' = dirty
    /\ DOMAIN plan' = DOMAIN plan
    /\ \A p \in DOMAIN plan : plan'[p] = [plan[p] EXCEPT !.todo = plan'[p].todo]

LEMMA SameInput ==
  ASSUME in' = in
  PROVE  /\ Normal' = Normal /\ Marked' = Marked /\ Found' = Found
         /\ \A p, d : PackFrom(p, d)' = PackFrom(p, d)
  BY DEF Normal, Marked, Found, PackFrom, FirstEntry, SectionNameOf, FirstOf, Listings, Section

LEMMA OnlyTodosFacts ==
  ASSUME Found, FromIndex, OnlyTodos, plan' = [p \in DOMAIN plan' |-> plan'[p]]
  PROVE  /\ Found' /\ FromIndex' /\ Normal' = Normal /\ Marked' = Marked
         /\ \A p \in DOMAIN plan : /\ plan'[p].blobs = plan[p].blobs /\ plan'[p].mark = plan[p].mark
                                    /\ plan'[p].time = plan[p].time /\ plan'[p].file = plan[p].file
                                    /\ TooYoung(p)' = TooYoung(p) /\ UsedIn(p)' = UsedIn(p)
                                    /\ KeepUncacheable(p)' = KeepUncacheable(p)
                                    /\ \A x : Occurrences(x, p)' = Occurrences(x, p)
         /\ \A S \in SUBSET DOMAIN plan : /\ BlobsOf(S)' = BlobsOf(S)
                                           /\ \A x : Copies(x, S)' = Copies(x, S)
         /\ \A x : MissingElsewhere(x)' = MissingElsewhere(x)
<1>1. Found' /\ Normal' = Normal /\ Marked' = Marked /\ (\A p, d : PackFrom(p, d)' = PackFrom(p, d))
  BY SameInput DEF OnlyTodos
<1>2. \A p \in DOMAIN plan : plan[p] = PackFrom(p, plan[p].todo)
  BY DEF FromIndex
<1>3. ASSUME NEW p \in DOMAIN plan
      PROVE  /\ plan'[p].blobs = plan[p].blobs /\ plan'[p].mark = plan[p].mark
             /\ plan'[p].time = plan[p].time /\ plan'[p].file = plan[p].file
             /\ plan'[p] = PackFrom(p, plan'[p].todo)
  <2>1. plan'[p] = [plan[p] EXCEPT !.todo = plan'[p].todo]
    BY DEF OnlyTodos
  <2>. QED  BY <1>2, <2>1 DEF PackFrom
<1>4. dirty' = DirtyFiles'
  BY <1>1 DEF OnlyTodos, FromIndex, DirtyFiles, Duplicates, Listings, Section
<1>5. FromIndex'
  <2>1. DOMAIN plan' = Normal \cup Marked
    BY DEF OnlyTodos, FromIndex
  <2>2. plan' = [p \in Normal \cup Marked |-> PackFrom(p, plan'[p].todo)]
    BY <1>3, <2>1 DEF OnlyTodos
  <2>. QED  BY <1>1, <1>4, <2>2 DEF FromIndex
<1>6. ASSUME NEW p \in DOMAIN plan
      PROVE  /\ TooYoung(p)' = TooYoung(p) /\ UsedIn(p)' = UsedIn(p)
             /\ KeepUncacheable(p)' = KeepUncacheable(p)
             /\ \A x : Occurrences(x, p)' = Occurrences(x, p)
  BY <1>3 DEF OnlyTodos, TooYoung, UsedIn, KeepUncacheable, Occurrences
<1>7. ASSUME NEW S \in SUBSET DOMAIN plan
      PROVE  BlobsOf(S)' = BlobsOf(S) /\ \A x : Copies(x, S)' = Copies(x, S)
  <2>1. \A x : {Occurrences(x, p)' : p \in S} = {Occurrences(x, p) : p \in S}
    BY <1>6
  <2>2. {ToSet(plan'[p].blobs) : p \in S} = {ToSet(plan[p].blobs) : p \in S}
    BY <1>3
  <2>. QED  BY <2>1, <2>2 DEF BlobsOf, Copies
<1>8. ASSUME NEW x  PROVE MissingElsewhere(x)' = MissingElsewhere(x)
  <2>1. Normal \subseteq DOMAIN plan /\ DOMAIN plan' = DOMAIN plan
    BY DEF FromIndex, OnlyTodos
  <2>2. BlobsOf(Normal)' = BlobsOf(Normal)
    BY <1>1, <1>7, <2>1
  <2>3. Copies(x, DOMAIN plan)' = Copies(x, DOMAIN plan)
    BY <1>7, <2>1
  <2>. QED  BY <2>2, <2>3 DEF MissingElsewhere
<1>. QED  BY <1>1, <1>3, <1>5, <1>6, <1>7, <1>8

\* A blob that is in no pack has no place.
LEMMA NoCopies ==
  ASSUME NEW packs, NEW x, Copies(x, packs) # 0
  PROVE  x \in BlobsOf(packs)
<1>. SUFFICES ASSUME x \notin BlobsOf(packs)  PROVE FALSE
  OBVIOUS
<1>1. \A p \in packs : Occurrences(x, p) = {}
  BY DEF BlobsOf, ToSet, Occurrences
<1>2. UNION {Occurrences(x, p) : p \in packs} = {}
  BY <1>1
<1>. QED  BY <1>2, FS_EmptySet DEF Copies

\* PackOK after a step that changes nothing but to-dos
LEMMA PackOKNext ==
  ASSUME Found, FromIndex, OnlyTodos, plan' = [p \in DOMAIN plan' |-> plan'[p]], NEW p \in DOMAIN plan,
         /\ plan'[p].todo \in IF plan[p].mark
                              THEN {"Undecided", "KeepMarked", "KeepMarkedAndCorrect", "Recover", "Delete"}
                              ELSE {"Undecided", "Keep", "Repack", "MarkDelete"}
         /\ plan'[p].todo = "Undecided" <=> p \in undecided' \cup Candidates'
         /\ plan'[p].todo = "Delete" => Older(plan[p].time, in.opts.keep_delete)
         /\ plan'[p].todo \in {"KeepMarked", "KeepMarkedAndCorrect"} => ~Older(plan[p].time, in.opts.keep_delete)
         /\ plan'[p].todo = "Recover" => \E x \in UsedIn(p) : MissingElsewhere(x)
         /\ plan'[p].todo = "Repack" \/ p \in Candidates' =>
               UsedIn(p) # {} /\ ~TooYoung(p) /\ ~KeepUncacheable(p)
         /\ plan'[p].todo = "MarkDelete" => ~TooYoung(p)
  PROVE  PackOK(p)'
<1>1. /\ plan'[p].mark = plan[p].mark /\ plan'[p].time = plan[p].time
      /\ TooYoung(p)' = TooYoung(p) /\ UsedIn(p)' = UsedIn(p) /\ KeepUncacheable(p)' = KeepUncacheable(p)
  BY OnlyTodosFacts
<1>2. \A x : MissingElsewhere(x)' = MissingElsewhere(x)
  BY OnlyTodosFacts
<1>3. in' = in
  BY DEF OnlyTodos
<1>4. plan'[p].todo = "Recover" => (\E x \in UsedIn(p) : MissingElsewhere(x))'
  BY <1>1, <1>2
<1>5. Older(plan[p].time, in.opts.keep_delete)' = Older(plan[p].time, in.opts.keep_delete)
  BY <1>1, <1>3 DEF Older
<1>. QED  BY <1>1, <1>4, <1>5 DEF PackOK

\* ... in particular if nothing has changed for this pack
LEMMA PackOKSame ==
  ASSUME Found, FromIndex, OnlyTodos, plan' = [p \in DOMAIN plan' |-> plan'[p]], NEW p \in DOMAIN plan,
         PackOK(p), plan'[p].todo = plan[p].todo,
         p \in undecided' \cup Candidates' <=> p \in undecided \cup Candidates,
         p \in Candidates' => p \in Candidates
  PROVE  PackOK(p)'
  BY PackOKNext DEF PackOK

LEMMA SamePlan ==
  ASSUME Found, FromIndex, in' = in, plan' = plan, dirty' = dirty
  PROVE  OnlyTodos /\ plan' = [p \in DOMAIN plan' |-> plan'[p]]
<1>1. \A p \in DOMAIN plan : plan[p] = [plan[p] EXCEPT !.todo = plan[p].todo]
  BY PlanFacts, PackFields
<1>. QED  BY <1>1 DEF OnlyTodos, FromIndex

LEMMA OneTodo ==
  ASSUME Found, FromIndex, in' = in, dirty' = dirty, NEW p \in DOMAIN plan, NEW d,
         plan' = [plan EXCEPT ![p].todo = d]
  PROVE  /\ OnlyTodos /\ plan' = [q \in DOMAIN plan' |-> plan'[q]]
         /\ plan'[p].todo = d /\ \A q \in DOMAIN plan : q # p => plan'[q] = plan[q]
<1>1. plan' = [q \in DOMAIN plan |-> IF q = p THEN [plan[p] EXCEPT !.todo = d] ELSE plan[q]]
  OBVIOUS
<1>2. [plan[p] EXCEPT !.todo = d] = PackFrom(p, d)
  BY PlanFacts, PackFields
<1>3. plan'[p].todo = d /\ plan'[p] = [plan[p] EXCEPT !.todo = plan'[p].todo]
  BY <1>1, <1>2, PackFields
<1>4. \A q \in DOMAIN plan : q # p => plan'[q] = [plan[q] EXCEPT !.todo = plan'[q].todo]
  BY <1>1, PlanFacts, PackFields
<1>. QED  BY <1>1, <1>3, <1>4 DEF OnlyTodos

-----------------------------------------------------------------------------
(***************************************************************************)
(* The phases keep the invariant                                           *)
(***************************************************************************)
LEMMA PlanInit == Init => PlanInv
<1>. SUFFICES ASSUME Init  PROVE PlanInv
  OBVIOUS
<1>1. Found
  BY DEF Init, Found
<1>2. plan = <<>> /\ DOMAIN plan = {} /\ undecided = {} /\ cand = {} /\ resize = {} /\ pc = "new"
  BY DEF Init
<1>. QED  BY <1>1, <1>2 DEF PlanInv, CandidatesOK

LEMMA NewStep == PlanInv /\ New => PlanInv'
<1>. SUFFICES ASSUME PlanInv, New  PROVE PlanInv'
  OBVIOUS
<1>1. Found /\ Found' /\ in' = in /\ Normal' = Normal /\ Marked' = Marked /\ cand = {} /\ resize = {}
      /\ cand' = {} /\ resize' = {} /\ undecided' = DOMAIN plan' /\ pc' = "count"
  BY SameInput DEF PlanInv, New
<1>2. DOMAIN plan' = Normal \cup Marked
  BY DEF New
<1>3. \A p \in Normal \cup Marked : plan'[p] = PackFrom(p, "Undecided")
  <2>1. ASSUME NEW p \in Normal  PROVE plan'[p] = PackFrom(p, "Undecided")
    <3>1. plan'[p] = PrunePackOf(Section("packs"), p, FALSE)
      BY DEF New
    <3>2. SectionNameOf(p) = "packs" /\ (p \notin Normal) = FALSE
      BY DEF SectionNameOf
    <3>. QED  BY <3>1, <3>2 DEF PrunePackOf, PackFrom, FirstEntry
  <2>2. ASSUME NEW p \in Marked  PROVE plan'[p] = PackFrom(p, "Undecided")
    <3>1. p \notin Normal
      BY DEF Marked
    <3>2. plan'[p] = PrunePackOf(Section("packs_to_delete"), p, TRUE)
      BY <3>1 DEF New
    <3>3. SectionNameOf(p) = "packs_to_delete" /\ (p \notin Normal) = TRUE
      BY <3>1 DEF SectionNameOf
    <3>. QED  BY <3>2, <3>3 DEF PrunePackOf, PackFrom, FirstEntry
  <2>. QED  BY <2>1, <2>2
<1>4. \A p, d : PackFrom(p, d)' = PackFrom(p, d)
  BY <1>1, SameInput
<1>5. \A p \in DOMAIN plan' : plan'[p].todo = "Undecided" /\ plan'[p].mark = (p \notin Normal)
  BY <1>2, <1>3, PackFields
<1>6. FromIndex'
  <2>1. plan' = [p \in Normal \cup Marked |-> PackFrom(p, plan'[p].todo)]
    <3>1. plan' = [p \in Normal \cup Marked |-> plan'[p]]
      BY <1>2 DEF New
    <3>. QED  BY <1>2, <1>3, <1>5, <3>1
  <2>2. dirty' = DirtyFiles
    BY DEF New, DirtyFiles
  <2>3. DirtyFiles' = DirtyFiles
    BY <1>1 DEF DirtyFiles, Duplicates, Listings, Section
  <2>. QED  BY <1>1, <1>4, <2>1, <2>2, <2>3 DEF FromIndex
<1>7. Candidates' = {}
  BY <1>1 DEF Candidates
<1>8. \A p \in DOMAIN plan' : PackOK(p)'
  BY <1>1, <1>5, <1>7 DEF PackOK
<1>. QED  BY <1>1, <1>6, <1>8 DEF PlanInv, CandidatesOK

\* All counters are 0, or their blobs are found: then none is above its places.
LEMMA CountStep == PlanInv /\ CountUsed => PlanInv'
<1>. SUFFICES ASSUME PlanInv, CountUsed  PROVE PlanInv'
  OBVIOUS
<1>1. /\ Found /\ FromIndex /\ in' = in /\ plan' = plan /\ dirty' = dirty /\ undecided' = undecided
      /\ cand = {} /\ resize = {} /\ cand' = {} /\ resize' = {} /\ undecided = DOMAIN plan
      /\ pc' \in {"error", "decide"} /\ count' = Counters
      /\ pc' = "decide" => \A x \in in.used : count'[x] # 0
  BY DEF PlanInv, CountUsed
<1>2. OnlyTodos /\ plan' = [p \in DOMAIN plan' |-> plan'[p]]
  BY <1>1, SamePlan
<1>3. Found' /\ FromIndex' /\ Normal' = Normal
  BY <1>1, <1>2, OnlyTodosFacts
<1>4. Candidates' = Candidates
  BY <1>1 DEF Candidates
<1>5. \A p \in DOMAIN plan' : PackOK(p)'
  BY <1>1, <1>2, <1>4, PackOKSame DEF PlanInv
<1>6. \A x \in in.used : /\ Copies(x, DOMAIN plan) \in Nat
                          /\ count'[x] = Saturated(Copies(x, DOMAIN plan))
  <2>1. IsFiniteSet(DOMAIN plan) /\ \A p \in DOMAIN plan : plan[p].blobs \in Seq(Blob)
    BY <1>1, PlanFinite, PlanFacts
  <2>2. \A x : Copies(x, DOMAIN plan) \in Nat
    BY <2>1, CopiesFinite
  <2>. QED  BY <1>1, <2>2 DEF Counters
<1>7. \A S \in SUBSET DOMAIN plan : BlobsOf(S)' = BlobsOf(S) /\ \A x : Copies(x, S)' = Copies(x, S)
  BY <1>1, <1>2, OnlyTodosFacts
<1>8. ASSUME pc' = "decide"  PROVE (in.used \subseteq BlobsOf(DOMAIN plan))' /\ Deciding'
  <2>1. ASSUME NEW x \in in.used
        PROVE  /\ x \in BlobsOf(DOMAIN plan) /\ count'[x] \in Nat /\ count'[x] # 0
               /\ count'[x] <= Copies(x, DOMAIN plan)
               /\ Copies(x, DOMAIN plan) <= MaxCount => count'[x] = Copies(x, DOMAIN plan)
    <3>1. Copies(x, DOMAIN plan) # 0 /\ count'[x] # 0
      BY <1>1, <1>6, <1>8, PlanAssumption DEF Saturated
    <3>2. x \in BlobsOf(DOMAIN plan)
      BY <3>1, NoCopies
    <3>. QED  BY <1>6, <3>1, <3>2, PlanAssumption DEF Saturated
  <2>2. (in.used \subseteq BlobsOf(DOMAIN plan))'
    BY <1>1, <1>7, <2>1
  <2>3. count' \in [in.used -> Nat]
    BY <1>1, <2>1 DEF Counters
  <2>4. \A x \in in.used : CounterOK(x)'
    <3>. TAKE x \in in.used
    <3>1. Copies(x, DOMAIN plan)' = Copies(x, DOMAIN plan) /\ Copies(x, undecided)' = Copies(x, DOMAIN plan)
      BY <1>1, <1>7
    <3>. QED  BY <2>1, <3>1 DEF CounterOK
  <2>5. MarkedFirst'
    <3>1. Normal \subseteq DOMAIN plan
      BY <1>1 DEF FromIndex
    <3>. QED  BY <1>1, <1>3, <3>1 DEF MarkedFirst
  <2>. QED  BY <1>1, <2>2, <2>3, <2>4, <2>5 DEF Deciding
<1>. QED  BY <1>1, <1>3, <1>5, <1>8 DEF PlanInv, CandidatesOK

\* What is decided about a pack
LEMMA DecisionFacts ==
  ASSUME Found, FromIndex, NEW p \in DOMAIN plan
  PROVE  LET d == Decision(p)
         IN /\ plan[p].mark =>
                  /\ d \in {"Recover", "KeepMarkedAndCorrect", "Delete", "KeepMarked"}
                  /\ d = "Delete" => Older(plan[p].time, in.opts.keep_delete)
                  /\ d \in {"KeepMarked", "KeepMarkedAndCorrect"} => ~Older(plan[p].time, in.opts.keep_delete)
                  /\ d = "Recover" <=> ServedBy(plan[p].blobs) # {}
            /\ ~plan[p].mark =>
                  /\ d \in Reasons \cup {"Keep", "MarkDelete"}
                  /\ d = "MarkDelete" => ~TooYoung(p) /\ ServedBy(plan[p].blobs) = {}
                  /\ d \in Reasons => ServedBy(plan[p].blobs) # {} /\ ~TooYoung(p) /\ ~KeepUncacheable(p)
<1>1. plan[p].mark \in BOOLEAN
  BY PlanFacts
<1>2. CASE plan[p].mark
  BY <1>2 DEF Decision, DecideMarked, Older
<1>3. CASE ~plan[p].mark
  BY <1>3 DEF Decision, DecideNormal, Reasons
<1>. QED  BY <1>1, <1>2, <1>3

\* A marked pack is needed only if an unmarked one with the same blob was not counted.
LEMMA NeededMarked ==
  ASSUME Found, FromIndex, undecided \subseteq DOMAIN plan, Deciding, NEW p \in undecided, plan[p].mark,
         NeededFor(plan[p].blobs)
  PROVE  \E x \in UsedIn(p) : MissingElsewhere(x)
<1>1. PICK x \in ToSet(plan[p].blobs) \cap in.used : count[x] > 0 /\ Times(x, plan[p].blobs) >= count[x]
  BY DEF NeededFor
<1>2. SUFFICES ASSUME x \in BlobsOf(Normal), Copies(x, DOMAIN plan) <= MaxCount  PROVE FALSE
  <2>1. IsFiniteSet(DOMAIN plan) /\ \A q \in DOMAIN plan : plan[q].blobs \in Seq(Blob)
    BY PlanFinite, PlanFacts
  <2>2. Copies(x, DOMAIN plan) \in Nat /\ MaxCount \in Nat
    BY <2>1, CopiesFinite, PlanAssumption
  <2>. QED  BY <1>1, <2>2 DEF UsedIn, MissingElsewhere
<1>3. count[x] = Copies(x, undecided)
  BY <1>1, <1>2 DEF Deciding, CounterOK
<1>4. PICK q \in Normal : x \in ToSet(plan[q].blobs)
  BY <1>2 DEF BlobsOf
<1>5. q \in undecided \ {p}
  <2>1. q \in undecided
    BY DEF Deciding, MarkedFirst
  <2>2. p \notin Normal
    BY PlanFacts
  <2>. QED  BY <2>1, <2>2
<1>6. IsFiniteSet(undecided) /\ \A r \in undecided : plan[r].blobs \in Seq(Blob)
  BY PlanFinite, PlanFacts, FS_Subset
<1>7. /\ Copies(x, undecided) = Copies(x, undecided \ {p}) + Times(x, plan[p].blobs)
      /\ Times(x, plan[p].blobs) \in Nat
  BY <1>6, CopiesRemove
<1>8. /\ Copies(x, undecided \ {p}) = Copies(x, (undecided \ {p}) \ {q}) + Times(x, plan[q].blobs)
      /\ Copies(x, (undecided \ {p}) \ {q}) \in Nat /\ Times(x, plan[q].blobs) \in Nat
  <2>1. IsFiniteSet(undecided \ {p})
    BY <1>6, FS_RemoveElement
  <2>. DEFINE rest == undecided \ {p}
  <2>2. IsFiniteSet(rest) /\ q \in rest /\ \A r \in rest : plan[r].blobs \in Seq(Blob)
    BY <1>5, <1>6, <2>1
  <2>. HIDE DEF rest
  <2>3. /\ Copies(x, rest) = Copies(x, rest \ {q}) + Times(x, plan[q].blobs)
        /\ Copies(x, rest \ {q}) \in Nat /\ Times(x, plan[q].blobs) \in Nat
    BY <2>2, CopiesRemove
  <2>. QED  BY <2>3 DEF rest
<1>9. Times(x, plan[q].blobs) # 0
  BY <1>4, <1>5, <1>6, OccurrencesFinite
<1>. QED  BY <1>1, <1>3, <1>7, <1>8, <1>9

\* One more pack is decided on: it stays, goes or becomes a candidate.
LEMMA DecideStep == PlanInv /\ DecidePack => PlanInv'
<1>. SUFFICES ASSUME PlanInv, DecidePack  PROVE PlanInv'
  OBVIOUS
<1>. DEFINE d(p) == Decision(p)
            needed(p) == ServedBy(plan[p].blobs) # {}
<1>1. PICK p \in undecided :
         /\ \A q \in undecided \ {p} : DecidedBefore(p, q)
         /\ \/ /\ d(p) \in Reasons /\ UNCHANGED plan
               /\ \E c : c.id = p /\ cand' = cand \cup {c}
            \/ /\ d(p) \notin Reasons /\ UNCHANGED cand
               /\ plan' = [plan EXCEPT ![p].todo = d(p)]
         /\ count' = CountAfter(plan[p].blobs)
         /\ undecided' = undecided \ {p}
  <2>1. PICK p \in undecided :
           /\ \A q \in undecided \ {p} : DecidedBefore(p, q)
           /\ \/ /\ d(p) \in Reasons /\ UNCHANGED plan
                 /\ cand' = cand \cup {[id |-> p, reason |-> d(p), type |-> TypeOf(plan[p].blobs),
                                       used |-> UsedSize(plan[p].blobs),
                                       unused |-> SizeOf(plan[p].blobs) - UsedSize(plan[p].blobs)]}
              \/ /\ d(p) \notin Reasons /\ UNCHANGED cand
                 /\ plan' = [plan EXCEPT ![p].todo = d(p)]
           /\ count' = CountAfter(plan[p].blobs)
           /\ undecided' = undecided \ {p}
    BY DEF DecidePack
  <2>2. d(p) \in Reasons => \E c : c.id = p /\ cand' = cand \cup {c}
    BY <2>1
  <2>. QED  BY <2>1, <2>2
<1>2. /\ Found /\ FromIndex /\ in' = in /\ dirty' = dirty /\ resize' = resize /\ pc = "decide" /\ pc' = "decide"
      /\ undecided \subseteq DOMAIN plan /\ p \in DOMAIN plan /\ CandidatesOK /\ Deciding
      /\ in.used \subseteq BlobsOf(DOMAIN plan) /\ \A q \in DOMAIN plan : PackOK(q)
  BY DEF PlanInv, DecidePack
<1>3. p \notin Candidates
  BY <1>2 DEF CandidatesOK, Candidates
<1>4. /\ OnlyTodos /\ plan' = [q \in DOMAIN plan' |-> plan'[q]] /\ DOMAIN plan' = DOMAIN plan
      /\ \A q \in DOMAIN plan : q # p => plan'[q].todo = plan[q].todo
      /\ d(p) \in Reasons => plan'[p].todo = "Undecided" /\ Candidates' = Candidates \cup {p}
      /\ d(p) \notin Reasons => plan'[p].todo = d(p) /\ Candidates' = Candidates
  <2>1. CASE d(p) \in Reasons
    <3>1. plan' = plan /\ \E c : c.id = p /\ cand' = cand \cup {c}
      BY <1>1, <2>1
    <3>2. Candidates' = Candidates \cup {p}
      BY <1>2, <3>1 DEF Candidates
    <3>3. plan[p].todo = "Undecided"
      BY <1>1, <1>2 DEF PackOK
    <3>4. OnlyTodos /\ plan' = [q \in DOMAIN plan' |-> plan'[q]]
      BY <1>2, <3>1, SamePlan
    <3>. QED  BY <2>1, <3>1, <3>2, <3>3, <3>4
  <2>2. CASE d(p) \notin Reasons
    <3>1. cand' = cand /\ plan' = [plan EXCEPT ![p].todo = d(p)]
      BY <1>1, <2>2
    <3>2. Candidates' = Candidates
      BY <1>2, <3>1 DEF Candidates
    <3>3. /\ OnlyTodos /\ plan' = [q \in DOMAIN plan' |-> plan'[q]]
          /\ plan'[p].todo = d(p) /\ \A q \in DOMAIN plan : q # p => plan'[q] = plan[q]
      <4>. HIDE DEF d
      <4>. QED  BY <1>2, <3>1, OneTodo
    <3>4. DOMAIN plan' = DOMAIN plan
      BY <3>3 DEF OnlyTodos
    <3>. QED  BY <2>2, <3>2, <3>3, <3>4
  <2>. QED  BY <2>1, <2>2
<1>5. /\ Found' /\ FromIndex' /\ Normal' = Normal
      /\ \A q \in DOMAIN plan : plan'[q].blobs = plan[q].blobs /\ plan'[q].mark = plan[q].mark
      /\ \A S \in SUBSET DOMAIN plan : BlobsOf(S)' = BlobsOf(S) /\ \A x : Copies(x, S)' = Copies(x, S)
  BY <1>2, <1>4, OnlyTodosFacts
<1>6. /\ plan[p].mark \in BOOLEAN
      /\ plan[p].mark =>
           /\ d(p) \in {"Recover", "KeepMarkedAndCorrect", "Delete", "KeepMarked"}
           /\ d(p) = "Delete" => Older(plan[p].time, in.opts.keep_delete)
           /\ d(p) \in {"KeepMarked", "KeepMarkedAndCorrect"} => ~Older(plan[p].time, in.opts.keep_delete)
           /\ d(p) = "Recover" <=> needed(p)
      /\ ~plan[p].mark =>
           /\ d(p) \in Reasons \cup {"Keep", "MarkDelete"}
           /\ d(p) = "MarkDelete" => ~TooYoung(p) /\ ~needed(p)
           /\ d(p) \in Reasons => needed(p) /\ ~TooYoung(p) /\ ~KeepUncacheable(p)
  BY <1>2, PlanFacts, DecisionFacts
<1>7. needed(p) => /\ UsedIn(p) # {}
                   /\ plan[p].mark => \E x \in UsedIn(p) : MissingElsewhere(x)
  BY <1>2, NeededMarked DEF ServedBy, UsedIn
<1>8. Reasons \cap {"Undecided", "KeepMarked", "KeepMarkedAndCorrect", "Recover", "Delete", "Keep", "Repack",
                    "MarkDelete"} = {}
  BY DEF Reasons
<1>. HIDE DEF d
<1>9. \A q \in DOMAIN plan : PackOK(q)'
  <2>1. ASSUME NEW q \in DOMAIN plan, q # p  PROVE PackOK(q)'
    <3>1. q \in undecided' \cup Candidates' <=> q \in undecided \cup Candidates
      BY <1>1, <1>4, <2>1
    <3>2. q \in Candidates' => q \in Candidates
      BY <1>4, <2>1
    <3>. QED  BY <1>2, <1>4, <2>1, <3>1, <3>2, PackOKSame
  <2>2. PackOK(p)'
    <3>1. CASE d(p) \in Reasons
      <4>1. ~plan[p].mark /\ needed(p) /\ plan'[p].todo = "Undecided"
        BY <1>4, <1>6, <1>8, <3>1
      <4>2. p \in Candidates' /\ UsedIn(p) # {} /\ ~TooYoung(p) /\ ~KeepUncacheable(p)
        BY <1>4, <1>6, <1>7, <3>1, <4>1
      <4>. QED  BY <1>2, <1>4, <4>1, <4>2, PackOKNext
    <3>2. CASE d(p) \notin Reasons
      <4>1. p \notin undecided' \cup Candidates' /\ plan'[p].todo = d(p)
        BY <1>1, <1>3, <1>4, <3>2
      <4>2. CASE plan[p].mark
        <5>1. /\ d(p) \in {"Recover", "KeepMarkedAndCorrect", "Delete", "KeepMarked"}
              /\ d(p) = "Recover" => \E x \in UsedIn(p) : MissingElsewhere(x)
          BY <1>6, <1>7, <4>2
        <5>. QED  BY <1>2, <1>4, <1>6, <4>1, <4>2, <5>1, PackOKNext
      <4>3. CASE ~plan[p].mark
        <5>1. d(p) \in {"Keep", "MarkDelete"} /\ (d(p) = "MarkDelete" => ~TooYoung(p))
          BY <1>6, <3>2, <4>3
        <5>. QED  BY <1>2, <1>4, <4>1, <4>3, <5>1, PackOKNext
      <4>. QED  BY <1>6, <4>2, <4>3
    <3>. QED  BY <3>1, <3>2
  <2>. QED  BY <2>1, <2>2
<1>10. CandidatesOK'
  <2>1. CASE d(p) \in Reasons
    <3>1. PICK c : c.id = p /\ cand' = cand \cup {c}
      BY <1>1, <2>1
    <3>2. plan' = plan
      BY <1>1, <2>1
    <3>3. ~plan[p].mark
      BY <1>6, <1>8, <2>1
    <3>. QED  BY <1>1, <1>2, <3>1, <3>2, <3>3 DEF CandidatesOK
  <2>2. CASE d(p) \notin Reasons
    <3>1. cand' = cand
      BY <1>1, <2>2
    <3>. QED  BY <1>1, <1>2, <1>4, <1>5, <3>1 DEF CandidatesOK
  <2>. QED  BY <2>1, <2>2
\* The counters
<1>11. \A x \in in.used : Served(x) => Served(x)'
  <2>. TAKE x \in in.used
  <2>1. SUFFICES ASSUME Served(x)  PROVE Served(x)'
    OBVIOUS
  <2>2. PICK q \in DOMAIN plan \ undecided :
           x \in ToSet(plan[q].blobs) /\ (q \in Candidates \/ plan[q].todo \in {"Keep", "Recover", "Repack"})
    BY <2>1 DEF Served
  <2>3. q # p /\ q \in DOMAIN plan' \ undecided'
    BY <1>1, <1>4, <2>2
  <2>4. q \in Candidates' \/ plan'[q].todo \in {"Keep", "Recover", "Repack"}
    BY <1>4, <2>2, <2>3
  <2>5. x \in ToSet(plan'[q].blobs)
    BY <1>5, <2>2
  <2>. QED  BY <2>3, <2>4, <2>5 DEF Served
<1>12. ASSUME needed(p), NEW x \in ToSet(plan[p].blobs)  PROVE Served(x)'
  <2>1. p \in DOMAIN plan' \ undecided' /\ x \in ToSet(plan'[p].blobs)
    BY <1>1, <1>2, <1>4, <1>5
  <2>2. p \in Candidates' \/ plan'[p].todo \in {"Keep", "Recover", "Repack"}
    BY <1>4, <1>6, <1>12
  <2>. QED  BY <2>1, <2>2 DEF Served
<1>13. ASSUME NEW x \in in.used
       PROVE  count'[x] \in Nat /\ CounterOK(x)'
  <2>1. count[x] \in Nat /\ CounterOK(x)
    BY <1>2 DEF Deciding
  <2>2. /\ Copies(x, undecided) = Copies(x, undecided \ {p}) + Times(x, plan[p].blobs)
        /\ Copies(x, undecided) \in Nat /\ Copies(x, undecided \ {p}) \in Nat
        /\ Times(x, plan[p].blobs) \in Nat
        /\ Times(x, plan[p].blobs) = 0 <=> x \notin ToSet(plan[p].blobs)
    <3>1. IsFiniteSet(undecided) /\ \A r \in undecided : plan[r].blobs \in Seq(Blob)
      BY <1>2, PlanFinite, PlanFacts, FS_Subset
    <3>2. /\ Copies(x, undecided) = Copies(x, undecided \ {p}) + Times(x, plan[p].blobs)
          /\ Copies(x, undecided) \in Nat /\ Copies(x, undecided \ {p}) \in Nat
          /\ Times(x, plan[p].blobs) \in Nat
      BY <3>1, CopiesRemove
    <3>. QED  BY <1>1, <3>1, <3>2, OccurrencesFinite
  <2>3. Copies(x, undecided)' = Copies(x, undecided \ {p}) /\ Copies(x, DOMAIN plan)' = Copies(x, DOMAIN plan)
    <3>1. undecided' = undecided \ {p} /\ undecided \ {p} \subseteq DOMAIN plan /\ DOMAIN plan' = DOMAIN plan
      BY <1>1, <1>2, <1>4
    <3>. QED  BY <1>5, <3>1
  <2>4. count'[x] = IF x \notin ToSet(plan[p].blobs) \/ count[x] = 0 THEN count[x]
                    ELSE IF NeededFor(plan[p].blobs) THEN 0 ELSE count[x] - Times(x, plan[p].blobs)
    BY <1>1 DEF CountAfter
  <2>5. CASE count[x] = 0
    <3>1. count'[x] = 0 /\ Served(x)'
      BY <1>11, <2>1, <2>4, <2>5 DEF CounterOK
    <3>. QED  BY <3>1 DEF CounterOK
  <2>6. CASE count[x] # 0 /\ x \notin ToSet(plan[p].blobs)
    BY <2>1, <2>2, <2>3, <2>4, <2>6 DEF CounterOK
  <2>7. CASE count[x] # 0 /\ x \in ToSet(plan[p].blobs) /\ NeededFor(plan[p].blobs)
    <3>1. count'[x] = 0
      BY <2>4, <2>7
    <3>2. x \in ServedBy(plan[p].blobs)
      BY <2>1, <2>7 DEF ServedBy
    <3>3. Served(x)'
      BY <1>12, <2>7, <3>2
    <3>. QED  BY <3>1, <3>3 DEF CounterOK
  <2>8. CASE count[x] # 0 /\ x \in ToSet(plan[p].blobs) /\ ~NeededFor(plan[p].blobs)
    <3>1. count'[x] = count[x] - Times(x, plan[p].blobs)
      BY <2>4, <2>8
    <3>2. Times(x, plan[p].blobs) < count[x]
      BY <2>1, <2>2, <2>8 DEF NeededFor
    <3>3. count'[x] \in Nat /\ count'[x] # 0
      BY <2>1, <2>2, <3>1, <3>2
    <3>. QED  BY <2>1, <2>2, <2>3, <2>8, <3>1, <3>3 DEF CounterOK
  <2>. QED  BY <2>5, <2>6, <2>7, <2>8
<1>14. MarkedFirst'
  <2>1. SUFFICES ASSUME NEW q \in undecided \ {p}, plan[q].mark  PROVE Normal \subseteq undecided \ {p}
    BY <1>1, <1>2, <1>5 DEF MarkedFirst
  <2>2. plan[p].mark
    BY <1>1, <1>6, <2>1 DEF DecidedBefore
  <2>3. p \notin Normal
    BY <1>2, <2>2, PlanFacts
  <2>. QED  BY <1>2, <2>1, <2>3 DEF Deciding, MarkedFirst
<1>15. Deciding'
  <2>1. count' \in [in.used -> Nat]
    <3>1. count' = [x \in in.used |-> count'[x]]
      BY <1>1 DEF CountAfter
    <3>. QED  BY <1>13, <3>1
  <2>. QED  BY <1>2, <1>13, <1>14, <2>1 DEF Deciding
<1>16. (in.used \subseteq BlobsOf(DOMAIN plan))'
  BY <1>2, <1>4, <1>5
<1>. QED  BY <1>1, <1>2, <1>4, <1>5, <1>9, <1>10, <1>15, <1>16 DEF PlanInv

\* Once all packs are decided on, no place is left, so all counters are 0.
LEMMA StartRepackStep == PlanInv /\ StartRepack => PlanInv'
<1>. SUFFICES ASSUME PlanInv, StartRepack  PROVE PlanInv'
  OBVIOUS
<1>1. /\ Found /\ FromIndex /\ in' = in /\ plan' = plan /\ dirty' = dirty /\ undecided = {} /\ undecided' = {}
      /\ cand' = cand /\ resize' = resize /\ pc = "decide" /\ pc' \in {"panic", "repack"}
      /\ CandidatesOK /\ Deciding
  BY DEF PlanInv, StartRepack
<1>2. OnlyTodos /\ plan' = [p \in DOMAIN plan' |-> plan'[p]]
  BY <1>1, SamePlan
<1>3. Found' /\ FromIndex' /\ BlobsOf(DOMAIN plan)' = BlobsOf(DOMAIN plan)
  BY <1>1, <1>2, OnlyTodosFacts
<1>4. Candidates' = Candidates
  BY <1>1 DEF Candidates
<1>5. \A p \in DOMAIN plan' : PackOK(p)'
  BY <1>1, <1>2, <1>4, PackOKSame DEF PlanInv
<1>6. \A x \in in.used : Served(x)
  <2>. TAKE x \in in.used
  <2>1. count[x] \in Nat /\ CounterOK(x) /\ Copies(x, undecided) = 0
    BY <1>1, CopiesOfNone DEF Deciding
  <2>. QED  BY <2>1 DEF CounterOK
<1>7. \A x \in in.used : Served(x)'
  BY <1>1, <1>4, <1>6 DEF Served
<1>8. CandidatesOK'
  BY <1>1 DEF CandidatesOK
<1>. QED  BY <1>1, <1>3, <1>5, <1>7, <1>8 DEF PlanInv

\* A candidate stays as it is, is repacked, or waits for the others of its type.
LEMMA DecideRepackStep == PlanInv /\ DecideRepack => PlanInv'
<1>. SUFFICES ASSUME PlanInv, DecideRepack  PROVE PlanInv'
  OBVIOUS
<1>1. PICK c \in cand :
         /\ cand' = cand \ {c}
         /\ \/ \E todo \in {"Keep", "Repack"} :
                   plan' = [plan EXCEPT ![c.id].todo = todo] /\ resize' = resize
            \/ plan' = plan /\ resize' = resize \cup {c}
  BY DEF DecideRepack, SetTodo
<1>2. /\ Found /\ FromIndex /\ in' = in /\ dirty' = dirty /\ undecided = {} /\ undecided' = {}
      /\ pc = "repack" /\ pc' = "repack" /\ CandidatesOK /\ c.id \in DOMAIN plan
      /\ in.used \subseteq BlobsOf(DOMAIN plan)
      /\ (\A p \in DOMAIN plan : PackOK(p)) /\ \A x \in in.used : Served(x)
  BY DEF PlanInv, DecideRepack, CandidatesOK
<1>3. c.id \in Candidates /\ ~plan[c.id].mark /\ c \notin resize
  BY <1>2 DEF Candidates, CandidatesOK
<1>4. CASE plan' = plan /\ resize' = resize \cup {c}
  <2>1. OnlyTodos /\ plan' = [p \in DOMAIN plan' |-> plan'[p]]
    BY <1>2, <1>4, SamePlan
  <2>2. Found' /\ FromIndex' /\ BlobsOf(DOMAIN plan)' = BlobsOf(DOMAIN plan)
    BY <1>2, <1>4, <2>1, OnlyTodosFacts
  <2>3. Candidates' = Candidates
    BY <1>1, <1>4 DEF Candidates
  <2>4. \A p \in DOMAIN plan' : PackOK(p)'
    BY <1>2, <1>4, <2>1, <2>3, PackOKSame
  <2>5. \A x \in in.used : Served(x)'
    BY <1>2, <1>4, <2>3 DEF Served
  <2>6. CandidatesOK'
    BY <1>1, <1>2, <1>3, <1>4 DEF CandidatesOK
  <2>. QED  BY <1>2, <1>4, <2>2, <2>4, <2>5, <2>6 DEF PlanInv
<1>5. ASSUME NEW todo \in {"Keep", "Repack"}, plan' = [plan EXCEPT ![c.id].todo = todo], resize' = resize
      PROVE  PlanInv'
  <2>1. /\ OnlyTodos /\ plan' = [p \in DOMAIN plan' |-> plan'[p]] /\ DOMAIN plan' = DOMAIN plan
        /\ plan'[c.id].todo = todo /\ \A q \in DOMAIN plan : q # c.id => plan'[q] = plan[q]
    <3>1. /\ OnlyTodos /\ plan' = [p \in DOMAIN plan' |-> plan'[p]]
          /\ plan'[c.id].todo = todo /\ \A q \in DOMAIN plan : q # c.id => plan'[q] = plan[q]
      BY <1>2, <1>5, OneTodo
    <3>. QED  BY <3>1 DEF OnlyTodos
  <2>2. /\ Found' /\ FromIndex' /\ BlobsOf(DOMAIN plan)' = BlobsOf(DOMAIN plan)
        /\ \A q \in DOMAIN plan : plan'[q].blobs = plan[q].blobs /\ plan'[q].mark = plan[q].mark
    BY <1>2, <2>1, OnlyTodosFacts
  <2>3. Candidates' = Candidates \ {c.id}
    <3>1. \A e \in (cand \cup resize) \ {c} : e.id # c.id
      BY <1>2 DEF CandidatesOK
    <3>2. cand' \cup resize' = (cand \cup resize) \ {c}
      BY <1>1, <1>3, <1>5
    <3>. QED  BY <3>1, <3>2 DEF Candidates
  <2>4. \A p \in DOMAIN plan' : PackOK(p)'
    <3>1. ASSUME NEW q \in DOMAIN plan, q # c.id  PROVE PackOK(q)'
      <4>1. plan'[q].todo = plan[q].todo
        BY <2>1, <3>1
      <4>2. q \in undecided' \cup Candidates' <=> q \in undecided \cup Candidates
        BY <1>2, <2>3, <3>1
      <4>3. q \in Candidates' => q \in Candidates
        BY <2>3
      <4>. QED  BY <1>2, <2>1, <4>1, <4>2, <4>3, PackOKSame
    <3>2. PackOK(c.id)'
      <4>1. UsedIn(c.id) # {} /\ ~TooYoung(c.id) /\ ~KeepUncacheable(c.id)
        BY <1>2, <1>3 DEF PackOK
      <4>2. c.id \notin undecided' \cup Candidates'
        BY <1>2, <2>3
      <4>. QED  BY <1>2, <1>3, <2>1, <4>1, <4>2, PackOKNext
    <3>. QED  BY <2>1, <3>1, <3>2
  <2>5. \A x \in in.used : Served(x)'
    <3>. TAKE x \in in.used
    <3>1. PICK q \in DOMAIN plan \ undecided :
             x \in ToSet(plan[q].blobs) /\ (q \in Candidates \/ plan[q].todo \in {"Keep", "Recover", "Repack"})
      BY <1>2 DEF Served
    <3>2. q \in DOMAIN plan' \ undecided' /\ x \in ToSet(plan'[q].blobs)
      BY <1>2, <2>1, <2>2, <3>1
    <3>3. q \in Candidates' \/ plan'[q].todo \in {"Keep", "Recover", "Repack"}
      BY <2>1, <2>3, <3>1
    <3>. QED  BY <3>2, <3>3 DEF Served
  <2>6. CandidatesOK'
    BY <1>1, <1>2, <1>5, <2>1, <2>2 DEF CandidatesOK
  <2>. QED  BY <1>2, <2>1, <2>2, <2>4, <2>5, <2>6 DEF PlanInv
<1>. QED  BY <1>1, <1>4, <1>5

LEMMA DecideResizeStep == PlanInv /\ DecideResize => PlanInv'
<1>. SUFFICES ASSUME PlanInv, DecideResize  PROVE PlanInv'
  OBVIOUS
<1>1. /\ Found /\ FromIndex /\ in' = in /\ dirty' = dirty /\ undecided = {} /\ undecided' = {}
      /\ cand = {} /\ cand' = {} /\ resize' = {}
      /\ pc = "repack" /\ pc' = "check" /\ CandidatesOK /\ in.used \subseteq BlobsOf(DOMAIN plan)
      /\ (\A p \in DOMAIN plan : PackOK(p)) /\ \A x \in in.used : Served(x)
  BY DEF PlanInv, DecideResize
<1>2. Candidates' = {} /\ Candidates \subseteq DOMAIN plan /\ \A p \in Candidates : ~plan[p].mark
  BY <1>1 DEF Candidates, CandidatesOK
<1>3. /\ DOMAIN plan' = DOMAIN plan /\ plan' = [p \in DOMAIN plan' |-> plan'[p]]
      /\ \A p \in DOMAIN plan \ Candidates : plan'[p] = plan[p]
      /\ \A p \in Candidates : \E todo \in {"Keep", "Repack"} : plan'[p] = [plan[p] EXCEPT !.todo = todo]
  BY <1>1, <1>2 DEF DecideResize, Candidates
<1>4. \A p \in Candidates : plan'[p].todo \in {"Keep", "Repack"} /\ plan'[p] = [plan[p] EXCEPT !.todo = plan'[p].todo]
  <2>. TAKE p \in Candidates
  <2>1. PICK todo \in {"Keep", "Repack"} : plan'[p] = [plan[p] EXCEPT !.todo = todo]
    BY <1>3
  <2>2. plan'[p] = PackFrom(p, todo)
    BY <1>1, <1>2, <2>1, PlanFacts, PackFields
  <2>. QED  BY <2>1, <2>2, PackFields
<1>5. OnlyTodos
  <2>1. \A p \in DOMAIN plan \ Candidates : plan'[p] = [plan[p] EXCEPT !.todo = plan'[p].todo]
    BY <1>1, <1>3, PlanFacts, PackFields
  <2>. QED  BY <1>1, <1>2, <1>3, <1>4, <2>1 DEF OnlyTodos
<1>6. /\ Found' /\ FromIndex' /\ BlobsOf(DOMAIN plan)' = BlobsOf(DOMAIN plan)
      /\ \A q \in DOMAIN plan : plan'[q].blobs = plan[q].blobs
  BY <1>1, <1>3, <1>5, OnlyTodosFacts
<1>7. \A p \in DOMAIN plan' : PackOK(p)'
  <2>1. ASSUME NEW p \in DOMAIN plan \ Candidates  PROVE PackOK(p)'
    <3>1. plan'[p].todo = plan[p].todo /\ p \notin undecided \cup Candidates
      BY <1>1, <1>3
    <3>. QED  BY <1>1, <1>2, <1>3, <1>5, <3>1, PackOKSame
  <2>2. ASSUME NEW p \in Candidates  PROVE PackOK(p)'
    <3>1. p \in DOMAIN plan /\ UsedIn(p) # {} /\ ~TooYoung(p) /\ ~KeepUncacheable(p) /\ ~plan[p].mark
      BY <1>1, <1>2 DEF PackOK
    <3>2. plan'[p].todo \in {"Keep", "Repack"} /\ p \notin undecided' \cup Candidates'
      BY <1>1, <1>2, <1>4
    <3>. QED  BY <1>1, <1>3, <1>5, <3>1, <3>2, PackOKNext
  <2>. QED  BY <1>3, <2>1, <2>2
<1>8. \A x \in in.used : Served(x)'
  <2>. TAKE x \in in.used
  <2>1. PICK q \in DOMAIN plan \ undecided :
           x \in ToSet(plan[q].blobs) /\ (q \in Candidates \/ plan[q].todo \in {"Keep", "Recover", "Repack"})
    BY <1>1 DEF Served
  <2>2. q \in DOMAIN plan' \ undecided' /\ x \in ToSet(plan'[q].blobs)
    BY <1>1, <1>3, <1>6, <2>1
  <2>3. plan'[q].todo \in {"Keep", "Recover", "Repack"}
    BY <1>3, <1>4, <2>1
  <2>. QED  BY <2>2, <2>3 DEF Served
<1>. QED  BY <1>1, <1>3, <1>6, <1>7, <1>8 DEF PlanInv, CandidatesOK

\* The two phases which decide nothing about packs
LEMMA LateSteps == PlanInv /\ (CheckPacks \/ FilterIndex) => PlanInv'
<1>. SUFFICES ASSUME PlanInv, CheckPacks \/ FilterIndex  PROVE PlanInv'
  OBVIOUS
<1>1. /\ Found /\ FromIndex /\ in' = in /\ plan' = plan /\ dirty' = dirty /\ undecided = {} /\ undecided' = {}
      /\ cand = {} /\ cand' = {} /\ resize = {} /\ resize' = {} /\ pc' \in {"error", "filter", "planned"}
      /\ in.used \subseteq BlobsOf(DOMAIN plan)
      /\ (\A p \in DOMAIN plan : PackOK(p)) /\ \A x \in in.used : Served(x)
  BY DEF PlanInv, CheckPacks, FilterIndex
<1>2. OnlyTodos /\ plan' = [p \in DOMAIN plan' |-> plan'[p]]
  BY <1>1, SamePlan
<1>3. Found' /\ FromIndex' /\ \A S \in SUBSET DOMAIN plan : BlobsOf(S)' = BlobsOf(S)
  BY <1>1, <1>2, OnlyTodosFacts
<1>4. Candidates' = Candidates
  BY <1>1 DEF Candidates
<1>5. \A p \in DOMAIN plan' : PackOK(p)'
  BY <1>1, <1>2, <1>4, PackOKSame
<1>6. \A x \in in.used : Served(x)'
  BY <1>1, <1>4 DEF Served
<1>7. CandidatesOK'
  BY <1>1 DEF CandidatesOK
<1>8. pc' \in {"filter", "planned"} =>
        /\ keepIds' = in.used \ BlobsOf(WithTodo({"Keep", "Recover"}))
        /\ unref' \subseteq in.stored \ DOMAIN plan
  <2>1. CASE CheckPacks
    BY <2>1 DEF CheckPacks
  <2>2. CASE FilterIndex
    BY <2>2 DEF FilterIndex, PlanInv
  <2>. QED  BY <2>1, <2>2
<1>9. (BlobsOf(WithTodo({"Keep", "Recover"})))' = BlobsOf(WithTodo({"Keep", "Recover"}))
  BY <1>1 DEF BlobsOf, WithTodo
<1>10. pc' = "planned" => /\ rebuild' \subseteq DOMAIN in.files
                          /\ \A i \in DOMAIN in.files \ rebuild' : ~MustModify(i)
  <2>. SUFFICES ASSUME FilterIndex
                PROVE  /\ rebuild' \subseteq DOMAIN in.files
                       /\ \A i \in DOMAIN in.files \ rebuild' : ~MustModify(i)
    BY DEF CheckPacks
  <2>. DEFINE process == {i \in DOMAIN in.files : MustModify(i) \/ IndexLen(i) < MinIndexLen}
  <2>1. rebuild' = IF Cardinality(process) = 1 /\ \A i \in DOMAIN in.files : ~MustModify(i) THEN {} ELSE process
    BY DEF FilterIndex
  <2>. QED  BY <2>1
<1>11. \A i \in DOMAIN in.files : MustModify(i)' = MustModify(i)
  BY <1>1 DEF MustModify, PacksOfFile, Stays
<1>. QED  BY <1>1, <1>3, <1>5, <1>6, <1>7, <1>8, <1>9, <1>10, <1>11 DEF PlanInv

\* Deciding keeps the invariant.
LEMMA PlanningStep == PlanInv /\ Planning => PlanInv'
  BY NewStep, CountStep, DecideStep, StartRepackStep, DecideRepackStep, DecideResizeStep, LateSteps DEF Planning

\* So does whatever leaves the plan alone, removing unreferenced packs included.
LEMMA PlanStays ==
  ASSUME PlanInv, in' = in, pc' = pc, plan' = plan, dirty' = dirty, undecided' = undecided, count' = count,
         cand' = cand, resize' = resize, keepIds' = keepIds, rebuild' = rebuild, unref' \subseteq unref
  PROVE  PlanInv'
<1>1. Found /\ Found' /\ Normal' = Normal /\ Marked' = Marked /\ \A p, d : PackFrom(p, d)' = PackFrom(p, d)
  BY SameInput DEF PlanInv
<1>2. Candidates' = Candidates /\ CandidatesOK'
  BY DEF Candidates, CandidatesOK, PlanInv
<1>3. IF pc' = "new" THEN plan' = <<>> ELSE FromIndex'
  <2>1. DirtyFiles' = DirtyFiles
    BY <1>1 DEF DirtyFiles, Duplicates, Listings, Section
  <2>. QED  BY <1>1, <2>1 DEF PlanInv, FromIndex
<1>4. \A S : BlobsOf(S)' = BlobsOf(S) /\ \A x : Copies(x, S)' = Copies(x, S)
  BY DEF BlobsOf, Copies, Occurrences
<1>5. \A p \in DOMAIN plan' : PackOK(p)'
  <2>. SUFFICES ASSUME NEW p \in DOMAIN plan  PROVE PackOK(p)'
    OBVIOUS
  <2>1. PackOK(p)
    BY DEF PlanInv
  <2>2. TooYoung(p)' = TooYoung(p) /\ KeepUncacheable(p)' = KeepUncacheable(p) /\ UsedIn(p)' = UsedIn(p)
    BY DEF TooYoung, KeepUncacheable, UsedIn
  <2>3. \A x : MissingElsewhere(x)' = MissingElsewhere(x)
    BY <1>1, <1>4 DEF MissingElsewhere
  <2>4. (\E x \in UsedIn(p) : MissingElsewhere(x))' = \E x \in UsedIn(p) : MissingElsewhere(x)
    BY <2>2, <2>3
  <2>5. Older(plan[p].time, in.opts.keep_delete)' = Older(plan[p].time, in.opts.keep_delete)
    BY DEF Older
  <2>. QED  BY <1>2, <2>1, <2>2, <2>4, <2>5 DEF PackOK
<1>6. \A x : Served(x)' = Served(x)
  BY <1>2 DEF Served
<1>7. pc' = "decide" => Deciding'
  <2>. SUFFICES ASSUME pc = "decide"  PROVE Deciding'
    OBVIOUS
  <2>1. Deciding
    BY DEF PlanInv
  <2>2. \A x : CounterOK(x)' = CounterOK(x)
    BY <1>4, <1>6 DEF CounterOK
  <2>3. MarkedFirst' = MarkedFirst
    BY <1>1 DEF MarkedFirst
  <2>. QED  BY <2>1, <2>2, <2>3 DEF Deciding
<1>8. /\ BlobsOf(DOMAIN plan)' = BlobsOf(DOMAIN plan)
      /\ BlobsOf(WithTodo({"Keep", "Recover"}))' = BlobsOf(WithTodo({"Keep", "Recover"}))
  BY DEF BlobsOf, WithTodo
<1>9. \A i : MustModify(i)' = MustModify(i)
  BY DEF MustModify, PacksOfFile, Stays
<1>10. pc' = "planned" => /\ rebuild' \subseteq DOMAIN in'.files
                          /\ \A i \in DOMAIN in'.files \ rebuild' : ~MustModify(i)'
  BY <1>9 DEF PlanInv
<1>. QED  BY <1>1, <1>2, <1>3, <1>5, <1>6, <1>7, <1>8, <1>10 DEF PlanInv

-----------------------------------------------------------------------------
(***************************************************************************)
(* The complete plan                                                       *)
(***************************************************************************)
LEMMA PlanPromise == PlanInv => KeepsPromise
<1>. SUFFICES ASSUME PlanInv, pc = "planned"
              PROVE  PlanOK(Normal, Marked, [p \in DOMAIN plan |-> ToSet(plan[p].blobs)], in.used,
                            {p \in Marked : Older(plan[p].time, in.opts.keep_delete)},
                            [keep |-> Todo("Keep"), repack |-> Todo("Repack"),
                             markDelete |-> Todo("MarkDelete"), recover |-> Todo("Recover"),
                             delete |-> Todo("Delete"),
                             keepMarked |-> WithTodo({"KeepMarked", "KeepMarkedAndCorrect"})])
  BY DEF KeepsPromise
<1>. DEFINE blobs == [p \in DOMAIN plan |-> ToSet(plan[p].blobs)]
            expired == {p \in Marked : Older(plan[p].time, in.opts.keep_delete)}
            kept == [keep |-> Todo("Keep"), repack |-> Todo("Repack"),
                     markDelete |-> Todo("MarkDelete"), recover |-> Todo("Recover"),
                     delete |-> Todo("Delete"),
                     keepMarked |-> WithTodo({"KeepMarked", "KeepMarkedAndCorrect"})]
<1>1. /\ Found /\ FromIndex /\ undecided = {} /\ Candidates = {}
      /\ (\A p \in DOMAIN plan : PackOK(p)) /\ \A x \in in.used : Served(x)
  BY DEF PlanInv, Candidates
<1>2. ASSUME NEW p \in DOMAIN plan
      PROVE  /\ p \in Normal <=> p \notin Marked
             /\ p \in Normal => plan[p].todo \in {"Keep", "Repack", "MarkDelete"}
             /\ p \in Marked => plan[p].todo \in {"KeepMarked", "KeepMarkedAndCorrect", "Recover", "Delete"}
             /\ plan[p].todo \in {"Recover", "Repack"} => UsedIn(p) # {}
             /\ plan[p].todo = "Delete" => p \in expired
             /\ plan[p].todo \in {"KeepMarked", "KeepMarkedAndCorrect"} => p \notin expired
  <2>1. PackOK(p) /\ p \in Normal \cup Marked /\ plan[p].mark = (p \notin Normal) /\ (plan[p].mark <=> p \in Marked)
    BY <1>1, PlanFacts
  <2>2. plan[p].todo # "Undecided"
    BY <1>1, <2>1 DEF PackOK
  <2>. QED  BY <2>1, <2>2 DEF PackOK
<1>3. DOMAIN plan = Normal \cup Marked /\ Normal \subseteq DOMAIN plan /\ Marked \subseteq DOMAIN plan
  BY <1>1 DEF FromIndex
<1>4. PlanDecidesAll(Normal, Marked, kept)
  BY <1>2, <1>3 DEF PlanDecidesAll, Todo, WithTodo
<1>5. PlanCovers(blobs, in.used, kept)
  <2>. SUFFICES ASSUME NEW x \in in.used
                PROVE  x \in BlobsIn(kept.keep \cup kept.repack \cup kept.recover, blobs)
    BY DEF PlanCovers
  <2>1. PICK p \in DOMAIN plan : x \in ToSet(plan[p].blobs) /\ plan[p].todo \in {"Keep", "Recover", "Repack"}
    BY <1>1 DEF Served
  <2>2. p \in kept.keep \cup kept.repack \cup kept.recover
    BY <2>1 DEF Todo, WithTodo
  <2>. QED  BY <2>1, <2>2 DEF BlobsIn
<1>6. PlanHasReason(blobs, in.used, kept)
  BY <1>2 DEF PlanHasReason, Todo, WithTodo, UsedIn
<1>7. PlanRespectsMarks(expired, kept)
  BY <1>2 DEF PlanRespectsMarks, Todo, WithTodo
<1>. QED  BY <1>4, <1>5, <1>6, <1>7 DEF PlanOK

LEMMA PlanReasons == PlanInv => RecoveredForReason /\ YoungPacksKept
<1>. SUFFICES ASSUME PlanInv, pc = "planned"
              PROVE  /\ (\A x \in in.used : Copies(x, DOMAIN plan) <= MaxCount) =>
                           \A p \in Todo("Recover") : UsedIn(p) \ BlobsOf(Normal) # {}
                     /\ \A p \in WithTodo({"Repack", "MarkDelete"}) : ~TooYoung(p)
                     /\ \A p \in Todo("Repack") : ~KeepUncacheable(p)
  BY DEF RecoveredForReason, YoungPacksKept, UsedIn, KeepUncacheable
<1>1. \A p \in DOMAIN plan : PackOK(p) /\ UsedIn(p) \subseteq in.used
  BY DEF PlanInv, UsedIn
<1>2. ASSUME NEW p \in Todo("Recover"), \A x \in in.used : Copies(x, DOMAIN plan) <= MaxCount
      PROVE  UsedIn(p) \ BlobsOf(Normal) # {}
  <2>1. PICK x \in UsedIn(p) : MissingElsewhere(x)
    BY <1>1 DEF PackOK, Todo, WithTodo
  <2>2. p \in DOMAIN plan /\ x \in in.used
    BY <1>1 DEF Todo, WithTodo
  <2>3. Copies(x, DOMAIN plan) \in Nat /\ MaxCount \in Nat
    <3>1. Found /\ FromIndex
      BY DEF PlanInv
    <3>. QED  BY <3>1, PlanFinite, PlanFacts, CopiesFinite, PlanAssumption
  <2>4. ~(Copies(x, DOMAIN plan) > MaxCount)
    BY <1>2, <2>2, <2>3
  <2>. QED  BY <2>1, <2>4 DEF MissingElsewhere
<1>3. \A p \in WithTodo({"Repack", "MarkDelete"}) : ~TooYoung(p)
  BY <1>1 DEF PackOK, WithTodo
<1>4. \A p \in Todo("Repack") : ~KeepUncacheable(p)
  BY <1>1 DEF PackOK, Todo, WithTodo
<1>. QED  BY <1>2, <1>3, <1>4

-----------------------------------------------------------------------------
(***************************************************************************)
(* The invariant of the execution                                          *)
(***************************************************************************)
Listed == Normal \cup Marked
Processed == UNION {PacksOfFile(i) : i \in rebuild}
ToCopy == keepIds \cap BlobsOf(Processed \cap WithTodo({"Repack"}))

\* What prune may write: marks of the packs in no index file, new entries of the packs
\* it processes, and the packs it has written.
NewMarks == IF Instant THEN {} ELSE {Entry("packs_to_delete", p, {}) : p \in in.stored \ Listed}
NewPacks == {new \in SUBSET Blob : [id |-> new, blobs |-> new] \in disk}
EntriesOK(entries) ==
    entries \subseteq NewMarks \cup NewEntries(Processed) \cup {Entry("packs", new, new) : new \in NewPacks}

\* The entries replace those of the index files to process, up to the blobs `left`.
Replaces(entries, left) ==
    /\ NewEntries(Processed) \subseteq entries
    /\ \A x \in ToCopy \ left : \E e \in entries : e.section = "packs" /\ x \in e.blobs
Replaced == Replaces(written, {})

\* Packs go only when nothing is left in the index that tells of them.
AllThere == \A p \in Listed : DiskPack(p) \in disk
MayGo ==
    /\ Replaced /\ old \cap rebuild = {}
    /\ \A p \in Listed \ Removable(Processed) : DiskPack(p) \in disk

\* Old index files go only once they are replaced, unless early_delete_index is given.
OldOK ==
    /\ old \subseteq DOMAIN in.files /\ DOMAIN in.files \ rebuild \subseteq old
    /\ step = "plan" => old = DOMAIN in.files
    /\ step = "early" => Early
    /\ step \in {"rebuild", "copy"} => IF Early THEN old \cap rebuild = {} ELSE old = DOMAIN in.files
    /\ step \in {"packs", "done"} => old \cap rebuild = {}
    /\ old = DOMAIN in.files \/ Early \/ Replaced

WrittenOK ==
    /\ step = "plan" => written = {} /\ unsaved = {}
    /\ step # "plan" => EntriesOK(written \cup unsaved)
    /\ step = "copy" => copy \subseteq ToCopy /\ Replaces(written \cup unsaved, copy)
    /\ step \in {"index", "packs"} \/ (step = "done" /\ Instant) => unsaved = {}
    /\ step \in {"index", "packs", "done"} => Replaced

PacksOK ==
    /\ step \in {"copy", "index", "packs"} => rmData \cup rmTree \subseteq Removable(Processed)
    /\ AllThere \/ MayGo
    /\ step \notin {"packs", "done", "stopped"} => AllThere
    /\ ~Instant => \A p \in in.stored \ Listed : DiskPack(p) \in disk

\* The part that instant_delete is about: each pack is known, and those that are not
\* to stay are on the lists of packs to remove, or gone.
NewEntry(id) == id \in SUBSET Blob /\ Entry("packs", id, id) \in written \cup unsaved
IsGone(p) == \A d \in disk : d.id # p
KnownPacks ==
    /\ step = "plan" =>
          /\ \A d \in disk : d.id \in in.stored
          /\ pc \in {"filter", "planned"} => \A d \in disk : d.id \in Listed \cup unref
    /\ Instant /\ step \notin {"plan", "stopped"} => \A d \in disk : d.id \in Listed \/ NewEntry(d.id)
    /\ step \in {"copy", "index", "packs"} =>
          \A p \in Removable(Processed) : p \in rmData \cup rmTree \/ IsGone(p)
    /\ step = "done" => \A p \in Removable(Processed) : IsGone(p)

RunInv ==
    /\ PlanInv
    /\ step \in {"plan", "early", "rebuild", "copy", "index", "packs", "done", "stopped"}
    /\ step # "plan" => pc = "planned"
    /\ OldOK /\ WrittenOK /\ PacksOK /\ KnownPacks

-----------------------------------------------------------------------------
(***************************************************************************)
(* Entries of index files and the packs they tell of                       *)
(***************************************************************************)
EntryFor(s, e) == Entry(s, e.entry.id, ToSet(e.entry.blobs))

LEMMA EntryFields ==
  ASSUME NEW s, NEW p, NEW bs
  PROVE  Entry(s, p, bs).section = s /\ Entry(s, p, bs).id = p /\ Entry(s, p, bs).blobs = bs
  BY DEF Entry

LEMMA FileEntriesFacts ==
  ASSUME Found
  PROVE  /\ \A s \in SectionName : \A e \in Section(s) : EntryFor(s, e) \in FileEntries(e.file)
         /\ \A i \in DOMAIN in.files : \A f \in FileEntries(i) :
               \E s \in SectionName : \E e \in Section(s) : e.file = i /\ f = EntryFor(s, e)
<1>1. ASSUME NEW s \in SectionName, NEW e \in Section(s)  PROVE EntryFor(s, e) \in FileEntries(e.file)
  <2>1. e.pos \in DOMAIN in.files[e.file][s] /\ e.entry = in.files[e.file][s][e.pos]
    BY <1>1, SectionFacts
  <2>. QED  BY <2>1 DEF FileEntries, EntryFor
<1>2. ASSUME NEW i \in DOMAIN in.files, NEW f \in FileEntries(i)
      PROVE  \E s \in SectionName : \E e \in Section(s) : e.file = i /\ f = EntryFor(s, e)
  <2>1. PICK s \in SectionName : \E k \in DOMAIN in.files[i][s] :
               f = Entry(s, in.files[i][s][k].id, ToSet(in.files[i][s][k].blobs))
    BY <1>2 DEF FileEntries
  <2>2. PICK k \in DOMAIN in.files[i][s] : f = Entry(s, in.files[i][s][k].id, ToSet(in.files[i][s][k].blobs))
    BY <2>1
  <2>3. Placed(s, i, k) \in Section(s)
    BY SectionMembers
  <2>4. Placed(s, i, k).file = i /\ Placed(s, i, k).entry = in.files[i][s][k]
    BY DEF Placed
  <2>. QED  BY <2>2, <2>3, <2>4 DEF EntryFor
<1>. QED  BY <1>1, <1>2

\* Index files list stored packs.
LEMMA ListedEntries ==
  ASSUME Found, NEW s \in SectionName, NEW e \in Section(s)
  PROVE  /\ e.entry.id \in in.stored /\ e.entry.id \in Listed
         /\ e.entry.id \notin SUBSET Blob
<1>. DEFINE listed == {g.entry : g \in UNION {SectionOf(in.files, r) : r \in SectionName}}
<1>1. PICK family \in DOMAIN Inputs : in \in Inputs[family]
  BY DEF Found
<1>2. /\ \A g \in listed : g.id \in in.stored
      /\ \A new \in SUBSET Blob : new \notin in.stored
  BY <1>1, RunAssumption
<1>3. e.entry \in listed
  BY DEF Section
<1>4. e.entry.id \in Listed
  BY DEF Listed, Normal, Marked, IdsOf, SectionName
<1>. HIDE DEF listed
<1>. QED  BY <1>2, <1>3, <1>4

LEMMA ListedStored ==
  ASSUME Found, NEW p \in Listed
  PROVE  p \in in.stored /\ p \notin SUBSET Blob
<1>1. PICK s \in SectionName : p \in IdsOf(Section(s))
  BY DEF Listed, Normal, Marked, SectionName
<1>2. PICK e \in Section(s) : e.entry.id = p
  BY <1>1 DEF IdsOf
<1>. QED  BY <1>2, ListedEntries

\* A pack has the blobs that each of its entries tells.
LEMMA DiskBlobs ==
  ASSUME Found, NEW s \in SectionName, NEW e \in Section(s)
  PROVE  DiskPack(e.entry.id).id = e.entry.id /\ ToSet(e.entry.blobs) \subseteq DiskPack(e.entry.id).blobs
<1>1. EntryFor(s, e) \in {f \in AllEntries : f.id = e.entry.id}
  <2>1. e.file \in DOMAIN in.files
    BY SectionFacts
  <2>. QED  BY <2>1, FileEntriesFacts, EntryFields DEF AllEntries, EntryFor
<1>2. EntryFor(s, e).blobs = ToSet(e.entry.blobs)
  BY EntryFields DEF EntryFor
<1>. QED  BY <1>1, <1>2 DEF DiskPack

\* The entry from which the plan takes a pack
LEMMA PlannedEntry ==
  ASSUME Found, FromIndex, NEW p \in DOMAIN plan
  PROVE  /\ p \in Listed /\ p \in in.stored /\ p \notin SUBSET Blob
         /\ DiskPack(p).id = p /\ ToSet(plan[p].blobs) \subseteq DiskPack(p).blobs
         /\ plan[p].file \in DOMAIN in.files
         /\ Entry(SectionNameOf(p), p, ToSet(plan[p].blobs)) \in FileEntries(plan[p].file)
<1>1. /\ SectionNameOf(p) \in SectionName /\ FirstEntry(p) \in Listings(Section(SectionNameOf(p)), p)
      /\ plan[p].file = FirstEntry(p).file /\ plan[p].blobs = FirstEntry(p).entry.blobs
      /\ plan[p].file \in DOMAIN in.files
  BY PlanFacts
<1>2. FirstEntry(p) \in Section(SectionNameOf(p)) /\ FirstEntry(p).entry.id = p
  BY <1>1 DEF Listings
<1>3. p \in Listed /\ p \in in.stored /\ p \notin SUBSET Blob
  BY <1>1, <1>2, ListedEntries
<1>4. DiskPack(p).id = p /\ ToSet(plan[p].blobs) \subseteq DiskPack(p).blobs
  BY <1>1, <1>2, DiskBlobs
<1>5. Entry(SectionNameOf(p), p, ToSet(plan[p].blobs)) \in FileEntries(plan[p].file)
  BY <1>1, <1>2, FileEntriesFacts DEF EntryFor
<1>. QED  BY <1>1, <1>3, <1>4, <1>5

\* An entry of a file that is not processed is the only one of its pack up to there, and
\* the pack stays as this entry tells.
LEMMA UntouchedFiles ==
  ASSUME PlanInv, pc = "planned", NEW i \in DOMAIN in.files \ rebuild, NEW f \in FileEntries(i)
  PROVE  /\ f.id \in DOMAIN plan /\ plan[f.id].file = i /\ Stays(f.id)
         /\ f = Entry(SectionNameOf(f.id), f.id, ToSet(plan[f.id].blobs))
<1>1. Found /\ FromIndex /\ ~MustModify(i)
  BY DEF PlanInv
<1>2. PICK s \in SectionName : \E e \in Section(s) : e.file = i /\ f = EntryFor(s, e)
  BY <1>1, FileEntriesFacts
<1>3. PICK e \in Section(s) : e.file = i /\ f = EntryFor(s, e)
  BY <1>2
<1>. DEFINE p == f.id
<1>4. p = e.entry.id /\ f = Entry(s, p, ToSet(e.entry.blobs)) /\ p \in DOMAIN plan
  BY <1>1, <1>3, EntryFields, ListedEntries DEF EntryFor, FromIndex, Listed
<1>5. i \in DOMAIN in.files /\ i \notin DirtyFiles
  BY <1>1 DEF MustModify, FromIndex
<1>6. s = SectionNameOf(p)
  <2>1. CASE s = "packs"
    BY <1>3, <1>4, <2>1 DEF SectionNameOf, Normal, IdsOf
  <2>2. CASE s = "packs_to_delete" /\ p \in Normal
    <3>1. e.pos \in DOMAIN in.files[i][s] /\ e.entry = in.files[i][s][e.pos]
      BY <1>1, <1>3, SectionFacts
    <3>2. in.files[i].packs_to_delete = in.files[i]["packs_to_delete"]
      OBVIOUS
    <3>. QED  BY <1>4, <1>5, <2>2, <3>1, <3>2 DEF DirtyFiles
  <2>3. CASE s = "packs_to_delete" /\ p \notin Normal
    BY <2>3 DEF SectionNameOf
  <2>. QED  BY <2>1, <2>2, <2>3 DEF SectionName
<1>7. /\ FirstEntry(p) \in Listings(Section(s), p) /\ ~ReadBefore(e, FirstEntry(p))
      /\ plan[p].file = FirstEntry(p).file /\ plan[p].blobs = FirstEntry(p).entry.blobs
  <2>1. e \in Listings(Section(s), p)
    BY <1>4 DEF Listings
  <2>. QED  BY <1>1, <1>4, <1>6, <2>1, PlanFacts
<1>8. ~ReadBefore(FirstEntry(p), e)
  <2>1. ~Duplicates(Section(s), i)
    BY <1>5 DEF DirtyFiles, SectionName
  <2>. QED  BY <1>3, <1>4, <1>7, <2>1 DEF Duplicates
<1>9. FirstEntry(p) = e
  <2>1. FirstEntry(p) \in Section(s)
    BY <1>7 DEF Listings
  <2>2. /\ FirstEntry(p) = Placed(s, FirstEntry(p).file, FirstEntry(p).pos) /\ e = Placed(s, e.file, e.pos)
        /\ FirstEntry(p).file \in Nat /\ FirstEntry(p).pos \in Nat /\ e.file \in Nat /\ e.pos \in Nat
    BY <1>1, <2>1, SectionFacts
  <2>3. FirstEntry(p).file = e.file /\ FirstEntry(p).pos = e.pos
    BY <1>7, <1>8, <2>2 DEF ReadBefore
  <2>. QED  BY <2>2, <2>3
<1>10. plan[p].file = i /\ Stays(p)
  <2>1. plan[p].file = i
    BY <1>3, <1>7, <1>9
  <2>. QED  BY <1>1, <1>4, <2>1 DEF MustModify, PacksOfFile
<1>. QED  BY <1>4, <1>6, <1>7, <1>9, <1>10

-----------------------------------------------------------------------------
(***************************************************************************)
(* The steps of prune_repository keep the invariant                        *)
(***************************************************************************)
\* What the execution reads of the input and of the plan
LEMMA SameIndex ==
  ASSUME in' = in
  PROVE  /\ Listed' = Listed /\ Instant' = Instant /\ Early' = Early /\ NewMarks' = NewMarks
         /\ \A p : DiskPack(p)' = DiskPack(p)
         /\ \A i : FileEntries(i)' = FileEntries(i)
<1>1. Listed' = Listed /\ Instant' = Instant /\ Early' = Early
  BY SameInput DEF Listed, Instant, Early
<1>2. NewMarks' = NewMarks
  BY <1>1 DEF NewMarks
<1>3. \A i : FileEntries(i)' = FileEntries(i)
  BY DEF FileEntries
<1>4. AllEntries' = AllEntries
  BY <1>3 DEF AllEntries
<1>. QED  BY <1>1, <1>2, <1>3, <1>4 DEF DiskPack

LEMMA SameRun ==
  ASSUME in' = in, plan' = plan, rebuild' = rebuild, keepIds' = keepIds
  PROVE  /\ Processed' = Processed /\ ToCopy' = ToCopy
         /\ \A S : NewEntries(S)' = NewEntries(S) /\ Removable(S)' = Removable(S)
<1>1. Processed' = Processed
  BY DEF Processed, PacksOfFile
<1>2. \A T : WithTodo(T)' = WithTodo(T)
  BY DEF WithTodo
<1>3. \A S : BlobsOf(S)' = BlobsOf(S)
  BY DEF BlobsOf
<1>4. ToCopy' = ToCopy
  BY <1>1, <1>2, <1>3 DEF ToCopy
<1>5. Instant' = Instant
  BY DEF Instant
<1>. QED  BY <1>1, <1>2, <1>4, <1>5 DEF NewEntries, Removable

LEMMA PlanKept == PlanInv /\ UNCHANGED vars => PlanInv'
<1>. SUFFICES ASSUME PlanInv, UNCHANGED vars  PROVE PlanInv'
  OBVIOUS
<1>1. /\ in' = in /\ pc' = pc /\ plan' = plan /\ dirty' = dirty /\ undecided' = undecided /\ count' = count
      /\ cand' = cand /\ resize' = resize /\ keepIds' = keepIds /\ rebuild' = rebuild /\ unref' = unref
  BY DEF vars
<1>. QED  BY <1>1, PlanStays

\* Nothing to replace: no pack is processed.
LEMMA NothingToReplace ==
  ASSUME rebuild = {}
  PROVE  Processed = {} /\ NewEntries(Processed) = {} /\ ToCopy = {} /\ Removable(Processed) = {} /\ Replaced
<1>1. Processed = {}
  BY DEF Processed
<1>2. NewEntries({}) = {} /\ Removable({}) = {}
  BY DEF NewEntries, Removable
<1>3. ToCopy = {}
  BY <1>1 DEF ToCopy, BlobsOf
<1>. QED  BY <1>1, <1>2, <1>3 DEF Replaced, Replaces

LEMMA RunStarts == RunInit => RunInv
<1>. SUFFICES ASSUME RunInit  PROVE RunInv
  OBVIOUS
<1>1. PlanInv /\ Found
  BY PlanInit DEF RunInit, PlanInv
<1>2. /\ step = "plan" /\ disk = {DiskPack(p) : p \in in.stored} /\ old = DOMAIN in.files
      /\ written = {} /\ unsaved = {} /\ pc = "new"
  BY DEF RunInit, Init
<1>3. AllThere /\ \A p \in in.stored \ Listed : DiskPack(p) \in disk
  BY <1>1, <1>2, ListedStored DEF AllThere
<1>4. \A d \in disk : d.id \in in.stored
  BY <1>2 DEF DiskPack
<1>. QED  BY <1>1, <1>2, <1>3, <1>4 DEF RunInv, OldOK, WrittenOK, PacksOK, KnownPacks

LEMMA PlanningKnows ==
  ASSUME PlanInv, Planning
  PROVE  /\ in' = in
         /\ pc' \in {"filter", "planned"} =>
              \/ pc \in {"filter", "planned"} /\ unref' = unref
              \/ unref' = in.stored \ Listed
<1>1. CASE New \/ CountUsed \/ DecidePack \/ StartRepack \/ DecideRepack \/ DecideResize
  BY <1>1 DEF New, CountUsed, DecidePack, StartRepack, DecideRepack, DecideResize
<1>2. CASE CheckPacks
  <2>1. DOMAIN plan = Listed
    BY <1>2 DEF CheckPacks, PlanInv, FromIndex, Listed
  <2>. QED  BY <1>2, <2>1 DEF CheckPacks
<1>3. CASE FilterIndex
  BY <1>3 DEF FilterIndex
<1>. QED  BY <1>1, <1>2, <1>3 DEF Planning

LEMMA RunPlan == RunInv /\ Plan => RunInv'
<1>. SUFFICES ASSUME RunInv, Plan  PROVE RunInv'
  OBVIOUS
<1>1. /\ PlanInv /\ Planning /\ step = "plan" /\ step' = "plan" /\ disk' = disk /\ old' = old
      /\ written' = {} /\ unsaved' = {} /\ written = {} /\ unsaved = {}
  BY DEF RunInv, Plan, runVars, WrittenOK
<1>2. PlanInv'
  BY <1>1, PlanningStep
<1>3. in' = in
  BY <1>1, PlanningKnows
<1>4. /\ Listed' = Listed /\ Instant' = Instant /\ (\A p : DiskPack(p)' = DiskPack(p))
  BY <1>3, SameIndex
<1>5. old = DOMAIN in.files /\ AllThere /\ (~Instant => \A p \in in.stored \ Listed : DiskPack(p) \in disk)
  BY <1>1 DEF RunInv, OldOK, PacksOK
<1>6. OldOK' /\ WrittenOK'
  BY <1>1, <1>3, <1>5 DEF OldOK, WrittenOK
<1>7. PacksOK'
  <2>1. AllThere'
    BY <1>1, <1>4, <1>5 DEF AllThere
  <2>. QED  BY <1>1, <1>3, <1>4, <1>5, <2>1 DEF PacksOK
<1>8. KnownPacks'
  <2>1. /\ \A d \in disk : d.id \in in.stored
        /\ pc \in {"filter", "planned"} => \A d \in disk : d.id \in Listed \cup unref
    BY <1>1 DEF RunInv, KnownPacks
  <2>2. pc' \in {"filter", "planned"} => \A d \in disk : d.id \in Listed \cup unref'
    BY <1>1, <2>1, PlanningKnows
  <2>. QED  BY <1>1, <1>3, <1>4, <2>1, <2>2 DEF KnownPacks
<1>. QED  BY <1>1, <1>2, <1>6, <1>7, <1>8 DEF RunInv

LEMMA RunDeleteUnref == RunInv /\ DeleteUnref => RunInv'
<1>. SUFFICES ASSUME RunInv, DeleteUnref  PROVE RunInv'
  OBVIOUS
<1>1. PICK p \in unref : unref' = unref \ {p} /\ RemovePack(p)
  BY DEF DeleteUnref
<1>2. /\ in' = in /\ pc = "planned" /\ pc' = pc /\ plan' = plan /\ dirty' = dirty /\ undecided' = undecided
      /\ count' = count /\ cand' = cand /\ resize' = resize /\ keepIds' = keepIds /\ rebuild' = rebuild
      /\ step = "plan" /\ step' = step /\ old' = old /\ written' = written /\ unsaved' = unsaved
      /\ Instant /\ PlanInv /\ disk' = {d \in disk : d.id # p}
  BY <1>1 DEF DeleteUnref, RunInv, RemovePack
<1>3. PlanInv'
  BY <1>1, <1>2, PlanStays
<1>4. Listed' = Listed /\ Instant' = Instant /\ (\A q : DiskPack(q)' = DiskPack(q))
  BY <1>2, SameIndex
<1>5. old = DOMAIN in.files /\ AllThere /\ written = {} /\ unsaved = {}
  BY <1>2 DEF RunInv, OldOK, PacksOK, WrittenOK
<1>6. OldOK' /\ WrittenOK'
  BY <1>2, <1>5 DEF OldOK, WrittenOK
<1>7. PacksOK'
  <2>1. p \notin Listed
    BY <1>1, <1>2 DEF PlanInv, FromIndex, Listed
  <2>2. \A q : DiskPack(q).id = q
    BY DEF DiskPack
  <2>3. AllThere'
    BY <1>2, <1>4, <1>5, <2>1, <2>2 DEF AllThere
  <2>. QED  BY <1>2, <1>4, <2>3 DEF PacksOK
<1>8. KnownPacks'
  <2>1. \A d \in disk : d.id \in in.stored /\ d.id \in Listed \cup unref
    BY <1>2 DEF RunInv, KnownPacks
  <2>2. \A d \in disk' : d.id \in in.stored /\ d.id \in Listed \cup unref'
    BY <1>1, <1>2, <2>1
  <2>. QED  BY <1>2, <1>4, <2>2 DEF KnownPacks
<1>. QED  BY <1>2, <1>3, <1>6, <1>7, <1>8 DEF RunInv

\* The steps after the planning leave the plan alone.
LEMMA Executing ==
  ASSUME RunInv, UNCHANGED vars
  PROVE  /\ PlanInv /\ PlanInv' /\ in' = in /\ pc' = pc /\ plan' = plan /\ rebuild' = rebuild /\ unref' = unref
         /\ Listed' = Listed /\ Instant' = Instant /\ Early' = Early /\ NewMarks' = NewMarks
         /\ Processed' = Processed /\ ToCopy' = ToCopy
         /\ NewEntries(Processed)' = NewEntries(Processed) /\ Removable(Processed)' = Removable(Processed)
         /\ \A p : DiskPack(p)' = DiskPack(p)
<1>1. PlanInv /\ PlanInv'
  BY PlanKept DEF RunInv
<1>2. in' = in /\ pc' = pc /\ plan' = plan /\ rebuild' = rebuild /\ unref' = unref /\ keepIds' = keepIds
  BY DEF vars
<1>. QED  BY <1>1, <1>2, SameIndex, SameRun

LEMMA RunStartRun == RunInv /\ StartRun => RunInv'
<1>. SUFFICES ASSUME RunInv, StartRun  PROVE RunInv'
  OBVIOUS
<1>1. /\ UNCHANGED vars /\ step = "plan" /\ pc = "planned" /\ disk' = disk /\ old' = old /\ written' = written
      /\ unsaved' = {Entry("packs_to_delete", p, {}) : p \in unref}
      /\ Instant => unref = {}
      /\ step' = IF rebuild = {} THEN "done" ELSE IF Early THEN "early" ELSE "rebuild"
  BY DEF StartRun
<1>2. /\ PlanInv /\ PlanInv' /\ in' = in /\ pc' = pc /\ plan' = plan /\ rebuild' = rebuild /\ unref' = unref
      /\ Listed' = Listed /\ Instant' = Instant /\ Early' = Early /\ NewMarks' = NewMarks
      /\ Processed' = Processed /\ ToCopy' = ToCopy
      /\ NewEntries(Processed)' = NewEntries(Processed) /\ Removable(Processed)' = Removable(Processed)
      /\ \A p : DiskPack(p)' = DiskPack(p)
  BY <1>1, Executing
<1>3. /\ old = DOMAIN in.files /\ AllThere /\ written = {} /\ step' \in {"done", "early", "rebuild"}
      /\ step' = "done" <=> rebuild = {}
  BY <1>1 DEF RunInv, OldOK, PacksOK, WrittenOK
<1>4. rebuild = {} => Replaced' /\ Removable(Processed)' = {}
  <2>. HAVE rebuild = {}
  <2>1. Replaced /\ Removable(Processed) = {}
    BY NothingToReplace
  <2>. QED  BY <1>1, <1>2, <2>1 DEF Replaced, Replaces
<1>5. unref \subseteq in.stored \ Listed
  BY <1>1, <1>2 DEF PlanInv, FromIndex, Listed
<1>6. OldOK'
  BY <1>1, <1>2, <1>3 DEF OldOK
<1>7. WrittenOK'
  <2>1. unsaved' \subseteq NewMarks /\ (Instant => unsaved' = {})
    BY <1>1, <1>5 DEF NewMarks
  <2>2. EntriesOK(written \cup unsaved)'
    BY <1>1, <1>2, <1>3, <2>1 DEF EntriesOK
  <2>. QED  BY <1>2, <1>3, <1>4, <2>1, <2>2 DEF WrittenOK
<1>8. PacksOK'
  <2>1. AllThere'
    BY <1>1, <1>2, <1>3 DEF AllThere
  <2>. QED  BY <1>1, <1>2, <1>3, <2>1 DEF PacksOK, RunInv
<1>9. KnownPacks'
  <2>1. \A d \in disk : d.id \in Listed \cup unref
    BY <1>1 DEF RunInv, KnownPacks
  <2>. QED  BY <1>1, <1>2, <1>3, <1>4, <2>1 DEF KnownPacks
<1>. QED  BY <1>1, <1>2, <1>3, <1>6, <1>7, <1>8, <1>9 DEF RunInv

LEMMA RunRebuild == RunInv /\ Rebuild => RunInv'
<1>. SUFFICES ASSUME RunInv, Rebuild  PROVE RunInv'
  OBVIOUS
<1>1. /\ UNCHANGED vars /\ step = "rebuild" /\ step' = "copy" /\ disk' = disk /\ old' = old /\ written' = written
      /\ unsaved' = unsaved \cup NewEntries(Processed) /\ copy' = ToCopy
      /\ rmData' = {p \in Removable(Processed) : TypeOf(plan[p].blobs) = "data"}
      /\ rmTree' = {p \in Removable(Processed) : TypeOf(plan[p].blobs) = "tree"}
  BY DEF Rebuild, Processed, ToCopy
<1>2. /\ PlanInv /\ PlanInv' /\ in' = in /\ pc' = pc /\ plan' = plan /\ rebuild' = rebuild /\ unref' = unref
      /\ Listed' = Listed /\ Instant' = Instant /\ Early' = Early /\ NewMarks' = NewMarks
      /\ Processed' = Processed /\ ToCopy' = ToCopy
      /\ NewEntries(Processed)' = NewEntries(Processed) /\ Removable(Processed)' = Removable(Processed)
      /\ \A p : DiskPack(p)' = DiskPack(p)
  BY <1>1, Executing
<1>3. pc = "planned" /\ AllThere /\ EntriesOK(written \cup unsaved)
  BY <1>1 DEF RunInv, PacksOK, WrittenOK
<1>4. OldOK'
  <2>1. OldOK
    BY DEF RunInv
  <2>2. Replaced' = Replaced
    BY <1>1, <1>2 DEF Replaced, Replaces
  <2>. QED  BY <1>1, <1>2, <2>1, <2>2 DEF OldOK
<1>5. WrittenOK'
  <2>1. EntriesOK(written \cup unsaved)'
    <3>1. NewPacks' = NewPacks
      BY <1>1 DEF NewPacks
    <3>. QED  BY <1>1, <1>2, <1>3, <3>1 DEF EntriesOK
  <2>2. copy' \subseteq ToCopy' /\ Replaces(written \cup unsaved, copy)'
    BY <1>1, <1>2 DEF Replaces
  <2>. QED  BY <1>1, <2>1, <2>2 DEF WrittenOK
<1>6. PacksOK'
  <2>1. AllThere'
    BY <1>1, <1>2, <1>3 DEF AllThere
  <2>2. ~Instant => \A p \in in.stored \ Listed : DiskPack(p) \in disk
    BY DEF RunInv, PacksOK
  <2>3. rmData' \cup rmTree' \subseteq Removable(Processed)
    BY <1>1
  <2>. QED  BY <1>1, <1>2, <2>1, <2>2, <2>3 DEF PacksOK
<1>7. KnownPacks'
  <2>1. Removable(Processed) \subseteq rmData' \cup rmTree'
    BY <1>1 DEF TypeOf
  <2>2. Instant => \A d \in disk : d.id \in Listed \/ NewEntry(d.id)
    BY <1>1 DEF RunInv, KnownPacks
  <2>3. \A d \in disk : NewEntry(d.id) => NewEntry(d.id)'
    BY <1>1 DEF NewEntry
  <2>. QED  BY <1>1, <1>2, <2>1, <2>2, <2>3 DEF KnownPacks
<1>. QED  BY <1>1, <1>2, <1>3, <1>4, <1>5, <1>6, <1>7 DEF RunInv

\* A pack written by a repacker has an id of its own.
LEMMA RunCopyBlobs == RunInv /\ CopyBlobs => RunInv'
<1>. SUFFICES ASSUME RunInv, CopyBlobs  PROVE RunInv'
  OBVIOUS
<1>1. /\ UNCHANGED vars /\ step = "copy" /\ step' = "copy" /\ old' = old /\ written' = written
      /\ rmData' = rmData /\ rmTree' = rmTree
  BY DEF CopyBlobs
<1>2. /\ PlanInv /\ PlanInv' /\ in' = in /\ pc' = pc /\ plan' = plan /\ rebuild' = rebuild /\ unref' = unref
      /\ Listed' = Listed /\ Instant' = Instant /\ Early' = Early /\ NewMarks' = NewMarks
      /\ Processed' = Processed /\ ToCopy' = ToCopy
      /\ NewEntries(Processed)' = NewEntries(Processed) /\ Removable(Processed)' = Removable(Processed)
      /\ \A p : DiskPack(p)' = DiskPack(p)
  BY <1>1, Executing
<1>3. PICK new \in SUBSET copy :
         /\ disk' = disk \cup {[id |-> new, blobs |-> new]}
         /\ unsaved' = unsaved \cup {Entry("packs", new, new)} /\ copy' = copy \ new
  BY DEF CopyBlobs
<1>4. /\ pc = "planned" /\ AllThere /\ EntriesOK(written \cup unsaved)
      /\ copy \subseteq ToCopy /\ Replaces(written \cup unsaved, copy)
      /\ rmData \cup rmTree \subseteq Removable(Processed)
      /\ ~Instant => \A p \in in.stored \ Listed : DiskPack(p) \in disk
  BY <1>1 DEF RunInv, PacksOK, WrittenOK
<1>5. new \in SUBSET Blob
  <2>1. \A p \in DOMAIN plan : ToSet(plan[p].blobs) \subseteq Blob
    <3>. TAKE p \in DOMAIN plan
    <3>1. plan[p].blobs \in Seq(Blob)
      BY <1>2, <1>4, PlanFacts DEF PlanInv
    <3>. QED  BY <3>1 DEF ToSet
  <2>2. ToCopy \subseteq Blob
    BY <2>1 DEF ToCopy, BlobsOf, WithTodo
  <2>. QED  BY <1>3, <1>4, <2>2
<1>6. OldOK'
  <2>1. OldOK
    BY DEF RunInv
  <2>2. Replaced' = Replaced
    BY <1>1, <1>2 DEF Replaced, Replaces
  <2>. QED  BY <1>1, <1>2, <2>1, <2>2 DEF OldOK
<1>7. WrittenOK'
  <2>1. EntriesOK(written \cup unsaved)'
    <3>1. NewPacks \cup {new} \subseteq NewPacks'
      BY <1>3, <1>5 DEF NewPacks
    <3>. QED  BY <1>1, <1>2, <1>3, <1>4, <3>1 DEF EntriesOK
  <2>2. Replaces(written \cup unsaved, copy)'
    <3>1. \A x \in new : Entry("packs", new, new).section = "packs" /\ x \in Entry("packs", new, new).blobs
      BY EntryFields
    <3>. QED  BY <1>1, <1>2, <1>3, <1>4, <3>1 DEF Replaces
  <2>. QED  BY <1>1, <1>2, <1>3, <1>4, <2>1, <2>2 DEF WrittenOK
<1>8. PacksOK'
  <2>1. AllThere'
    BY <1>2, <1>3, <1>4 DEF AllThere
  <2>. QED  BY <1>1, <1>2, <1>3, <1>4, <2>1 DEF PacksOK
<1>9. KnownPacks'
  <2>1. /\ Instant => \A d \in disk : d.id \in Listed \/ NewEntry(d.id)
        /\ \A p \in Removable(Processed) : p \in rmData \cup rmTree \/ IsGone(p)
    BY <1>1 DEF RunInv, KnownPacks
  <2>2. \A d \in disk : NewEntry(d.id) => NewEntry(d.id)'
    BY <1>1, <1>3 DEF NewEntry
  <2>3. NewEntry(new)'
    BY <1>3, <1>5 DEF NewEntry
  <2>4. Instant => \A d \in disk' : d.id \in Listed \/ NewEntry(d.id)'
    BY <1>3, <2>1, <2>2, <2>3
  <2>5. ASSUME NEW p \in Removable(Processed), IsGone(p)  PROVE IsGone(p)'
    <3>1. p \in DOMAIN plan /\ Found /\ FromIndex
      BY <1>2, <1>4 DEF Removable, Processed, PacksOfFile, PlanInv
    <3>2. p # new
      BY <1>5, <3>1, PlannedEntry
    <3>. QED  BY <1>3, <2>5, <3>2 DEF IsGone
  <2>. QED  BY <1>1, <1>2, <2>1, <2>4, <2>5 DEF KnownPacks
<1>. QED  BY <1>1, <1>2, <1>4, <1>6, <1>7, <1>8, <1>9 DEF RunInv

LEMMA RunSaveIndexer == RunInv /\ SaveIndexer => RunInv'
<1>. SUFFICES ASSUME RunInv, SaveIndexer  PROVE RunInv'
  OBVIOUS
<1>1. /\ UNCHANGED vars /\ step = "copy" /\ step' = "copy" /\ disk' = disk /\ old' = old /\ copy' = copy
      /\ rmData' = rmData /\ rmTree' = rmTree
  BY DEF SaveIndexer
<1>2. /\ PlanInv /\ PlanInv' /\ in' = in /\ pc' = pc /\ plan' = plan /\ rebuild' = rebuild /\ unref' = unref
      /\ Listed' = Listed /\ Instant' = Instant /\ Early' = Early /\ NewMarks' = NewMarks
      /\ Processed' = Processed /\ ToCopy' = ToCopy
      /\ NewEntries(Processed)' = NewEntries(Processed) /\ Removable(Processed)' = Removable(Processed)
      /\ \A p : DiskPack(p)' = DiskPack(p)
  BY <1>1, Executing
<1>3. written \subseteq written' /\ written' \cup unsaved' = written \cup unsaved
  BY DEF SaveIndexer
<1>4. OldOK'
  <2>1. OldOK
    BY DEF RunInv
  <2>2. Replaced => Replaced'
    BY <1>2, <1>3 DEF Replaced, Replaces
  <2>. QED  BY <1>1, <1>2, <2>1, <2>2 DEF OldOK
<1>5. WrittenOK'
  <2>1. EntriesOK(written \cup unsaved) /\ copy \subseteq ToCopy /\ Replaces(written \cup unsaved, copy)
    BY <1>1 DEF RunInv, WrittenOK
  <2>2. NewPacks' = NewPacks
    BY <1>1 DEF NewPacks
  <2>3. EntriesOK(written \cup unsaved)'
    BY <1>1, <1>2, <1>3, <2>1, <2>2 DEF EntriesOK
  <2>4. Replaces(written \cup unsaved, copy)'
    BY <1>1, <1>2, <1>3, <2>1 DEF Replaces
  <2>. QED  BY <1>1, <1>2, <2>1, <2>3, <2>4 DEF WrittenOK
<1>6. PacksOK'
  <2>1. PacksOK /\ AllThere
    BY <1>1 DEF RunInv, PacksOK
  <2>2. AllThere'
    BY <1>1, <1>2, <2>1 DEF AllThere
  <2>. QED  BY <1>1, <1>2, <2>1, <2>2 DEF PacksOK
<1>7. KnownPacks'
  <2>1. \A d \in disk : NewEntry(d.id)' = NewEntry(d.id)
    BY <1>3 DEF NewEntry
  <2>2. \A p : IsGone(p)' = IsGone(p)
    BY <1>1 DEF IsGone
  <2>. QED  BY <1>1, <1>2, <2>1, <2>2 DEF KnownPacks, RunInv
<1>. QED  BY <1>1, <1>2, <1>4, <1>5, <1>6, <1>7 DEF RunInv

LEMMA RunFinalize == RunInv /\ FinalizeRun => RunInv'
<1>. SUFFICES ASSUME RunInv, FinalizeRun  PROVE RunInv'
  OBVIOUS
<1>1. /\ UNCHANGED vars /\ step = "copy" /\ disk' = disk /\ old' = old /\ copy = {}
      /\ rmData' = rmData /\ rmTree' = rmTree /\ written' = written \cup unsaved /\ unsaved' = {}
      /\ step' = IF Early THEN "packs" ELSE "index"
  BY DEF FinalizeRun
<1>2. /\ PlanInv /\ PlanInv' /\ in' = in /\ pc' = pc /\ plan' = plan /\ rebuild' = rebuild /\ unref' = unref
      /\ Listed' = Listed /\ Instant' = Instant /\ Early' = Early /\ NewMarks' = NewMarks
      /\ Processed' = Processed /\ ToCopy' = ToCopy
      /\ NewEntries(Processed)' = NewEntries(Processed) /\ Removable(Processed)' = Removable(Processed)
      /\ \A p : DiskPack(p)' = DiskPack(p)
  BY <1>1, Executing
<1>3. Replaced'
  <2>1. Replaces(written \cup unsaved, {})
    BY <1>1 DEF RunInv, WrittenOK
  <2>. QED  BY <1>1, <1>2, <2>1 DEF Replaced, Replaces
<1>4. OldOK'
  BY <1>1, <1>2, <1>3 DEF OldOK, RunInv
<1>5. WrittenOK'
  <2>1. EntriesOK(written \cup unsaved)
    BY <1>1 DEF RunInv, WrittenOK
  <2>2. NewPacks' = NewPacks
    BY <1>1 DEF NewPacks
  <2>3. EntriesOK(written \cup unsaved)'
    BY <1>1, <1>2, <2>1, <2>2 DEF EntriesOK
  <2>. QED  BY <1>1, <1>3, <2>3 DEF WrittenOK
<1>6. PacksOK'
  <2>1. PacksOK /\ AllThere
    BY <1>1 DEF RunInv, PacksOK
  <2>2. AllThere'
    BY <1>1, <1>2, <2>1 DEF AllThere
  <2>. QED  BY <1>1, <1>2, <2>1, <2>2 DEF PacksOK
<1>7. KnownPacks'
  <2>1. \A d \in disk : NewEntry(d.id)' = NewEntry(d.id)
    BY <1>1 DEF NewEntry
  <2>2. \A p : IsGone(p)' = IsGone(p)
    BY <1>1 DEF IsGone
  <2>. QED  BY <1>1, <1>2, <2>1, <2>2 DEF KnownPacks, RunInv
<1>. QED  BY <1>1, <1>2, <1>4, <1>5, <1>6, <1>7 DEF RunInv

LEMMA RunRemoveIndex == RunInv /\ RemoveIndex => RunInv'
<1>. SUFFICES ASSUME RunInv, RemoveIndex  PROVE RunInv'
  OBVIOUS
<1>1. /\ UNCHANGED vars /\ step \in {"early", "index"} /\ disk' = disk /\ written' = written /\ unsaved' = unsaved
      /\ rmData' = rmData /\ rmTree' = rmTree /\ copy' = copy
      /\ \/ \E i \in old \cap rebuild : old' = old \ {i} /\ step' = step
         \/ /\ old \cap rebuild = {} /\ old' = old
            /\ step' = IF step = "early" THEN "rebuild" ELSE "packs"
  BY DEF RemoveIndex
<1>2. /\ PlanInv /\ PlanInv' /\ in' = in /\ pc' = pc /\ plan' = plan /\ rebuild' = rebuild /\ unref' = unref
      /\ Listed' = Listed /\ Instant' = Instant /\ Early' = Early /\ NewMarks' = NewMarks
      /\ Processed' = Processed /\ ToCopy' = ToCopy
      /\ NewEntries(Processed)' = NewEntries(Processed) /\ Removable(Processed)' = Removable(Processed)
      /\ \A p : DiskPack(p)' = DiskPack(p)
  BY <1>1, Executing
<1>3. /\ pc = "planned" /\ OldOK /\ WrittenOK /\ PacksOK /\ KnownPacks /\ AllThere
      /\ step = "early" => Early
  BY <1>1 DEF RunInv, OldOK, PacksOK
<1>4. Replaced' = Replaced
  BY <1>1, <1>2 DEF Replaced, Replaces
<1>5. OldOK'
  <2>1. old' \subseteq DOMAIN in.files /\ DOMAIN in.files \ rebuild \subseteq old'
    BY <1>1, <1>3 DEF OldOK
  <2>2. step' \in {"early", "index", "rebuild", "packs"} /\ (step' \in {"rebuild", "packs"} => old' \cap rebuild = {})
    BY <1>1
  <2>3. step' \in {"early", "rebuild"} => Early
    BY <1>1, <1>3
  <2>4. Early \/ Replaced
    BY <1>1, <1>3 DEF WrittenOK
  <2>. QED  BY <1>2, <1>4, <2>1, <2>2, <2>3, <2>4 DEF OldOK
<1>6. WrittenOK'
  <2>1. EntriesOK(written \cup unsaved) /\ (step = "index" => unsaved = {} /\ Replaced)
    BY <1>1, <1>3 DEF WrittenOK
  <2>2. NewPacks' = NewPacks
    BY <1>1 DEF NewPacks
  <2>3. EntriesOK(written \cup unsaved)'
    BY <1>1, <1>2, <2>1, <2>2 DEF EntriesOK
  <2>. QED  BY <1>1, <1>2, <1>4, <2>1, <2>3 DEF WrittenOK
<1>7. PacksOK'
  <2>1. AllThere'
    BY <1>1, <1>2, <1>3 DEF AllThere
  <2>. QED  BY <1>1, <1>2, <1>3, <2>1 DEF PacksOK
<1>8. KnownPacks'
  <2>1. \A d \in disk : NewEntry(d.id)' = NewEntry(d.id)
    BY <1>1 DEF NewEntry
  <2>2. \A p : IsGone(p)' = IsGone(p)
    BY <1>1 DEF IsGone
  <2>. QED  BY <1>1, <1>2, <1>3, <2>1, <2>2 DEF KnownPacks
<1>. QED  BY <1>1, <1>2, <1>3, <1>5, <1>6, <1>7, <1>8 DEF RunInv

\* Only packs that the new index does not tell of are removed.
LEMMA RemoveOne ==
  ASSUME RunInv, step = "packs", step' = "packs", UNCHANGED vars, old' = old, written' = written,
         unsaved' = unsaved, NEW p \in rmData \cup rmTree, RemovePack(p),
         rmData' \cup rmTree' = (rmData \cup rmTree) \ {p} \/ rmData' \cup rmTree' = rmData \cup rmTree
  PROVE  RunInv'
<1>1. UNCHANGED vars /\ disk' = {d \in disk : d.id # p}
  BY DEF RemovePack
<1>2. /\ PlanInv /\ PlanInv' /\ in' = in /\ pc' = pc /\ plan' = plan /\ rebuild' = rebuild /\ unref' = unref
      /\ Listed' = Listed /\ Instant' = Instant /\ Early' = Early /\ NewMarks' = NewMarks
      /\ Processed' = Processed /\ ToCopy' = ToCopy
      /\ NewEntries(Processed)' = NewEntries(Processed) /\ Removable(Processed)' = Removable(Processed)
      /\ \A q : DiskPack(q)' = DiskPack(q)
  BY <1>1, Executing
<1>3. /\ pc = "planned" /\ OldOK /\ WrittenOK /\ PacksOK /\ KnownPacks
      /\ p \in Removable(Processed) /\ Replaced /\ old \cap rebuild = {} /\ unsaved = {}
  BY DEF RunInv, PacksOK, WrittenOK, OldOK
<1>4. p \in Listed /\ p \in in.stored /\ p \notin SUBSET Blob
  <2>1. p \in DOMAIN plan /\ Found /\ FromIndex
    BY <1>2, <1>3 DEF Removable, Processed, PacksOfFile, PlanInv
  <2>. QED  BY <2>1, PlannedEntry
<1>5. Replaced' = Replaced
  BY <1>2 DEF Replaced, Replaces
<1>6. OldOK'
  BY <1>2, <1>3, <1>5 DEF OldOK
<1>7. WrittenOK'
  <2>1. EntriesOK(written \cup unsaved)
    BY <1>3 DEF WrittenOK
  <2>2. NewPacks' = NewPacks
    BY <1>1, <1>4 DEF NewPacks
  <2>3. EntriesOK(written \cup unsaved)'
    BY <1>2, <2>1, <2>2 DEF EntriesOK
  <2>. QED  BY <1>2, <1>3, <1>5, <2>3 DEF WrittenOK
<1>8. PacksOK'
  <2>1. \A q : DiskPack(q).id = q
    BY DEF DiskPack
  <2>2. \A q \in Listed \ Removable(Processed) : DiskPack(q) \in disk
    BY <1>3 DEF PacksOK, AllThere, MayGo
  <2>3. MayGo'
    BY <1>1, <1>2, <1>3, <1>5, <2>1, <2>2 DEF MayGo
  <2>4. ~Instant => \A q \in in.stored \ Listed : DiskPack(q) \in disk'
    BY <1>1, <1>3, <1>4, <2>1 DEF PacksOK
  <2>5. rmData' \cup rmTree' \subseteq Removable(Processed)
    BY <1>3 DEF PacksOK
  <2>. QED  BY <1>2, <2>3, <2>4, <2>5 DEF PacksOK
<1>9. KnownPacks'
  <2>1. /\ Instant => \A d \in disk : d.id \in Listed \/ NewEntry(d.id)
        /\ \A q \in Removable(Processed) : q \in rmData \cup rmTree \/ IsGone(q)
    BY <1>3 DEF KnownPacks
  <2>2. \A d \in disk : NewEntry(d.id)' = NewEntry(d.id)
    BY DEF NewEntry
  <2>3. IsGone(p)' /\ \A q : IsGone(q) => IsGone(q)'
    BY <1>1 DEF IsGone
  <2>4. \A q \in Removable(Processed) : q \in rmData' \cup rmTree' \/ IsGone(q)'
    BY <2>1, <2>3
  <2>. QED  BY <1>1, <1>2, <2>1, <2>2, <2>4 DEF KnownPacks
<1>. QED  BY <1>2, <1>3, <1>6, <1>7, <1>8, <1>9 DEF RunInv

LEMMA RunRemovePacks == RunInv /\ RemovePacks => RunInv'
<1>. SUFFICES ASSUME RunInv, RemovePacks  PROVE RunInv'
  OBVIOUS
<1>1. /\ UNCHANGED vars /\ step = "packs" /\ old' = old /\ written' = written /\ unsaved' = unsaved /\ copy' = copy
  BY DEF RemovePacks
<1>2. CASE \E p \in rmData : RemovePack(p) /\ rmData' = rmData \ {p} /\ UNCHANGED <<rmTree, step>>
  <2>1. PICK p \in rmData : RemovePack(p) /\ rmData' = rmData \ {p} /\ rmTree' = rmTree /\ step' = step
    BY <1>2
  <2>2. rmData' \cup rmTree' = (rmData \cup rmTree) \ {p} \/ rmData' \cup rmTree' = rmData \cup rmTree
    BY <2>1
  <2>. QED  BY <1>1, <2>1, <2>2, RemoveOne
<1>3. CASE \E p \in rmTree : RemovePack(p) /\ rmTree' = rmTree \ {p} /\ UNCHANGED <<rmData, step>>
  <2>1. PICK p \in rmTree : RemovePack(p) /\ rmTree' = rmTree \ {p} /\ rmData' = rmData /\ step' = step
    BY <1>3
  <2>2. rmData' \cup rmTree' = (rmData \cup rmTree) \ {p} \/ rmData' \cup rmTree' = rmData \cup rmTree
    BY <2>1
  <2>. QED  BY <1>1, <2>1, <2>2, RemoveOne
<1>4. CASE rmData = {} /\ rmTree = {} /\ step' = "done" /\ UNCHANGED <<disk, rmData, rmTree>>
  <2>1. /\ PlanInv /\ PlanInv' /\ in' = in /\ pc' = pc /\ plan' = plan /\ rebuild' = rebuild /\ unref' = unref
        /\ Listed' = Listed /\ Instant' = Instant /\ Early' = Early /\ NewMarks' = NewMarks
        /\ Processed' = Processed /\ ToCopy' = ToCopy
        /\ NewEntries(Processed)' = NewEntries(Processed) /\ Removable(Processed)' = Removable(Processed)
        /\ \A p : DiskPack(p)' = DiskPack(p)
    BY <1>1, Executing
  <2>2. /\ pc = "planned" /\ OldOK /\ WrittenOK /\ PacksOK /\ KnownPacks
    BY <1>1 DEF RunInv
  <2>3. Replaced' = Replaced /\ NewPacks' = NewPacks /\ (\A p : IsGone(p)' = IsGone(p))
        /\ \A d \in disk : NewEntry(d.id)' = NewEntry(d.id)
    BY <1>1, <1>4, <2>1 DEF Replaced, Replaces, NewPacks, IsGone, NewEntry
  <2>4. OldOK'
    BY <1>1, <1>4, <2>1, <2>2, <2>3 DEF OldOK
  <2>5. WrittenOK'
    <3>1. EntriesOK(written \cup unsaved)'
      BY <1>1, <2>1, <2>2, <2>3 DEF EntriesOK, WrittenOK
    <3>. QED  BY <1>1, <1>4, <2>1, <2>2, <2>3, <3>1 DEF WrittenOK
  <2>6. PacksOK'
    <3>1. (AllThere \/ MayGo)'
      BY <1>1, <1>4, <2>1, <2>2, <2>3 DEF PacksOK, AllThere, MayGo
    <3>. QED  BY <1>4, <2>1, <2>2, <3>1 DEF PacksOK
  <2>7. KnownPacks'
    BY <1>1, <1>4, <2>1, <2>2, <2>3 DEF KnownPacks
  <2>. QED  BY <1>4, <2>1, <2>2, <2>4, <2>5, <2>6, <2>7 DEF RunInv
<1>. QED  BY <1>2, <1>3, <1>4 DEF RemovePacks

LEMMA RunStop == RunInv /\ Stop => RunInv'
<1>. SUFFICES ASSUME RunInv, Stop  PROVE RunInv'
  OBVIOUS
<1>1. /\ UNCHANGED vars /\ step # "plan" /\ step' = "stopped" /\ disk' = disk /\ old' = old /\ written' = written
      /\ unsaved' = {}
  BY DEF Stop
<1>2. /\ PlanInv /\ PlanInv' /\ in' = in /\ pc' = pc /\ plan' = plan /\ rebuild' = rebuild /\ unref' = unref
      /\ Listed' = Listed /\ Instant' = Instant /\ Early' = Early /\ NewMarks' = NewMarks
      /\ Processed' = Processed /\ ToCopy' = ToCopy
      /\ NewEntries(Processed)' = NewEntries(Processed) /\ Removable(Processed)' = Removable(Processed)
      /\ \A p : DiskPack(p)' = DiskPack(p)
  BY <1>1, Executing
<1>3. /\ pc = "planned" /\ OldOK /\ WrittenOK /\ PacksOK
  BY <1>1 DEF RunInv
<1>4. Replaced' = Replaced /\ NewPacks' = NewPacks
  BY <1>1, <1>2 DEF Replaced, Replaces, NewPacks
<1>5. OldOK'
  BY <1>1, <1>2, <1>3, <1>4 DEF OldOK
<1>6. WrittenOK'
  <2>1. EntriesOK(written \cup unsaved)'
    BY <1>1, <1>2, <1>3, <1>4 DEF EntriesOK, WrittenOK
  <2>. QED  BY <1>1, <2>1 DEF WrittenOK
<1>7. PacksOK'
  <2>1. (AllThere \/ MayGo)'
    BY <1>1, <1>2, <1>3, <1>4 DEF PacksOK, AllThere, MayGo
  <2>. QED  BY <1>1, <1>2, <1>3, <2>1 DEF PacksOK
<1>8. KnownPacks'
  BY <1>1 DEF KnownPacks
<1>. QED  BY <1>1, <1>2, <1>3, <1>5, <1>6, <1>7, <1>8 DEF RunInv

LEMMA RunStays == RunInv /\ UNCHANGED <<vars, runVars>> => RunInv'
<1>. SUFFICES ASSUME RunInv, UNCHANGED <<vars, runVars>>  PROVE RunInv'
  OBVIOUS
<1>1. /\ UNCHANGED vars /\ step' = step /\ disk' = disk /\ old' = old /\ written' = written /\ unsaved' = unsaved
      /\ copy' = copy /\ rmData' = rmData /\ rmTree' = rmTree
  BY DEF runVars
<1>2. /\ PlanInv /\ PlanInv' /\ in' = in /\ pc' = pc /\ plan' = plan /\ rebuild' = rebuild /\ unref' = unref
      /\ Listed' = Listed /\ Instant' = Instant /\ Early' = Early /\ NewMarks' = NewMarks
      /\ Processed' = Processed /\ ToCopy' = ToCopy
      /\ NewEntries(Processed)' = NewEntries(Processed) /\ Removable(Processed)' = Removable(Processed)
      /\ \A p : DiskPack(p)' = DiskPack(p)
  BY <1>1, Executing
<1>3. /\ OldOK /\ WrittenOK /\ PacksOK /\ KnownPacks
  BY DEF RunInv
<1>4. Replaced' = Replaced /\ NewPacks' = NewPacks /\ (\A p : IsGone(p)' = IsGone(p))
      /\ \A d \in disk : NewEntry(d.id)' = NewEntry(d.id)
  BY <1>1, <1>2 DEF Replaced, Replaces, NewPacks, IsGone, NewEntry
<1>5. OldOK'
  BY <1>1, <1>2, <1>3, <1>4 DEF OldOK
<1>6. WrittenOK'
  <2>1. step # "plan" => EntriesOK(written \cup unsaved)'
    BY <1>1, <1>2, <1>3, <1>4 DEF EntriesOK, WrittenOK
  <2>2. step = "copy" => Replaces(written \cup unsaved, copy)'
    BY <1>1, <1>2, <1>3 DEF Replaces, WrittenOK
  <2>. QED  BY <1>1, <1>2, <1>3, <1>4, <2>1, <2>2 DEF WrittenOK
<1>7. PacksOK'
  <2>1. (AllThere \/ MayGo)' /\ AllThere' = AllThere
    BY <1>1, <1>2, <1>3, <1>4 DEF PacksOK, AllThere, MayGo
  <2>. QED  BY <1>1, <1>2, <1>3, <2>1 DEF PacksOK
<1>8. KnownPacks'
  BY <1>1, <1>2, <1>3, <1>4 DEF KnownPacks
<1>. QED  BY <1>1, <1>2, <1>5, <1>6, <1>7, <1>8 DEF RunInv

LEMMA RunStep == RunInv /\ [RunNext]_<<vars, runVars>> => RunInv'
  BY RunPlan, RunDeleteUnref, RunStartRun, RunRebuild, RunCopyBlobs, RunSaveIndexer, RunFinalize,
     RunRemoveIndex, RunRemovePacks, RunStop, RunStays DEF RunNext

-----------------------------------------------------------------------------
(***************************************************************************)
(* What the invariant says of the repository                               *)
(***************************************************************************)
LEMMA IndexMembers ==
  \A e : e \in IndexEntries <=> (\E i \in old : e \in FileEntries(i)) \/ e \in written
  BY DEF IndexEntries

\* Packs that some index file still lists, or a new entry, are there.
LEMMA EntryOnDisk ==
  ASSUME RunInv, NEW e \in IndexEntries
  PROVE  \E d \in disk : d.id = e.id /\ e.blobs \subseteq d.blobs
<1>1. /\ PlanInv /\ Found /\ OldOK /\ WrittenOK /\ PacksOK
      /\ AllThere \/ (MayGo /\ pc = "planned")
  BY DEF RunInv, PlanInv, PacksOK
<1>2. ASSUME NEW i \in old, e \in FileEntries(i)  PROVE DiskPack(e.id) \in disk /\ e.blobs \subseteq DiskPack(e.id).blobs
  <2>1. i \in DOMAIN in.files
    BY <1>1 DEF OldOK
  <2>2. PICK s \in SectionName : \E g \in Section(s) : e = EntryFor(s, g)
    BY <1>1, <1>2, <2>1, FileEntriesFacts
  <2>3. PICK g \in Section(s) : e = EntryFor(s, g)
    BY <2>2
  <2>4. e.id = g.entry.id /\ e.blobs = ToSet(g.entry.blobs)
    BY <2>3, EntryFields DEF EntryFor
  <2>5. e.id \in Listed /\ e.blobs \subseteq DiskPack(e.id).blobs
    BY <1>1, <2>4, ListedEntries, DiskBlobs
  <2>6. CASE AllThere
    BY <2>5, <2>6 DEF AllThere
  <2>7. CASE MayGo /\ pc = "planned"
    <3>1. i \in DOMAIN in.files \ rebuild
      BY <2>1, <2>7 DEF MayGo
    <3>2. plan[e.id].file = i
      BY <1>1, <1>2, <2>7, <3>1, UntouchedFiles
    <3>3. e.id \notin Removable(Processed)
      BY <3>1, <3>2 DEF Removable, Processed, PacksOfFile
    <3>. QED  BY <2>5, <2>7, <3>3 DEF MayGo
  <2>. QED  BY <1>1, <2>5, <2>6, <2>7
<1>3. ASSUME e \in written  PROVE \E d \in disk : d.id = e.id /\ e.blobs \subseteq d.blobs
  <2>1. step # "plan" /\ e \in NewMarks \cup NewEntries(Processed) \cup {Entry("packs", new, new) : new \in NewPacks}
    BY <1>1, <1>3 DEF WrittenOK, EntriesOK
  <2>2. CASE e \in NewMarks
    <3>1. ~Instant /\ \E p \in in.stored \ Listed : e = Entry("packs_to_delete", p, {})
      BY <2>2 DEF NewMarks
    <3>2. PICK p \in in.stored \ Listed : e = Entry("packs_to_delete", p, {})
      BY <3>1
    <3>3. DiskPack(p) \in disk /\ DiskPack(p).id = p
      BY <1>1, <3>1 DEF PacksOK, DiskPack
    <3>. QED  BY <3>2, <3>3, EntryFields
  <2>3. CASE e \in NewEntries(Processed)
    <3>1. PICK p \in Processed : /\ e.id = p /\ e.blobs = ToSet(plan[p].blobs)
                                  /\ p \notin Removable(Processed)
      <4>1. CASE \E p \in Processed \cap WithTodo({"Keep", "Recover"}) : e = Entry("packs", p, ToSet(plan[p].blobs))
        <5>1. PICK p \in Processed \cap WithTodo({"Keep", "Recover"}) : e = Entry("packs", p, ToSet(plan[p].blobs))
          BY <4>1
        <5>2. p \notin Removable(Processed)
          BY <5>1 DEF Removable, WithTodo
        <5>. QED  BY <5>1, <5>2, EntryFields
      <4>2. CASE ~Instant /\ \E p \in Processed \ WithTodo({"Keep", "Recover", "Delete"}) :
                                 e = Entry("packs_to_delete", p, ToSet(plan[p].blobs))
        <5>1. PICK p \in Processed \ WithTodo({"Keep", "Recover", "Delete"}) :
                     e = Entry("packs_to_delete", p, ToSet(plan[p].blobs))
          BY <4>2
        <5>2. p \notin Removable(Processed)
          BY <4>2, <5>1 DEF Removable, WithTodo
        <5>. QED  BY <5>1, <5>2, EntryFields
      <4>. QED  BY <2>3, <4>1, <4>2 DEF NewEntries
    <3>2. p \in DOMAIN plan /\ FromIndex
      BY <1>1, <2>1 DEF Processed, PacksOfFile, PlanInv, RunInv
    <3>3. p \in Listed /\ DiskPack(p).id = p /\ ToSet(plan[p].blobs) \subseteq DiskPack(p).blobs
      BY <1>1, <3>2, PlannedEntry
    <3>4. DiskPack(p) \in disk
      BY <1>1, <3>1, <3>3 DEF AllThere, MayGo
    <3>. QED  BY <3>1, <3>3, <3>4
  <2>4. CASE e \in {Entry("packs", new, new) : new \in NewPacks}
    <3>1. PICK new \in NewPacks : e = Entry("packs", new, new)
      BY <2>4
    <3>. QED  BY <3>1, EntryFields DEF NewPacks
  <2>. QED  BY <2>1, <2>2, <2>3, <2>4
<1>4. (\E i \in old : e \in FileEntries(i)) \/ e \in written
  BY IndexMembers
<1>5. DiskPack(e.id).id = e.id
  BY DEF DiskPack
<1>. QED  BY <1>2, <1>3, <1>4, <1>5

\* Once the new entries are written, each used blob is listed as in use.
LEMMA ListedOnceReplaced ==
  ASSUME RunInv, pc = "planned", Replaced, NEW x \in in.used
  PROVE  \E e \in IndexEntries : e.section = "packs" /\ x \in e.blobs
<1>1. /\ PlanInv /\ Found /\ FromIndex /\ undecided = {} /\ Candidates = {} /\ Served(x)
      /\ keepIds = in.used \ BlobsOf(WithTodo({"Keep", "Recover"}))
      /\ DOMAIN in.files \ rebuild \subseteq old
      /\ \A p \in DOMAIN plan : PackOK(p)
      /\ \A i \in DOMAIN in.files \ rebuild : ~MustModify(i)
  BY DEF RunInv, PlanInv, OldOK, Candidates
<1>2. CASE \E p \in DOMAIN plan : x \in ToSet(plan[p].blobs) /\ plan[p].todo \in {"Keep", "Recover"}
  <2>1. PICK p \in DOMAIN plan : x \in ToSet(plan[p].blobs) /\ plan[p].todo \in {"Keep", "Recover"}
    BY <1>2
  <2>2. CASE p \in Processed
    <3>1. Entry("packs", p, ToSet(plan[p].blobs)) \in NewEntries(Processed)
      BY <2>1, <2>2 DEF NewEntries, WithTodo
    <3>2. Entry("packs", p, ToSet(plan[p].blobs)) \in IndexEntries
      BY <3>1, IndexMembers DEF Replaced, Replaces
    <3>. QED  BY <2>1, <3>2, EntryFields
  <2>3. CASE p \notin Processed
    <3>1. /\ plan[p].file \in DOMAIN in.files
          /\ Entry(SectionNameOf(p), p, ToSet(plan[p].blobs)) \in FileEntries(plan[p].file)
      BY <1>1, PlannedEntry
    <3>2. plan[p].file \in DOMAIN in.files \ rebuild
      BY <2>3, <3>1 DEF Processed, PacksOfFile
    <3>3. Stays(p)
      BY <1>1, <3>2 DEF MustModify, PacksOfFile
    <3>4. plan[p].todo = "Keep"
      BY <2>1, <3>3 DEF Stays
    <3>5. ~plan[p].mark
      BY <1>1, <3>4 DEF PackOK
    <3>6. SectionNameOf(p) = "packs"
      BY <1>1, <3>5, PlanFacts DEF SectionNameOf
    <3>7. Entry("packs", p, ToSet(plan[p].blobs)) \in IndexEntries
      BY <1>1, <3>1, <3>2, <3>6, IndexMembers
    <3>. QED  BY <2>1, <3>7, EntryFields
  <2>. QED  BY <2>2, <2>3
<1>3. CASE ~\E p \in DOMAIN plan : x \in ToSet(plan[p].blobs) /\ plan[p].todo \in {"Keep", "Recover"}
  <2>1. PICK p \in DOMAIN plan : x \in ToSet(plan[p].blobs) /\ plan[p].todo = "Repack"
    BY <1>1, <1>3 DEF Served
  <2>2. x \in keepIds
    BY <1>1, <1>3 DEF BlobsOf, WithTodo
  <2>3. plan[p].file \in rebuild
    <3>1. plan[p].file \in DOMAIN in.files
      BY <1>1, PlannedEntry
    <3>2. ~Stays(p)
      BY <2>1 DEF Stays
    <3>. QED  BY <1>1, <3>1, <3>2 DEF MustModify, PacksOfFile
  <2>4. x \in ToCopy
    BY <2>1, <2>2, <2>3 DEF ToCopy, BlobsOf, Processed, PacksOfFile, WithTodo
  <2>. QED  BY <2>4, IndexMembers DEF Replaced, Replaces
<1>. QED  BY <1>2, <1>3

\* As long as nothing is removed, each used blob is in a listed pack.
LEMMA ListedAtFirst ==
  ASSUME RunInv, pc \notin {"new", "count", "error"}, NEW x \in in.used
  PROVE  /\ AllThere => OnDisk(x)
         /\ old = DOMAIN in.files => \E e \in IndexEntries : e.section \in SectionName /\ x \in e.blobs
<1>1. PlanInv /\ Found /\ FromIndex /\ in.used \subseteq BlobsOf(DOMAIN plan)
  BY DEF RunInv, PlanInv
<1>2. PICK p \in DOMAIN plan : x \in ToSet(plan[p].blobs)
  BY <1>1 DEF BlobsOf
<1>3. /\ p \in Listed /\ ToSet(plan[p].blobs) \subseteq DiskPack(p).blobs
      /\ plan[p].file \in DOMAIN in.files /\ SectionNameOf(p) \in SectionName
      /\ Entry(SectionNameOf(p), p, ToSet(plan[p].blobs)) \in FileEntries(plan[p].file)
  BY <1>1, PlannedEntry, PlanFacts
<1>4. AllThere => OnDisk(x)
  BY <1>2, <1>3 DEF AllThere, OnDisk
<1>5. ASSUME old = DOMAIN in.files
      PROVE  \E e \in IndexEntries : e.section \in SectionName /\ x \in e.blobs
  <2>1. Entry(SectionNameOf(p), p, ToSet(plan[p].blobs)) \in IndexEntries
    BY <1>3, <1>5, IndexMembers
  <2>. QED  BY <1>2, <1>3, <2>1, EntryFields
<1>. QED  BY <1>4, <1>5

LEMMA RunKeepsBlobs == RunInv => UsedBlobsKept
<1>. SUFFICES ASSUME RunInv  PROVE UsedBlobsKept
  OBVIOUS
<1>1. EntriesExist
  BY EntryOnDisk DEF EntriesExist
<1>2. ASSUME NEW x, NEW sections, \E e \in IndexEntries : e.section \in sections /\ x \in e.blobs
      PROVE  ListedAs(x, sections) /\ OnDisk(x)
  BY <1>2, EntryOnDisk DEF ListedAs, OnDisk
<1>3. UsedBlobsLoadable
  <2>. SUFFICES ASSUME step = "done", NEW x \in in.used  PROVE ListedAs(x, {"packs"})
    BY DEF UsedBlobsLoadable
  <2>1. pc = "planned" /\ Replaced
    BY DEF RunInv, WrittenOK
  <2>. QED  BY <1>2, <2>1, ListedOnceReplaced
<1>4. UsedBlobsSurvive
  <2>. SUFFICES ASSUME pc \notin {"new", "count", "error"}, NEW x \in in.used
                PROVE  IF Early THEN OnDisk(x) ELSE ListedAs(x, SectionName)
    BY DEF UsedBlobsSurvive
  <2>1. CASE Replaced /\ pc = "planned"
    <3>1. \E e \in IndexEntries : e.section = "packs" /\ x \in e.blobs
      BY <2>1, ListedOnceReplaced
    <3>2. "packs" \in SectionName
      BY DEF SectionName
    <3>. QED  BY <1>2, <3>1, <3>2
  <2>2. CASE ~(Replaced /\ pc = "planned")
    <3>1. AllThere
      BY <2>2 DEF RunInv, PacksOK, MayGo
    <3>2. old = DOMAIN in.files \/ Early
      BY <2>2 DEF RunInv, OldOK
    <3>. QED  BY <1>2, <3>1, <3>2, ListedAtFirst
  <2>. QED  BY <2>1, <2>2
<1>. QED  BY <1>1, <1>3, <1>4 DEF UsedBlobsKept

LEMMA RunLeavesNothing == RunInv => InstantLeavesNothing
<1>. SUFFICES ASSUME RunInv, step = "done", Instant
              PROVE  /\ \A e \in IndexEntries : e.section = "packs"
                     /\ \A d \in disk : \E e \in IndexEntries : e.id = d.id
  BY DEF InstantLeavesNothing
<1>1. /\ PlanInv /\ pc = "planned" /\ Found /\ FromIndex /\ Replaced /\ unsaved = {} /\ old \cap rebuild = {}
      /\ old \subseteq DOMAIN in.files /\ DOMAIN in.files \ rebuild \subseteq old /\ EntriesOK(written)
      /\ \A p \in DOMAIN plan : PackOK(p)
      /\ \A i \in DOMAIN in.files \ rebuild : ~MustModify(i)
      /\ \A d \in disk : d.id \in Listed \/ NewEntry(d.id)
      /\ \A p \in Removable(Processed) : IsGone(p)
  <2>1. written \cup unsaved = written
    BY DEF RunInv, WrittenOK
  <2>. QED  BY <2>1 DEF RunInv, PlanInv, OldOK, WrittenOK, KnownPacks
<1>2. ASSUME NEW e \in IndexEntries  PROVE e.section = "packs"
  <2>1. CASE \E i \in old : e \in FileEntries(i)
    <3>1. PICK i \in DOMAIN in.files \ rebuild : e \in FileEntries(i)
      BY <1>1, <2>1
    <3>2. e.id \in DOMAIN plan /\ Stays(e.id) /\ e.section = SectionNameOf(e.id)
      BY <1>1, <3>1, UntouchedFiles, EntryFields
    <3>3. plan[e.id].todo = "Keep"
      BY <3>2 DEF Stays, Instant
    <3>4. ~plan[e.id].mark
      BY <1>1, <3>2, <3>3 DEF PackOK
    <3>. QED  BY <1>1, <3>2, <3>4, PlanFacts DEF SectionNameOf
  <2>2. CASE e \in written
    <3>1. NewMarks = {}
      BY DEF NewMarks
    <3>2. \A f \in NewEntries(Processed) : f.section = "packs"
      BY EntryFields DEF NewEntries
    <3>. QED  BY <1>1, <2>2, <3>1, <3>2, EntryFields DEF EntriesOK
  <2>. QED  BY <2>1, <2>2, IndexMembers
<1>3. ASSUME NEW d \in disk  PROVE \E e \in IndexEntries : e.id = d.id
  <2>1. CASE NewEntry(d.id)
    BY <1>1, <2>1, EntryFields, IndexMembers DEF NewEntry
  <2>2. CASE d.id \in Listed
    <3>. DEFINE p == d.id
    <3>1. p \in DOMAIN plan /\ p \notin Removable(Processed)
      BY <1>1, <2>2 DEF FromIndex, Listed, IsGone
    <3>2. CASE p \in Processed
      <4>1. p \in WithTodo({"Keep", "Recover"})
        BY <3>1, <3>2 DEF Removable
      <4>2. Entry("packs", p, ToSet(plan[p].blobs)) \in IndexEntries
        BY <1>1, <3>2, <4>1, IndexMembers DEF NewEntries, Replaced, Replaces
      <4>. QED  BY <4>2, EntryFields
    <3>3. CASE p \notin Processed
      <4>1. /\ plan[p].file \in DOMAIN in.files
            /\ Entry(SectionNameOf(p), p, ToSet(plan[p].blobs)) \in FileEntries(plan[p].file)
        BY <1>1, <3>1, PlannedEntry
      <4>2. plan[p].file \in old
        BY <1>1, <3>1, <3>3, <4>1 DEF Processed, PacksOfFile
      <4>3. Entry(SectionNameOf(p), p, ToSet(plan[p].blobs)) \in IndexEntries
        BY <4>1, <4>2, IndexMembers
      <4>. QED  BY <4>3, EntryFields
    <3>. QED  BY <3>2, <3>3
  <2>. QED  BY <1>1, <2>1, <2>2
<1>. QED  BY <1>2, <1>3

-----------------------------------------------------------------------------
(***************************************************************************)
(* Sums of lengths                                                         *)
(***************************************************************************)
LEMMA SumSteps ==
  ASSUME NEW n \in Nat, NEW f \in [1 .. n -> Nat]
  PROVE  \E g \in [0 .. n -> Nat] : /\ g[0] = 0 /\ \A i \in 1 .. n : g[i] = g[i - 1] + f[i]
                                    /\ SumTo(f, n) = g[n]
<1>. DEFINE rule == [is \in Nat \X Nat |-> IF is[1] \in 1 .. n THEN is[2] + f[is[1]] ELSE 0]
            F(g) == [k \in 0 .. n |-> IF k = 0 THEN 0 ELSE g[k - 1] + f[k]]
            first == CHOOSE g : g = F(g)
<1>1. rule \in [Nat \X Nat -> Nat]
  OBVIOUS
<1>2. PICK g \in [0 .. n -> Nat] : g[0] = 0 /\ \A i \in 1 .. n : g[i] = rule[<<i, g[i - 1]>>]
  <2>. DEFINE X == Nat
              none == 0
  <2>1. none \in X /\ rule \in [Nat \X X -> X]
    BY <1>1
  <2>. HIDE DEF rule, X, none
  <2>2. \E g \in [0 .. n -> X] : IsIteration(g, none, rule, n)
    BY <2>1, IterationExists
  <2>. QED  BY <2>2 DEF none, X, IsIteration
<1>3. \A i \in 1 .. n : g[i] = g[i - 1] + f[i]
  <2>. TAKE i \in 1 .. n
  <2>1. i \in Nat /\ i - 1 \in 0 .. n
    OBVIOUS
  <2>2. g[i - 1] \in Nat
    BY <2>1
  <2>3. rule[<<i, g[i - 1]>>] = g[i - 1] + f[i]
    BY <2>1, <2>2
  <2>. QED  BY <1>2, <2>3
<1>4. g = F(g)
  <2>1. \A i \in 0 .. n : i = 0 \/ i \in 1 .. n
    OBVIOUS
  <2>. HIDE DEF rule
  <2>2. DOMAIN g = 0 .. n /\ \A i \in 0 .. n : g[i] = F(g)[i]
    BY <1>2, <1>3, <2>1
  <2>. QED  BY <1>2, <2>2
<1>5. first = F(first)
  <2>. HIDE DEF F
  <2>. QED  BY <1>4
<1>6. first \in [0 .. n -> Nat] /\ first[0] = 0 /\ \A i \in 1 .. n : first[i] = first[i - 1] + f[i]
  <2>1. DOMAIN first = 0 .. n /\ first = [k \in 0 .. n |-> first[k]]
        /\ \A k \in 0 .. n : first[k] = IF k = 0 THEN 0 ELSE first[k - 1] + f[k]
    <3>. HIDE DEF first
    <3>. QED  BY <1>5
  <2>. HIDE DEF first
  <2>. DEFINE S == {k \in Nat : k <= n => first[k] \in Nat}
  <2>2. 0 \in S
    BY <2>1
  <2>3. ASSUME NEW k \in Nat, k \in S  PROVE k + 1 \in S
    <3>. SUFFICES ASSUME k + 1 <= n  PROVE first[k + 1] \in Nat
      OBVIOUS
    <3>1. first[k] \in Nat /\ k + 1 \in 0 .. n /\ k + 1 # 0 /\ (k + 1) - 1 = k /\ f[k + 1] \in Nat
      BY <2>3
    <3>2. first[k + 1] = first[k] + f[k + 1]
      BY <2>1, <3>1
    <3>. QED  BY <3>1, <3>2
  <2>4. Nat \subseteq S
    <3>. HIDE DEF S
    <3>. QED  BY <2>2, <2>3, SetInduction
  <2>5. first \in [0 .. n -> Nat]
    <3>1. \A k \in 0 .. n : k \in Nat /\ k <= n
      OBVIOUS
    <3>2. \A k \in 0 .. n : first[k] \in Nat
      BY <2>4, <3>1
    <3>. QED  BY <2>1, <3>2
  <2>6. \A i \in 1 .. n : i \in 0 .. n /\ i # 0
    OBVIOUS
  <2>7. 0 \in 0 .. n
    OBVIOUS
  <2>. HIDE DEF S
  <2>. QED  BY <2>1, <2>5, <2>6, <2>7
<1>7. SumTo(f, n) = first[n]
  BY DEF SumTo
<1>. HIDE DEF first
<1>. QED  BY <1>6, <1>7

\* The smaller the terms, the smaller the sum.
LEMMA SumOrder ==
  ASSUME NEW n \in Nat, NEW f \in [1 .. n -> Nat], NEW h \in [1 .. n -> Nat], \A k \in 1 .. n : f[k] <= h[k]
  PROVE  SumTo(f, n) \in Nat /\ SumTo(h, n) \in Nat /\ SumTo(f, n) <= SumTo(h, n)
<1>1. PICK g \in [0 .. n -> Nat] : g[0] = 0 /\ (\A i \in 1 .. n : g[i] = g[i - 1] + f[i]) /\ SumTo(f, n) = g[n]
  BY SumSteps
<1>2. PICK k \in [0 .. n -> Nat] : k[0] = 0 /\ (\A i \in 1 .. n : k[i] = k[i - 1] + h[i]) /\ SumTo(h, n) = k[n]
  BY SumSteps
<1>. DEFINE S == {i \in Nat : i <= n => g[i] <= k[i]}
<1>3. 0 \in S
  BY <1>1, <1>2
<1>4. ASSUME NEW i \in Nat, i \in S  PROVE i + 1 \in S
  <2>. SUFFICES ASSUME i + 1 <= n  PROVE g[i + 1] <= k[i + 1]
    OBVIOUS
  <2>1. i + 1 \in 1 .. n /\ (i + 1) - 1 = i /\ i \in 0 .. n /\ g[i] <= k[i]
    BY <1>4
  <2>2. g[i + 1] = g[i] + f[i + 1] /\ k[i + 1] = k[i] + h[i + 1]
    BY <1>1, <1>2, <2>1
  <2>3. g[i] \in Nat /\ k[i] \in Nat /\ f[i + 1] \in Nat /\ h[i + 1] \in Nat /\ f[i + 1] <= h[i + 1]
    BY <2>1
  <2>4. \A a, b, c, d \in Nat : a <= b /\ c <= d => a + c <= b + d
    OBVIOUS
  <2>. QED  BY <2>1, <2>2, <2>3, <2>4
<1>5. n \in S
  <2>. HIDE DEF S
  <2>. QED  BY <1>3, <1>4, SetInduction
<1>. QED  BY <1>1, <1>2, <1>5

LEMMA SizeOrder ==
  ASSUME NEW blobs \in Seq(Blob), NEW places, NEW more, places \cap DOMAIN blobs \subseteq more
  PROVE  SizeAt(blobs, places) \in Nat /\ SizeAt(blobs, more) \in Nat /\ SizeAt(blobs, places) <= SizeAt(blobs, more)
<1>. DEFINE n == Len(blobs)
            F(S) == [k \in DOMAIN blobs |-> IF k \in S THEN Length[blobs[k]] ELSE 0]
<1>1. n \in Nat /\ DOMAIN blobs = 1 .. n /\ \A k \in 1 .. n : Length[blobs[k]] \in Nat
  BY PlanAssumption
<1>2. F(places) \in [1 .. n -> Nat] /\ F(more) \in [1 .. n -> Nat] /\ \A k \in 1 .. n : F(places)[k] <= F(more)[k]
  <2>. HIDE DEF n
  <2>. QED  BY <1>1
<1>3. /\ SumTo(F(places), n) \in Nat /\ SumTo(F(more), n) \in Nat
      /\ SumTo(F(places), n) <= SumTo(F(more), n)
  <2>. HIDE DEF F, n
  <2>. QED  BY <1>1, <1>2, SumOrder
<1>. QED  BY <1>3 DEF SizeAt

-----------------------------------------------------------------------------
(***************************************************************************)
(* The invariant of the limits max_repack and max_unused                   *)
(***************************************************************************)
UsedAt(p) == SizeAt(plan[p].blobs, UsedPlaces(p))
AllUsed(p) == ToSet(plan[p].blobs) \subseteq in.used

CandidateOK(c) ==
    /\ c.reason \in Reasons /\ c.type \in BlobType
    /\ c.used \in Nat /\ c.unused \in Nat /\ c.used <= UsedAt(c.id)
    /\ c.reason # "PartlyUsed" => AllUsed(c.id)

\* Why a pack is kept: as it is said when it is decided on, or because of a limit.  What
\* is left unused only decreases and what is repacked only increases.
Unaffected(p) == TooYoung(p) \/ KeepUncacheable(p) \/ AllUsed(p)
LimitReached(p) == UnusedAfter < MaxUnused \/ Total + UsedAt(p) >= MaxRepack

LimitInv ==
    /\ stats \in [used : Int, unused : Int, remove : Int, repackrm : Int]
    /\ volume \in [BlobType -> Nat]
    /\ \A c \in cand : CandidateOK(c)
    /\ \A c \in resize : AllUsed(c.id)
    /\ pc \in {"new", "count", "decide"} => Total = 0
    /\ pc = "repack" => ~MaxUnusedPanics
    /\ Total > 0 => Total < MaxRepack
    /\ \A p \in DOMAIN plan :
          plan[p].todo = "Keep" => Unaffected(p) \/ (pc # "decide" /\ LimitReached(p))

LEMMA LimitTypes ==
  ASSUME Found, stats \in [used : Int, unused : Int, remove : Int, repackrm : Int]
  PROVE  MaxRepack \in Int /\ (~MaxUnusedPanics => MaxUnused \in Int)
<1>1. /\ in.opts.max_repack.n \in Nat /\ in.opts.max_unused.n \in Nat /\ Infinite \in Nat
      /\ in.opts.max_unused.kind \in {"unlimited", "size", "percent"}
  BY InputAssumption, PlanAssumption DEF Found
<1>2. \A i \in Int, k \in Nat \ {0} : i \div k \in Int
  OBVIOUS
<1>3. \A i, k \in Int : i * k \in Int
  OBVIOUS
<1>4. MaxRepack \in Int
  <2>1. stats.used + stats.unused \in Int
    OBVIOUS
  <2>. DEFINE sum == stats.used + stats.unused
              n == in.opts.max_repack.n
  <2>2. n * sum \in Int
    <3>. HIDE DEF sum, n
    <3>. QED  BY <1>1, <1>3, <2>1 DEF sum, n
  <2>3. (n * sum) \div 100 \in Int
    <3>. HIDE DEF sum, n
    <3>. QED  BY <1>2, <2>2
  <2>. HIDE DEF n
  <2>. QED  BY <1>1, <2>3 DEF MaxRepack, n
<1>5. ASSUME ~MaxUnusedPanics  PROVE MaxUnused \in Int
  <2>. DEFINE n == in.opts.max_unused.n
              kind == in.opts.max_unused.kind
  <2>1. CASE ~RepackAll /\ kind # "unlimited" /\ kind # "size" /\ ~(n > 100) /\ n # 100
    <3>1. n * stats.used \in Int /\ 100 - n \in Nat \ {0}
      BY <1>1, <1>3, <2>1
    <3>2. (n * stats.used) \div (100 - n) \in Int
      <4>. HIDE DEF n
      <4>. QED  BY <1>2, <3>1
    <3>3. MaxUnused = (n * stats.used) \div (100 - n)
      BY <2>1 DEF MaxUnused
    <3>. QED  BY <3>2, <3>3
  <2>2. CASE RepackAll \/ kind = "unlimited" \/ kind = "size" \/ n > 100
    BY <1>1, <2>2 DEF MaxUnused
  <2>3. CASE ~RepackAll /\ kind # "unlimited" /\ kind # "size" /\ n = 100
    BY <1>1, <1>5, <2>3 DEF MaxUnusedPanics
  <2>. QED  BY <1>1, <2>1, <2>2, <2>3
<1>. QED  BY <1>4, <1>5

LEMMA SameReasons ==
  ASSUME Found, FromIndex, OnlyTodos, plan' = [p \in DOMAIN plan' |-> plan'[p]], NEW p \in DOMAIN plan
  PROVE  (AllUsed(p)' <=> AllUsed(p)) /\ UsedAt(p)' = UsedAt(p) /\ (Unaffected(p)' <=> Unaffected(p))
<1>1. /\ plan'[p].blobs = plan[p].blobs /\ TooYoung(p)' = TooYoung(p) /\ KeepUncacheable(p)' = KeepUncacheable(p)
      /\ in' = in
  BY OnlyTodosFacts DEF OnlyTodos
<1>2. AllUsed(p)' = AllUsed(p)
  BY <1>1 DEF AllUsed
<1>3. UsedPlaces(p)' = UsedPlaces(p)
  BY <1>1 DEF UsedPlaces
<1>4. UsedAt(p)' = UsedAt(p)
  BY <1>1, <1>3 DEF UsedAt
<1>. QED  BY <1>1, <1>2, <1>4 DEF Unaffected

LEMMA SizeFacts ==
  ASSUME Found, FromIndex, NEW p \in DOMAIN plan
  PROVE  LET blobs == plan[p].blobs
         IN /\ UsedSize(blobs) \in Nat /\ SizeOf(blobs) \in Nat /\ UsedAt(p) \in Nat
            /\ UsedSize(blobs) <= SizeOf(blobs) /\ UsedSize(blobs) <= UsedAt(p)
<1>1. plan[p].blobs \in Seq(Blob)
  BY PlanFacts
<1>2. Counted(plan[p].blobs) \subseteq DOMAIN plan[p].blobs /\ Counted(plan[p].blobs) \subseteq UsedPlaces(p)
  BY DEF Counted, ServedBy, UsedPlaces
<1>. QED  BY <1>1, <1>2, SizeOrder DEF UsedSize, SizeOf, UsedAt

\* A pack is decided to stay, or a candidate without unused blobs, for a good reason.
LEMMA DecisionReasons ==
  ASSUME Found, FromIndex, NEW p \in DOMAIN plan
  PROVE  /\ Decision(p) = "Keep" => Unaffected(p)
         /\ Decision(p) \in Reasons \ {"PartlyUsed"} => AllUsed(p)
<1>1. ~HasUnused(plan[p].blobs) => AllUsed(p)
  <2>. HAVE ~HasUnused(plan[p].blobs)
  <2>1. \A k \in DOMAIN plan[p].blobs : plan[p].blobs[k] \in in.used
    BY DEF HasUnused, Counted, ServedBy
  <2>. QED  BY <2>1 DEF AllUsed, ToSet
<1>2. plan[p].mark \in BOOLEAN
  BY PlanFacts
<1>3. CASE plan[p].mark
  BY <1>3 DEF Decision, DecideMarked, Reasons
<1>4. CASE ~plan[p].mark
  BY <1>1, <1>4 DEF Decision, DecideNormal, Reasons, Unaffected
<1>. QED  BY <1>2, <1>3, <1>4

LEMMA LimitsStart == Init => LimitInv
<1>. SUFFICES ASSUME Init  PROVE LimitInv
  OBVIOUS
<1>1. /\ stats = NoStats /\ volume = [t \in BlobType |-> 0] /\ cand = {} /\ resize = {} /\ plan = <<>>
      /\ pc = "new"
  BY DEF Init
<1>2. Total = 0
  BY <1>1 DEF Total, BlobType
<1>. QED  BY <1>1, <1>2 DEF LimitInv, NoStats, BlobType

\* As long as sizes and plan are left alone, so are the limits.
LEMMA LimitsStay ==
  ASSUME LimitInv, in' = in, plan' = plan, stats' = stats, volume' = volume, cand' = cand, resize' = resize,
         pc' \in {"new", "count", "decide"} => pc \in {"new", "count", "decide"},
         pc' = "repack" => pc = "repack" \/ ~MaxUnusedPanics,
         pc' = "decide" => pc = "decide" \/ \A p \in DOMAIN plan : plan[p].todo # "Keep"
  PROVE  LimitInv'
<1>1. /\ Total' = Total /\ MaxRepack' = MaxRepack /\ MaxUnused' = MaxUnused /\ UnusedAfter' = UnusedAfter
      /\ MaxUnusedPanics' = MaxUnusedPanics
  BY DEF Total, MaxRepack, MaxUnused, UnusedAfter, MaxUnusedPanics, RepackAll
<1>2. \A p : AllUsed(p)' = AllUsed(p) /\ UsedAt(p)' = UsedAt(p) /\ Unaffected(p)' = Unaffected(p)
  BY DEF AllUsed, UsedAt, UsedPlaces, Unaffected, TooYoung, KeepUncacheable
<1>3. \A p : LimitReached(p)' = LimitReached(p)
  BY <1>1, <1>2 DEF LimitReached
<1>4. \A c \in cand' : CandidateOK(c)'
  BY <1>2 DEF LimitInv, CandidateOK
<1>5. \A c \in resize' : AllUsed(c.id)'
  BY <1>2 DEF LimitInv
<1>6. \A p \in DOMAIN plan' :
         plan'[p].todo = "Keep" => Unaffected(p)' \/ (pc' # "decide" /\ LimitReached(p)')
  BY <1>2, <1>3 DEF LimitInv
<1>7. /\ pc' \in {"new", "count", "decide"} => Total' = 0
      /\ pc' = "repack" => ~MaxUnusedPanics'
      /\ Total' > 0 => Total' < MaxRepack'
  BY <1>1 DEF LimitInv
<1>. QED  BY <1>4, <1>5, <1>6, <1>7 DEF LimitInv

LEMMA LimitsNew == PlanInv /\ PlanInv' /\ LimitInv /\ New => LimitInv'
<1>. SUFFICES ASSUME PlanInv, PlanInv', LimitInv, New  PROVE LimitInv'
  OBVIOUS
<1>1. /\ pc = "new" /\ pc' = "count" /\ in' = in /\ stats' = stats /\ volume' = volume
      /\ cand' = {} /\ resize' = {} /\ undecided' = DOMAIN plan' /\ \A p \in DOMAIN plan' : PackOK(p)'
  BY DEF New, PlanInv
<1>2. \A p \in DOMAIN plan' : plan'[p].todo = "Undecided"
  BY <1>1 DEF PackOK
<1>3. Total' = Total /\ Total = 0
  BY <1>1 DEF Total, LimitInv
<1>. QED  BY <1>1, <1>2, <1>3 DEF LimitInv

LEMMA LimitsCount == PlanInv /\ LimitInv /\ CountUsed => LimitInv'
<1>. SUFFICES ASSUME PlanInv, LimitInv, CountUsed  PROVE LimitInv'
  OBVIOUS
<1>1. \A p \in DOMAIN plan : plan[p].todo # "Keep"
  BY DEF PlanInv, CountUsed, PackOK
<1>. QED  BY <1>1, LimitsStay DEF CountUsed

LEMMA LimitsDecide == PlanInv /\ LimitInv /\ DecidePack => LimitInv'
<1>. SUFFICES ASSUME PlanInv, LimitInv, DecidePack  PROVE LimitInv'
  OBVIOUS
<1>. DEFINE blobs(p) == plan[p].blobs
            Busy(p) == UsedSize(blobs(p))
            Idle(p) == SizeOf(blobs(p)) - Busy(p)
            counted(p) == [stats EXCEPT !.used = @ + Busy(p), !.unused = @ + Idle(p)]
            d(p) == Decision(p)
            Candidate(p) == [id |-> p, reason |-> d(p), type |-> TypeOf(blobs(p)), used |-> Busy(p),
                             unused |-> Idle(p)]
<1>1. PICK p \in undecided :
         \/ /\ d(p) \in Reasons /\ cand' = cand \cup {Candidate(p)}
            /\ stats' = counted(p) /\ plan' = plan
         \/ /\ d(p) \notin Reasons /\ plan' = [plan EXCEPT ![p].todo = d(p)]
            /\ stats' = StatsAfter(counted(p), d(p), Idle(p)) /\ cand' = cand
  BY DEF DecidePack
<1>2. /\ Found /\ FromIndex /\ p \in DOMAIN plan /\ in' = in /\ dirty' = dirty /\ pc = "decide" /\ pc' = "decide"
      /\ volume' = volume /\ resize' = resize /\ \A c \in cand \cup resize : c.id \in DOMAIN plan
  BY DEF PlanInv, DecidePack, CandidatesOK
<1>3. /\ Busy(p) \in Nat /\ Idle(p) \in Nat /\ Busy(p) <= UsedAt(p) /\ UsedAt(p) \in Nat
  BY <1>2, SizeFacts
<1>4. stats' \in [used : Int, unused : Int, remove : Int, repackrm : Int]
  <2>1. stats \in [used : Int, unused : Int, remove : Int, repackrm : Int]
    BY DEF LimitInv
  <2>2. counted(p) \in [used : Int, unused : Int, remove : Int, repackrm : Int]
    <3>1. stats.used + Busy(p) \in Int /\ stats.unused + Idle(p) \in Int
      <4>. HIDE DEF Busy, Idle
      <4>. QED  BY <1>3, <2>1
    <3>. DEFINE a == stats.used + Busy(p)
                b == stats.unused + Idle(p)
    <3>2. counted(p) = [stats EXCEPT !.used = a, !.unused = b]
      OBVIOUS
    <3>. HIDE DEF a, b, counted
    <3>. QED  BY <2>1, <3>1, <3>2 DEF a, b
  <2>3. StatsAfter(counted(p), d(p), Idle(p)) \in [used : Int, unused : Int, remove : Int, repackrm : Int]
    <3>. HIDE DEF counted, Idle, d
    <3>. QED  BY <1>3, <2>2 DEF StatsAfter
  <2>. QED  BY <1>1, <2>2, <2>3
<1>5. Total' = 0 /\ Total = 0
  BY <1>2 DEF LimitInv, Total
<1>6. /\ DOMAIN plan' = DOMAIN plan
      /\ \A q \in DOMAIN plan : /\ (AllUsed(q)' <=> AllUsed(q)) /\ UsedAt(q)' = UsedAt(q)
                                /\ (Unaffected(q)' <=> Unaffected(q))
                                /\ q # p => plan'[q].todo = plan[q].todo
      /\ plan'[p].todo = "Keep" => d(p) = "Keep" \/ plan[p].todo = "Keep"
  <2>1. CASE plan' = plan
    <3>1. OnlyTodos /\ plan' = [q \in DOMAIN plan' |-> plan'[q]]
      BY <1>2, <2>1, SamePlan
    <3>. QED  BY <1>2, <2>1, <3>1, SameReasons
  <2>2. CASE plan' = [plan EXCEPT ![p].todo = d(p)]
    <3>1. /\ OnlyTodos /\ plan' = [q \in DOMAIN plan' |-> plan'[q]]
          /\ plan'[p].todo = d(p) /\ \A q \in DOMAIN plan : q # p => plan'[q] = plan[q]
      <4>. HIDE DEF d
      <4>. QED  BY <1>2, <2>2, OneTodo
    <3>2. DOMAIN plan' = DOMAIN plan
      BY <3>1 DEF OnlyTodos
    <3>3. \A q \in DOMAIN plan : /\ (AllUsed(q)' <=> AllUsed(q)) /\ UsedAt(q)' = UsedAt(q)
                                  /\ (Unaffected(q)' <=> Unaffected(q))
      BY <1>2, <3>1, SameReasons
    <3>. QED  BY <3>1, <3>2, <3>3
  <2>. QED  BY <1>1, <2>1, <2>2
<1>7. (d(p) = "Keep" => Unaffected(p)) /\ (d(p) \in Reasons \ {"PartlyUsed"} => AllUsed(p))
  BY <1>2, DecisionReasons
<1>8. \A c \in cand' : CandidateOK(c)'
  <2>1. ASSUME NEW c \in cand  PROVE CandidateOK(c)'
    <3>1. CandidateOK(c) /\ c.id \in DOMAIN plan
      BY <1>2 DEF LimitInv
    <3>. QED  BY <1>6, <3>1 DEF CandidateOK
  <2>2. ASSUME d(p) \in Reasons, NEW c, c = Candidate(p)  PROVE CandidateOK(c)'
    <3>1. TypeOf(blobs(p)) \in BlobType
      BY DEF TypeOf, BlobType
    <3>2. d(p) # "PartlyUsed" => AllUsed(p)'
      BY <1>2, <1>6, <1>7, <2>2
    <3>3. UsedAt(p)' = UsedAt(p)
      BY <1>2, <1>6
    <3>4. /\ c.id = p /\ c.reason = d(p) /\ c.type = TypeOf(blobs(p))
          /\ c.used = Busy(p) /\ c.unused = Idle(p)
      BY <2>2
    <3>. HIDE DEF Candidate, d, Busy, Idle, blobs
    <3>. QED  BY <1>3, <2>2, <3>1, <3>2, <3>3, <3>4 DEF CandidateOK
  <2>3. ASSUME NEW c \in cand'  PROVE CandidateOK(c)'
    <3>1. c \in cand \/ (d(p) \in Reasons /\ c = Candidate(p))
      BY <1>1
    <3>. HIDE DEF Candidate, d
    <3>. QED  BY <2>1, <2>2, <3>1
  <2>. QED  BY <2>3
<1>9. \A c \in resize' : AllUsed(c.id)'
  BY <1>2, <1>6 DEF LimitInv
<1>10. ASSUME NEW q \in DOMAIN plan', plan'[q].todo = "Keep"  PROVE Unaffected(q)'
  <2>1. plan[q].todo = "Keep" => Unaffected(q)
    BY <1>2, <1>6 DEF LimitInv
  <2>. QED  BY <1>6, <1>7, <1>10, <2>1
<1>. QED  BY <1>2, <1>4, <1>5, <1>8, <1>9, <1>10 DEF LimitInv

LEMMA LimitsStartRepack == LimitInv /\ StartRepack => LimitInv'
<1>. SUFFICES ASSUME LimitInv, StartRepack  PROVE LimitInv'
  OBVIOUS
<1>. QED  BY LimitsStay DEF StartRepack

\* A candidate stays because of a limit, or its used blobs are still within the limit.
LEMMA LimitsDecideRepack == PlanInv /\ LimitInv /\ DecideRepack => LimitInv'
<1>. SUFFICES ASSUME PlanInv, LimitInv, DecideRepack  PROVE LimitInv'
  OBVIOUS
<1>1. PICK c \in cand :
         /\ cand' = cand \ {c}
         /\ \/ Dismissed(c) /\ SetTodo(c, "Keep") /\ resize' = resize /\ volume' = volume
            \/ /\ ~Dismissed(c) /\ volume' = [volume EXCEPT ![c.type] = @ + c.used]
               /\ \/ plan' = plan /\ stats' = stats /\ resize' = resize \cup {c} /\ c.reason = "SizeMismatch"
                  \/ SetTodo(c, "Repack") /\ resize' = resize
  BY DEF DecideRepack
<1>2. /\ Found /\ FromIndex /\ in' = in /\ dirty' = dirty /\ pc = "repack" /\ pc' = "repack"
      /\ c.id \in DOMAIN plan /\ ~MaxUnusedPanics /\ \A e \in cand \cup resize : e.id \in DOMAIN plan
  BY DEF PlanInv, LimitInv, DecideRepack, CandidatesOK
<1>3. /\ CandidateOK(c) /\ c.type \in BlobType /\ c.used \in Nat /\ c.unused \in Nat
      /\ volume \in [BlobType -> Nat] /\ stats \in [used : Int, unused : Int, remove : Int, repackrm : Int]
  BY DEF LimitInv, CandidateOK
<1>4. \A p \in DOMAIN plan : UsedAt(p) \in Nat
  BY <1>2, SizeFacts
<1>5. MaxRepack \in Int /\ MaxUnused \in Int
  BY <1>2, <1>3, LimitTypes
<1>6. /\ stats' \in [used : Int, unused : Int, remove : Int, repackrm : Int]
      /\ stats'.used = stats.used /\ stats'.unused = stats.unused /\ stats'.remove = stats.remove
      /\ stats'.repackrm = stats.repackrm \/ stats'.repackrm = stats.repackrm + c.unused
      /\ Dismissed(c) => stats' = stats
  <2>1. stats' = stats \/ (~Dismissed(c) /\ stats' = [stats EXCEPT !.repackrm = @ + c.unused])
    BY <1>1 DEF SetTodo, StatsAfter
  <2>. QED  BY <1>3, <2>1
<1>7. /\ UnusedAfter \in Int /\ UnusedAfter' \in Int /\ UnusedAfter' <= UnusedAfter
      /\ MaxRepack' = MaxRepack /\ MaxUnused' = MaxUnused /\ MaxUnusedPanics' = MaxUnusedPanics
  <2>1. UnusedAfter \in Int /\ UnusedAfter' \in Int /\ UnusedAfter' <= UnusedAfter
    BY <1>3, <1>6 DEF UnusedAfter
  <2>. QED  BY <1>2, <1>6, <2>1 DEF MaxRepack, MaxUnused, MaxUnusedPanics, RepackAll
<1>8. /\ volume' \in [BlobType -> Nat] /\ Total \in Nat /\ Total' \in Nat /\ Total <= Total'
      /\ Dismissed(c) => Total' = Total
      /\ ~Dismissed(c) => Total' = Total + c.used
  <2>1. CASE volume' = volume /\ Dismissed(c)
    BY <1>3, <2>1 DEF Total, BlobType
  <2>2. CASE volume' = [volume EXCEPT ![c.type] = @ + c.used] /\ ~Dismissed(c)
    BY <1>3, <2>2 DEF Total, BlobType
  <2>. QED  BY <1>1, <2>1, <2>2
<1>9. Total' > 0 => Total' < MaxRepack
  <2>1. CASE Dismissed(c)
    BY <1>8, <2>1 DEF LimitInv
  <2>2. CASE ~Dismissed(c)
    BY <1>3, <1>5, <1>8, <2>2 DEF Dismissed
  <2>. QED  BY <2>1, <2>2
<1>10. /\ DOMAIN plan' = DOMAIN plan
       /\ \A p \in DOMAIN plan : /\ (AllUsed(p)' <=> AllUsed(p)) /\ UsedAt(p)' = UsedAt(p)
                                 /\ (Unaffected(p)' <=> Unaffected(p))
                                 /\ plan'[p].todo = "Keep" => plan[p].todo = "Keep" \/ (p = c.id /\ Dismissed(c))
  <2>1. CASE plan' = plan
    <3>1. OnlyTodos /\ plan' = [q \in DOMAIN plan' |-> plan'[q]]
      BY <1>2, <2>1, SamePlan
    <3>. QED  BY <1>2, <2>1, <3>1, SameReasons
  <2>2. ASSUME NEW todo \in {"Keep", "Repack"}, plan' = [plan EXCEPT ![c.id].todo = todo],
               todo = "Keep" => Dismissed(c)
        PROVE  <1>10!:
    <3>1. /\ OnlyTodos /\ plan' = [q \in DOMAIN plan' |-> plan'[q]]
          /\ plan'[c.id].todo = todo /\ \A q \in DOMAIN plan : q # c.id => plan'[q] = plan[q]
      BY <1>2, <2>2, OneTodo
    <3>2. DOMAIN plan' = DOMAIN plan
      BY <3>1 DEF OnlyTodos
    <3>3. \A q \in DOMAIN plan : /\ (AllUsed(q)' <=> AllUsed(q)) /\ UsedAt(q)' = UsedAt(q)
                                 /\ (Unaffected(q)' <=> Unaffected(q))
      BY <1>2, <3>1, SameReasons
    <3>. QED  BY <2>2, <3>1, <3>2, <3>3
  <2>. QED  BY <1>1, <2>1, <2>2 DEF SetTodo
<1>11. \A p \in DOMAIN plan : LimitReached(p) => LimitReached(p)'
  BY <1>4, <1>5, <1>7, <1>8, <1>10 DEF LimitReached
<1>12. Dismissed(c) => Unaffected(c.id) \/ LimitReached(c.id)
  <2>1. c.reason = "SizeMismatch" => AllUsed(c.id)
    BY <1>3 DEF CandidateOK
  <2>2. Total + c.used >= MaxRepack => Total + UsedAt(c.id) >= MaxRepack
    BY <1>2, <1>3, <1>4, <1>5, <1>8 DEF CandidateOK
  <2>. QED  BY <2>1, <2>2 DEF Dismissed, Unaffected, LimitReached
<1>13. \A e \in cand' : CandidateOK(e)'
  <2>. SUFFICES ASSUME NEW e \in cand  PROVE CandidateOK(e)'
    BY <1>1
  <2>1. CandidateOK(e) /\ e.id \in DOMAIN plan
    BY <1>2 DEF LimitInv
  <2>. QED  BY <1>10, <2>1 DEF CandidateOK
<1>14. \A e \in resize' : AllUsed(e.id)'
  <2>. SUFFICES ASSUME NEW e \in resize'  PROVE AllUsed(e.id)'
    OBVIOUS
  <2>1. e \in resize \/ (e = c /\ c.reason = "SizeMismatch")
    BY <1>1
  <2>2. e.id \in DOMAIN plan /\ AllUsed(e.id)
    BY <1>2, <1>3, <2>1 DEF LimitInv, CandidateOK
  <2>. QED  BY <1>10, <2>2
<1>15. ASSUME NEW p \in DOMAIN plan', plan'[p].todo = "Keep"  PROVE Unaffected(p)' \/ LimitReached(p)'
  <2>1. plan[p].todo = "Keep" => Unaffected(p) \/ LimitReached(p)
    BY <1>2, <1>10 DEF LimitInv
  <2>2. Unaffected(p) \/ LimitReached(p)
    BY <1>10, <1>12, <1>15, <2>1
  <2>. QED  BY <1>10, <1>11, <2>2
<1>. QED  BY <1>2, <1>6, <1>7, <1>8, <1>9, <1>13, <1>14, <1>15 DEF LimitInv

\* The packs of an odd size have no unused blobs.
LEMMA LimitsDecideResize == PlanInv /\ LimitInv /\ DecideResize => LimitInv'
<1>. SUFFICES ASSUME PlanInv, LimitInv, DecideResize  PROVE LimitInv'
  OBVIOUS
<1>1. /\ Found /\ FromIndex /\ in' = in /\ dirty' = dirty /\ pc = "repack" /\ pc' = "check"
      /\ cand' = {} /\ resize' = {} /\ stats' = stats /\ volume' = volume
  BY DEF PlanInv, DecideResize
<1>2. /\ DOMAIN plan' = DOMAIN plan /\ plan' = [p \in DOMAIN plan' |-> plan'[p]]
      /\ \A p \in DOMAIN plan : plan'[p] = plan[p] \/ (/\ \E todo : plan'[p] = [plan[p] EXCEPT !.todo = todo]
                                                       /\ \E c \in resize : c.id = p)
  BY DEF DecideResize
<1>3. \A p \in DOMAIN plan : plan'[p] = [plan[p] EXCEPT !.todo = plan'[p].todo]
  <2>. TAKE p \in DOMAIN plan
  <2>1. plan[p] = PackFrom(p, plan[p].todo)
    BY <1>1, PlanFacts
  <2>2. PICK todo : plan'[p] = PackFrom(p, todo)
    <3>1. CASE plan'[p] = plan[p]
      BY <2>1, <3>1
    <3>2. CASE \E todo : plan'[p] = [plan[p] EXCEPT !.todo = todo]
      <4>1. PICK todo : plan'[p] = [plan[p] EXCEPT !.todo = todo]
        BY <3>2
      <4>2. plan'[p] = PackFrom(p, todo)
        BY <2>1, <4>1, PackFields
      <4>. QED  BY <4>2
    <3>. QED  BY <1>2, <3>1, <3>2
  <2>. QED  BY <2>1, <2>2, PackFields
<1>4. OnlyTodos
  BY <1>1, <1>2, <1>3 DEF OnlyTodos
<1>5. \A p \in DOMAIN plan : /\ (AllUsed(p)' <=> AllUsed(p)) /\ UsedAt(p)' = UsedAt(p)
                             /\ (Unaffected(p)' <=> Unaffected(p))
  BY <1>1, <1>2, <1>4, SameReasons
<1>6. /\ Total' = Total /\ MaxRepack' = MaxRepack /\ MaxUnused' = MaxUnused /\ UnusedAfter' = UnusedAfter
  BY <1>1 DEF Total, MaxRepack, MaxUnused, UnusedAfter, RepackAll
<1>7. \A p \in DOMAIN plan : LimitReached(p)' <=> LimitReached(p)
  BY <1>5, <1>6 DEF LimitReached
<1>8. ASSUME NEW p \in DOMAIN plan', plan'[p].todo = "Keep"  PROVE Unaffected(p)' \/ LimitReached(p)'
  <2>1. CASE plan'[p] = plan[p]
    BY <1>1, <1>2, <1>5, <1>7, <1>8, <2>1 DEF LimitInv
  <2>2. CASE \E c \in resize : c.id = p
    <3>1. AllUsed(p)
      BY <2>2 DEF LimitInv
    <3>. QED  BY <1>2, <1>5, <3>1 DEF Unaffected
  <2>. QED  BY <1>2, <2>1, <2>2
<1>. QED  BY <1>1, <1>6, <1>8 DEF LimitInv

LEMMA LimitsLate == LimitInv /\ (CheckPacks \/ FilterIndex) => LimitInv'
<1>. SUFFICES ASSUME LimitInv, CheckPacks \/ FilterIndex  PROVE LimitInv'
  OBVIOUS
<1>. QED  BY LimitsStay DEF CheckPacks, FilterIndex

\* Executing the plan changes nothing of all that.
LEMMA LimitsRun == RunInv /\ RunInv' /\ LimitInv /\ [RunNext]_<<vars, runVars>> => LimitInv'
<1>. SUFFICES ASSUME RunInv, RunInv', LimitInv, [RunNext]_<<vars, runVars>>  PROVE LimitInv'
  OBVIOUS
<1>1. CASE Plan
  <2>1. PlanInv /\ PlanInv' /\ Planning
    BY <1>1 DEF Plan, RunInv
  <2>. QED  BY <2>1, LimitsNew, LimitsCount, LimitsDecide, LimitsStartRepack, LimitsDecideRepack,
               LimitsDecideResize, LimitsLate DEF Planning
<1>2. CASE ~Plan
  <2>1. /\ in' = in /\ pc' = pc /\ plan' = plan /\ stats' = stats /\ volume' = volume /\ cand' = cand
        /\ resize' = resize
    BY <1>2 DEF RunNext, vars, DeleteUnref, StartRun, Rebuild, CopyBlobs, SaveIndexer, FinalizeRun,
                RemoveIndex, RemovePacks, Stop
  <2>. QED  BY <2>1, LimitsStay
<1>. QED  BY <1>1, <1>2

LEMMA LimitsKept == PlanInv /\ LimitInv => RepackLimited /\ UnusedLimited
<1>. SUFFICES ASSUME PlanInv, LimitInv  PROVE RepackLimited /\ UnusedLimited
  OBVIOUS
<1>1. RepackLimited
  BY DEF LimitInv, RepackLimited
<1>2. UnusedLimited
  <2>. SUFFICES ASSUME pc = "planned", NEW p \in Todo("Keep")
                PROVE  Unaffected(p) \/ LimitReached(p)
    BY DEF UnusedLimited, Unaffected, LimitReached, AllUsed, UsedAt
  <2>. QED  BY DEF LimitInv, Todo, WithTodo
<1>. QED  BY <1>1, <1>2

-----------------------------------------------------------------------------
(***************************************************************************)
(* Theorems                                                                *)
(***************************************************************************)
\* What the plan says, what is on the backend and what the index lists agree, after
\* each step of deciding and of prune_repository.
THEOREM RunInvariant == RunSpec => []RunInv
<1>1. RunInit => RunInv
  BY RunStarts
<1>2. RunInv /\ [RunNext]_<<vars, runVars>> => RunInv'
  BY RunStep
<1>. QED  BY <1>1, <1>2, PTL DEF RunSpec

\* The deciding algorithm keeps the promise on which BackupPrune rests, for every index,
\* also one that lists packs and blobs many times, whatever the options.
THEOREM PromiseKept == RunSpec => []KeepsPromise
<1>1. RunInv => KeepsPromise
  BY PlanPromise DEF RunInv
<1>. QED  BY <1>1, RunInvariant, PTL

\* Wherever prune_repository stops, no used blob is lost or hidden, and once it is done
\* all can be loaded.
THEOREM BlobsKept == RunSpec => []UsedBlobsKept
<1>1. RunInv => UsedBlobsKept
  BY RunKeepsBlobs
<1>. QED  BY <1>1, RunInvariant, PTL

\* decide_repack keeps its two sums below the limits, or says of each pack it leaves
\* alone which limit made it do so.
THEOREM LimitInvariant == RunSpec => []LimitInv
<1>1. RunInit => LimitInv
  BY LimitsStart DEF RunInit
<1>2. RunInv /\ RunInv' /\ LimitInv /\ [RunNext]_<<vars, runVars>> => LimitInv'
  BY LimitsRun
<1>. QED  BY <1>1, <1>2, RunInvariant, PTL DEF RunSpec

\* All options are kept at once: max_repack and max_unused limit the plan as they say,
\* young packs and packs that are not cacheable stay, marked packs come back only if they
\* are needed, and instant_delete leaves nothing behind.
THEOREM OptionsRespected == RunSpec => []OptionsKept
<1>1. RunInv /\ LimitInv => OptionsKept
  BY PlanReasons, LimitsKept, RunLeavesNothing DEF RunInv, OptionsKept
<1>. QED  BY <1>1, RunInvariant, LimitInvariant, PTL

=============================================================================
