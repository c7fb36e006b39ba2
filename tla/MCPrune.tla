------------------------------ MODULE MCPrune ------------------------------
(***************************************************************************)
(* Small inputs for PrunePlan and PruneRun: every way in which index files *)
(* can list up to three packs, every combination of options on a fixed     *)
(* repository, and plans that are executed.                                *)
(***************************************************************************)
EXTENDS PruneRun

CONSTANTS p1, p2, p3, p4, a, b, c, t, u  \* packs, data blobs and tree blobs

MCLength == [x \in {a, b, c, t, u} |-> IF x \in {a, t} THEN 2 ELSE 1]

\* Index files are built from the places where each pack is listed: a pair of
\* the file and the section.  What is listed in file 1 is old, in file 2 young.
Places == {1, 2} \X {"packs", "packs_to_delete"}
EntryOf(p, i, blobs) == [id |-> p, blobs |-> blobs[p], time |-> IF i = 1 THEN 0 ELSE Now]
FilesOf(order, places, blobs) ==
    [i \in {1, 2} |->
        [s \in {"packs", "packs_to_delete"} |->
            LET here == SelectSeq(order, LAMBDA p : <<i, s>> \in places[p])
            IN [k \in DOMAIN here |-> EntryOf(here[k], i, blobs)]]]

DefaultOpts ==
    [keep_pack |-> 0, keep_delete |-> 1, cacheable_only |-> FALSE, uncompressed |-> FALSE,
     repack_all |-> FALSE, no_resize |-> FALSE, instant_delete |-> FALSE, early_delete_index |-> FALSE,
     max_repack |-> [kind |-> "unlimited", n |-> 0], max_unused |-> [kind |-> "size", n |-> 1]]

\* One or two places for each of three packs, with duplicate blobs.
DupInputs ==
    {[files |-> FilesOf(<<p1, p2, p3>>, pl, bl), used |-> us, stored |-> {p1, p2, p3, p4},
      intact |-> {p1, p2, p3}, opts |-> DefaultOpts, execute |-> FALSE] :
        pl \in [{p1, p2, p3} -> {S \in SUBSET Places : Cardinality(S) \in {1, 2}}],
        bl \in {(p1 :> x) @@ (p2 :> y) @@ (p3 :> <<a>>) :
                   x \in {<<a>>, <<b, a>>, <<a, a>>}, y \in {<<b>>, <<a, b, a>>}},
        us \in {{a}, {a, b}}}

Limits == {[kind |-> "unlimited", n |-> 0], [kind |-> "size", n |-> 0], [kind |-> "size", n |-> 4],
           [kind |-> "percent", n |-> 60]}

\* All options on four packs, two of them with trees.
OptionInputs ==
    {[files |-> FilesOf(<<p1, p2, p3, p4>>, pl, (p1 :> <<a, c>>) @@ (p2 :> <<b, a, c>>)
                                                  @@ (p3 :> <<t, u>>) @@ (p4 :> <<u>>)),
      used |-> us, stored |-> {p1, p2, p3, p4}, intact |-> it, opts |-> o, execute |-> FALSE] :
        pl \in {(p1 :> {<<1, "packs">>}) @@ (p2 :> {<<2, "packs">>})
                  @@ (p3 :> {<<1, "packs">>}) @@ (p4 :> x) :
                    x \in {{<<1, "packs">>}, {<<2, "packs_to_delete">>}}},
        us \in {{a, t}, {b, u}, {a, b, c, t, u}},
        it \in {{p1, p2, p3, p4}, {p1, p3, p4}},
        o \in {[keep_pack |-> kp, keep_delete |-> 1, cacheable_only |-> co, uncompressed |-> un,
                repack_all |-> ra, no_resize |-> nr, instant_delete |-> id, early_delete_index |-> FALSE,
                max_repack |-> mr, max_unused |-> mu] :
                 kp \in {0, 1}, co \in BOOLEAN, un \in BOOLEAN, ra \in BOOLEAN, nr \in BOOLEAN,
                 id \in BOOLEAN, mr \in Limits, mu \in Limits}}

RunOpts(ra, id, ed) ==
    [DefaultOpts EXCEPT !.repack_all = ra, !.instant_delete = id, !.early_delete_index = ed,
                        !.no_resize = TRUE, !.max_unused.n = 0]

\* One place, or a mark in both files, for each of three packs, in all modes; a fourth
\* pack is in no index file.
RunInputs ==
    {[files |-> FilesOf(<<p1, p2, p3>>, pl, (p1 :> <<a, b>>) @@ (p2 :> <<b>>) @@ (p3 :> <<t, u>>)),
      used |-> us, stored |-> {p1, p2, p3, p4}, intact |-> {p1, p2, p3}, opts |-> RunOpts(ra, id, ed),
      execute |-> TRUE] :
        pl \in [{p1, p2, p3} -> {{q} : q \in Places} \cup {{1, 2} \X {"packs_to_delete"}}],
        us \in {{b}, {t}, {a, b, t, u}}, ra \in BOOLEAN, id \in BOOLEAN, ed \in BOOLEAN}

\* Marks without blobs, as prune makes them of packs in no index file: the second file
\* lists all its packs so, some of which the first file has, marked or not.
WithoutBlobs(section) == [k \in DOMAIN section |-> [section[k] EXCEPT !.blobs = <<>>]]
EmptyMarkInputs ==
    {[i EXCEPT !.files[2].packs_to_delete = WithoutBlobs(@)] :
        i \in {[files |-> FilesOf(<<p1, p2, p3>>, pl, (p1 :> <<a, b>>) @@ (p2 :> <<b>>) @@ (p3 :> <<t, u>>)),
                used |-> us, stored |-> {p1, p2, p3, p4}, intact |-> {p1, p2, p3}, opts |-> RunOpts(ra, id, ed),
                execute |-> TRUE] :
                  pl \in [{p1, p2, p3} -> {{<<1, "packs">>}, {<<2, "packs_to_delete">>}, {1} \X {"packs", "packs_to_delete"},
                                          {1, 2} \X {"packs_to_delete"}, {<<1, "packs">>, <<2, "packs_to_delete">>}}],
                  us \in {{b}, {a, b, t, u}}, ra \in BOOLEAN, id \in BOOLEAN, ed \in BOOLEAN}}

AllInputs == <<DupInputs, OptionInputs, RunInputs, EmptyMarkInputs>>
=============================================================================
