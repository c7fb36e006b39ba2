---- MODULE MCRestore ----
\* Four blobs in two packs.  A snapshot with a directory, in it a file and a hard link
\* to another one; destinations which are empty or hold older files, what an earlier
\* restore has left (with its hard links), directories in place of files, files in place
\* of directories, and entries which the snapshot does not have.
EXTENDS Restore

McPackOf == <<1, 1, 1, 2>>

File(p, c) == [path |-> p, kind |-> "file", content |-> c, link |-> 0]
Dir(p) == [path |-> p, kind |-> "dir", content |-> <<>>, link |-> 0]
Special(p) == [path |-> p, kind |-> "special", content |-> <<>>, link |-> 0]
Linked(p, c) == [File(p, c) EXCEPT !.link = 1]

Old(c, time) == [kind |-> "file", content |-> c, mtime |-> time]
OldDir == [kind |-> "dir", content |-> <<>>, mtime |-> "old"]

\* A destination, given as a function from paths to files.
Destination(d) == [dest |-> [p \in DOMAIN d |-> <<0>> \o p],
                   inode |-> [i \in {<<0>> \o p : p \in DOMAIN d} |-> d[Tail(i)]]]
Nothing == [p \in {} |-> OldDir]
At(p, f) == [q \in {p} |-> f]
And(d, e) == [p \in DOMAIN d \cup DOMAIN e |-> IF p \in DOMAIN d THEN d[p] ELSE e[p]]

Job(kind, nodes, d, opts) ==
    [kind |-> kind, nodes |-> nodes, dest_path |-> <<>>, dest |-> Destination(d).dest, inode |-> Destination(d).inode,
     delete |-> "delete" \in opts, dry_run |-> "dry_run" \in opts,
     no_compare |-> "no_compare" \in opts, verify_existing |-> "verify_existing" \in opts,
     warm_up |-> "none", wait |-> "none", batch |-> 2]

Nested == <<Linked(<<1>>, <<1, 2>>), Dir(<<2>>), File(<<2, 1>>, <<2, 1, 3>>), Linked(<<2, 2>>, <<1, 2>>), File(<<3>>, <<>>)>>
Flat == <<File(<<1>>, <<1, 2, 3>>), File(<<2>>, <<3, 4, 1>>)>>
Typed == <<Dir(<<1>>), Special(<<1, 1>>), File(<<2>>, <<4>>)>>

\* Older versions of the first file and of the file in the directory.
Versions == {Nothing, At(<<1>>, Old(<<1, 0>>, "old")), At(<<1>>, Old(<<1, 2, 0>>, "snap")),
             At(<<1>>, Old(<<0, 2>>, "snap")), At(<<1>>, Old(<<1, 2>>, "old"))}
Inner == {Nothing, And(At(<<2>>, OldDir), At(<<2, 1>>, Old(<<2, 0, 3>>, "old"))),
          And(At(<<2>>, OldDir), And(At(<<2, 1>>, Old(<<1, 1>>, "old")), At(<<2, 3>>, Old(<<4>>, "old"))))}
LocalInputs ==
    {Job("local", Nested, And(v, i), o) :
        v \in Versions, i \in Inner,
        o \in {{}, {"delete"}, {"verify_existing"}, {"no_compare", "delete"}, {"dry_run", "delete"}}}
FlatOlds == {And(v, w) : v \in {Nothing, At(<<1>>, Old(<<1, 2, 3>>, "old")), At(<<1>>, Old(<<1, 2, 0>>, "old")),
                                At(<<1>>, Old(<<0, 2, 3>>, "old"))},
                         w \in {Nothing, At(<<2>>, Old(<<3, 4, 0>>, "old")), At(<<2>>, Old(<<3>>, "old"))}}
FlatInputs == {Job("local", Flat, d, {}) : d \in FlatOlds}
TypedInputs ==
    {Job("local", Typed, And(a, b), o) :
        a \in {Nothing, And(At(<<1>>, OldDir), At(<<1, 1>>, Old(<<2>>, "old")))},
        b \in {Nothing, And(At(<<2>>, OldDir), At(<<2, 1>>, Old(<<3>>, "old"))), At(<<3>>, Old(<<4>>, "snap"))},
        o \in {{"delete"}}}
\* The links have been restored before, as links or as files of their own; a file is in
\* place of the directory, which without `delete` stays.
LinkedTo(d, p, q) == [d EXCEPT !.dest = [x \in DOMAIN @ \cup {q} |-> IF x = q THEN @[p] ELSE @[x]]]
LinkInputs ==
    {Job("local", Nested, And(At(<<1>>, Old(c, "old")), d), o) :
        c \in {<<1, 2>>, <<3, 2>>}, o \in {{}, {"delete"}, {"verify_existing"}},
        d \in {And(At(<<2>>, OldDir), At(<<2, 2>>, Old(<<1, 2>>, "old"))), At(<<2>>, Old(<<1>>, "old"))}}
    \cup {LinkedTo(Job("local", Nested, And(At(<<1>>, Old(c, "old")), At(<<2>>, OldDir)), {}), <<1>>, <<2, 2>>) :
             c \in {<<1, 2>>, <<3, 2>>}}

AppendInputs == {Job("append", Flat, d, {}) : d \in FlatOlds}

\* Ways to warm up, and batches smaller than the number of packs.
WarmInputs ==
    {[Job("local", Flat, d, {}) EXCEPT !.warm_up = w[1], !.wait = w[2], !.batch = w[3]] :
        d \in {Nothing, At(<<1>>, Old(<<0, 2, 3>>, "old"))},
        w \in {<<"singular", "none", 2>>, <<"singular", "command", 1>>, <<"plural", "command", 2>>,
               <<"access", "none", 1>>, <<"access", "command", 1>>, <<"none", "command", 2>>}}

McInputs == LinkInputs \cup LocalInputs \cup FlatInputs \cup TypedInputs \cup AppendInputs \cup WarmInputs

\* A file in which a blob occurs twice before the part that has changed.
Repeated == <<File(<<1>>, <<1, 1, 2>>)>>
McRepeated == {Job("append", Repeated, At(<<1>>, Old(<<1, 1, 0>>, "old")), {})}

\* A restore below <<5>>, of two files which are hard links of each other.
McBelow == {[Job("local", <<Linked(<<1>>, <<1>>), Linked(<<2>>, <<1>>)>>, Nothing, {}) EXCEPT !.dest_path = <<5>>]}

\* Hard links to an append-only destination.
McLinksAppended == {Job("append", Nested, Nothing, {})}

\* An entry of another kind, and nothing is to be deleted.
McKinds == {Job("local", Typed, At(<<1>>, Old(<<1>>, "old")), {})}
====
