---- MODULE MCLifecycle ----
\* Either one process at a time uses the repository, with two passwords and all options
\* but the lifting of append-only mode; or two at once, after one init, set and lift that
\* mode and change the chunker.  Each set of options sets one thing; two of them fit
\* together only in one order: a smaller chunk size needs the chunker which does not
\* check it.
EXTENDS Lifecycle

CONSTANTS p1, p2, pw1, pw2
VARIABLE users      \* how many at once

None == [version |-> <<>>, chunker |-> <<>>, size |-> <<>>, min |-> <<>>, compression |-> <<>>,
         append_only |-> <<>>, extra_verify |-> <<>>]
McOptions ==
    {None, [None EXCEPT !.version = <<3>>], [None EXCEPT !.chunker = <<"fixed">>],
     [None EXCEPT !.chunker = <<"rabin">>], [None EXCEPT !.size = <<0>>],
     [None EXCEPT !.append_only = <<TRUE>>], [None EXCEPT !.append_only = <<FALSE>>]}

Using == {p \in Proc : proc[p] # Closed}
Small ==
    IF users = 1 THEN ~lifted /\ Using \subseteq {p1}
    ELSE /\ inits <= 1 /\ exported = {} /\ DOMAIN keyfile \subseteq {1}
         /\ \A k \in DOMAIN keyfile : keyfile[k].pw = pw1
         /\ \A p \in Using : proc[p].cfg.size = 2

McInit == Init /\ users \in {1, 2}
McNext == Next /\ UNCHANGED users /\ Small'
McSpec == McInit /\ [][McNext]_<<vars, users>>

====
