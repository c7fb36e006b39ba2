------------------------------- MODULE MCReads -------------------------------
(***************************************************************************)
(* Three ways to read a repository, one at a time: streaming its trees,    *)
(* reading files of a mounted repository, and restoring a snapshot.        *)
(***************************************************************************)
EXTENDS TreeStream, Mount, MCRestore

CONSTANTS t1, t2, t3, t4, t5    \* trees

VARIABLE part           \* which of them

\* Trees are shared by siblings, by roots and within one tree.
McSubtrees == [t \in {t1, t2, t3, t4, t5} |->
    CASE t = t1 -> <<t2, t3>> [] t = t2 -> <<t4>> [] t = t3 -> <<t4, t4>> [] t = t4 -> <<>> [] t = t5 -> <<t3, t2>>]
McRoots == {<<>>, <<t1>>, <<t1, t5>>, <<t5, t1, t5>>, <<t4, t1>>}
McBad == {{}, {t4}, {t2}}

\* Files that shrank, grew and vanished while they were read
McContent == <<<<1, 2>>, <<2, 3, 1>>, <<>>>>
McData == <<<<"a", "b">>, <<"c">>, <<"d", "e">>>>
McSize == <<2, 7, 1>>

StreamIdle ==
    /\ roots = <<>> /\ bad = {} /\ new = <<>> /\ visited = {} /\ queue_in = <<>> /\ queue_out = <<>>
    /\ loader = [l \in Loader |-> Ended] /\ counter = <<>> /\ finished_ids = 0
    /\ consumer = "done" /\ got = <<>>

MountIdle ==
    /\ snaps = {} /\ ever = {} /\ stored = {} /\ index = {} /\ vfs = <<>> /\ fresh = <<>>
    /\ reader = [r \in Readers |-> Closed]

IdleJob == Job("local", <<>>, Nothing, {"dry_run"})
RestoreIdle ==
    /\ job = IdleJob /\ phase = "done" /\ dest = IdleJob.dest /\ inode = IdleJob.inode
    /\ src = <<>> /\ todo = <<>> /\ plan = NoPlan
    /\ warm = [left |-> {}, up |-> {}, ready |-> {}] /\ packsRead = {} /\ tasks = {} /\ writes = {} /\ senders = {}
    /\ writer = <<>> /\ dirs = <<>> /\ cancelled = FALSE

ReadsInit ==
    \/ part = "stream" /\ StreamInit /\ MountIdle /\ RestoreIdle
    \/ part = "mount" /\ MountInit /\ StreamIdle /\ RestoreIdle
    \/ part = "restore" /\ RestoreInit /\ StreamIdle /\ MountIdle

ReadsNext ==
    \/ part = "stream" /\ StreamNext /\ UNCHANGED <<mountVars, restoreVars, part>>
    \/ part = "mount" /\ MountNext /\ UNCHANGED <<streamVars, restoreVars, part>>
    \/ part = "restore" /\ RestoreNext /\ UNCHANGED <<streamVars, mountVars, part>>

ReadsSpec ==
    /\ ReadsInit /\ [][ReadsNext]_<<streamVars, mountVars, restoreVars, part>>
    /\ WF_streamVars(StreamNext) /\ WF_restoreVars(Step)
=============================================================================
