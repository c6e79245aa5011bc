------------------------------ MODULE UpdateSlot ------------------------------
(***************************************************************************)
(* UpdateStandbySlot of create_standby/update_slot.py: the entries of the  *)
(* new image's file table are put into the standby slot by worker threads, *)
(* the first file of a digest as a hard link to its resource, the others   *)
(* as copies or as hard links to the head of their group.                  *)
(***************************************************************************)
EXTENDS Naturals, FiniteSets, Sequences

CONSTANTS
    Entries, Threads,
    DigestOf,       \* an entry's digest
    GroupOf,        \* its inode_id when links_count > 1, else NoGroup
    Inlined,        \* entries whose contents are in the file table
    ConcurrentTasks,
    NoGroup

VARIABLES
    phase,          \* dirs, non_regular, regular, then returned or raised
    todo,           \* what iter_regular_entries has still to give
    firsts,         \* _first_prepared_digest
    se,             \* _se
    pool,           \* what was submitted and not yet begun
    thread,         \* a thread's entry and whether it is the digest's first
    group,          \* _hardlink_group: the head's inode
    inode,          \* the inode of an entry's file on the slot
    reports,        \* _internal_que: <<number, ended>> as the reporter sees it
    interrupted

us_vars == <<phase, todo, firsts, se, pool, thread, group, inode, reports, interrupted>>

Groups == {GroupOf[e] : e \in Entries} \ {NoGroup}
Missing == <<"missing">>
NoTask == <<>>

USInit ==
    /\ phase = "dirs" /\ todo = Entries /\ firsts = {} /\ se = ConcurrentTasks
    /\ pool = <<>> /\ thread = [t \in Threads |-> NoTask]
    /\ group = [g \in Groups |-> Missing] /\ inode = [e \in Entries |-> Missing]
    /\ reports = [count |-> 0, ended |-> FALSE] /\ interrupted = FALSE

\* _process_dir_entries, then _process_non_regular_files; a failure of either
\* is raised at once.
ProcessDirsAndNonRegular ==
    /\ phase \in {"dirs", "non_regular"}
    /\ \/ phase' = IF phase = "dirs" THEN "non_regular" ELSE "regular"
       \/ phase' = "raised"
    /\ UNCHANGED <<todo, firsts, se, pool, thread, group, inode, reports, interrupted>>

\* The loop of _process_regular_file_entries looks at _interrupted before it
\* waits for the semaphore.  The first entry of a digest is decided here, not
\* in the thread.
NextEntry ==
    /\ phase = "regular" /\ ~interrupted /\ todo # {}
    /\ phase' = "acquire"
    /\ UNCHANGED <<todo, firsts, se, pool, thread, group, inode, reports, interrupted>>

Submit ==
    /\ phase = "acquire" /\ se > 0
    /\ \E e \in todo :
        /\ todo' = todo \ {e}
        /\ pool' = Append(pool, <<e, DigestOf[e] \notin firsts>>)
        /\ firsts' = firsts \union {DigestOf[e]}
    /\ se' = se - 1
    /\ phase' = "regular"
    /\ UNCHANGED <<thread, group, inode, reports, interrupted>>

\* The pool is left, with or without an early return, once its tasks are done.
LeaveLoop ==
    /\ phase = "regular"
    /\ todo = {} \/ interrupted
    /\ phase' = "waiting"
    /\ UNCHANGED <<todo, firsts, se, pool, thread, group, inode, reports, interrupted>>

Begin(t) ==
    /\ pool # <<>> /\ thread[t] = NoTask
    /\ thread' = [thread EXCEPT ![t] = Head(pool)]
    /\ pool' = Tail(pool)
    /\ UNCHANGED <<phase, todo, firsts, se, group, inode, reports, interrupted>>

\* Mutation: whoever comes first to the resource in a thread links to it.
AlwaysLink(e, first) == <<"resource", DigestOf[e]>>

\* prepare_regular_hardlink for the first of a digest, prepare_regular_copy
\* for the others, prepare_regular_inlined
Prepared(e, first) ==
    IF first /\ e \notin Inlined THEN <<"resource", DigestOf[e]>> ELSE <<"own", e>>

\* The first file of a digest is counted when its resource is collected.
Reported(first, e, headed) ==
    IF ~first \/ (e \in Inlined /\ ~headed) THEN 1 ELSE 0

NoteFailure(ok) == interrupted' = (interrupted \/ ~ok)

\* _process_hardlinked_file_at_thread, under the lock, or
\* _process_normal_file_at_thread; then _task_done_cb.  A failed entry is
\* unlinked.
Process(t) ==
    /\ thread[t] # NoTask
    /\ LET e == thread[t][1]
           first == thread[t][2]
           g == GroupOf[e]
           headed == g # NoGroup /\ group[g] # Missing
           got == IF headed THEN group[g] ELSE Prepared(e, first)
       IN  \E ok \in BOOLEAN :
            /\ inode' = IF ok THEN [inode EXCEPT ![e] = got] ELSE inode
            /\ group' = IF ok /\ g # NoGroup THEN [group EXCEPT ![g] = got] ELSE group
            /\ reports' =
                 IF reports.ended THEN reports
                 ELSE IF ok
                 THEN [reports EXCEPT !.count = @ + Reported(first, e, headed)]
                 ELSE [reports EXCEPT !.ended = TRUE]
            /\ se' = se + 1
            /\ NoteFailure(ok)
    /\ thread' = [thread EXCEPT ![t] = NoTask]
    /\ UNCHANGED <<phase, todo, firsts, pool>>

\* finally: the reporter gets None and is joined.
Finish ==
    /\ phase = "waiting" /\ pool = <<>> /\ \A t \in Threads : thread[t] = NoTask
    /\ reports' = [reports EXCEPT !.ended = TRUE]
    /\ phase' = IF interrupted THEN "raised" ELSE "returned"
    /\ UNCHANGED <<todo, firsts, se, pool, thread, group, inode, interrupted>>

USOver == phase \in {"returned", "raised"} /\ UNCHANGED us_vars

USMain == ProcessDirsAndNonRegular \/ NextEntry \/ Submit \/ LeaveLoop \/ Finish

USNext == USMain \/ (\E t \in Threads : Begin(t) \/ Process(t)) \/ USOver

(***************************************************************************)
(* Properties                                                              *)
(***************************************************************************)

\* update_slot returns only when every regular file of the image is there.
SlotComplete == phase = "returned" => \A e \in Entries : inode[e] # Missing

\* Whatever thread comes first, two files share an inode on the slot only if
\* they do in the image: no file is an alias of another through the resource
\* both were prepared from.
InodesAsInImage ==
    \A e, f \in Entries :
        e # f /\ inode[e] # Missing /\ inode[f] # Missing
            => (inode[e] = inode[f] <=> GroupOf[e] = GroupOf[f] /\ GroupOf[e] # NoGroup)

\* The progress of applying the delta counts every file that is not the first
\* of its digest once, in whatever order the threads come to them; the first
\* ones were counted with their resources, except those inlined.
ProgressCounted ==
    phase = "returned"
        => LET rest == Cardinality(Entries) - Cardinality(firsts)
           IN  reports.count \in rest .. rest + Cardinality(Inlined)

==============================================================================
