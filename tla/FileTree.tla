------------------------------ MODULE FileTree ------------------------------
(***************************************************************************)
(* Names and links of an Ext2 file system: the path-based calls of         *)
(* Kernel/FileSystem/VirtualFileSystem.cpp (create, mkdir, link, unlink,   *)
(* rmdir, rename) over the directories, link counts, lookup caches and     *)
(* inode cache of Ext2FileSystem.cpp, with Inode::sync and flush_writes    *)
(* running beside them.                                                    *)
(*                                                                         *)
(* A call takes many steps, each under the lock of one directory (Enter    *)
(* takes it, the body releases it); most bodies also need the lock of the  *)
(* file system, and add_child and remove_child that of the child, for a    *)
(* moment.  create_directory holds the lock of the file system all along.  *)
(* Nothing is held between two steps, so whatever a call has looked up may *)
(* have changed when it uses it.                                           *)
(***************************************************************************)
EXTENDS Naturals, SequencesExt

CONSTANTS Threads,     \* callers
          Syncers,     \* SyncTask, and processes that call sync()
          Inodes,      \* the inode table
          Root,        \* EXT2_ROOT_INO
          Calls,       \* the calls made: [op, path, to]
          MaxCalls,    \* bound: calls
          MaxSyncs,    \* bound: rounds of sync()
          MaxFailures, \* bound: writes of a directory that fail (ENOSPC, EIO)
          MaxLinks,    \* max_link_count
          PerBlock,    \* the records that fill a block of a directory
          StartInode,   \* the tree at the start: inodes
          StartEntries, \* and entries
          None

VARIABLES
    inode,     \* on disk and in memory: in use, directory?, i_links_count
    entries,   \* the data of a directory: its slots, each with a pair of a
               \* name and an inode or Blank
    cache,     \* its m_lookup_cache: pairs as well, {} when not populated
    missing,   \* the indices m_inode_cache has nullptr for
    dirty,     \* m_metadata_dirty
    lock,      \* who holds the lock of each inode, and of the file system
    thread,    \* what each caller is doing
    syncer,    \* what each caller of sync() is doing
    strayed,   \* history: inodes that have a link nothing accounts for
    short,     \* history: inodes that lost or never got a link of one of their names
    kept,      \* history: entries that were removed and are still on the disk
    failed,    \* history: the VERIFYs that failed, each the end of the kernel
    budget     \* the calls, rounds and failures left

dirs == <<entries, cache, kept>>
tree == <<inode, dirs, missing, dirty, strayed, short>>
vars == <<tree, lock, thread, syncer, failed, budget>>

\* The lock of the file system has the place of inode 0, which does not exist.
FS == 0

\* The rest of a block after the last record, which spans it.
Blank == <<"", 0>>

Free == [used |-> FALSE, dir |-> FALSE, links |-> 0]

Idle == [ op |-> "none", parts |-> <<>>, to |-> <<>>, at |-> None, populated |-> FALSE,
          entered |-> FALSE, dir |-> None, name |-> None, child |-> None,
          todir |-> None, toname |-> None, tochild |-> None, new |-> None, todo |-> <<>> ]

Asleep == [ stage |-> "idle", nodes |-> {}, at |-> None ]

Init ==
    /\ inode = StartInode
    /\ entries = StartEntries
    /\ cache = [i \in Inodes |-> {}]
    /\ dirty = {}
    /\ lock = [l \in Inodes \cup {FS} |-> None]
    /\ thread = [t \in Threads |-> Idle]
    /\ syncer = [s \in Syncers |-> Asleep]
    /\ missing = {} /\ strayed = {} /\ short = {} /\ kept = {} /\ failed = {}
    /\ budget = [calls |-> MaxCalls, syncs |-> MaxSyncs, failures |-> MaxFailures]

\* traverse_as_directory: the entries of a directory, over all its blocks.
Entries(d) == SelectSeq(entries[d], LAMBDA e : e # Blank)
Listing(d) == ToSet(Entries(d))
Names(d) == {e[1] : e \in Listing(d)}
Find(pairs, name) == IF \E e \in pairs : e[1] = name
                     THEN (CHOOSE e \in pairs : e[1] = name)[2] ELSE None

\* write_directory: the list goes into the blocks it needs, the rest of the
\* last one blank; write_bytes never shrinks an inode, so the blocks beyond
\* them stay.  Records are taken to fill blocks exactly.
WriteDirectory(d, list) ==
    LET size == ((Len(list) + PerBlock - 1) \div PerBlock) * PerBlock
        old == entries[d]
    IN  [i \in 1..(IF size > Len(old) THEN size ELSE Len(old)) |->
            IF i <= Len(list) THEN list[i] ELSE IF i <= size THEN Blank ELSE old[i]]

Dirs == {i \in Inodes : inode[i].used /\ inode[i].dir}

\* How many entries of directories in use name an inode, those apart that were
\* removed and are still there.
NamesOf(i) == Cardinality({<<d, e>> \in UNION {{d} \X Listing(d) : d \in Dirs} : e[2] = i} \ kept)

\* A VERIFY that fails stops the kernel.
Up == failed = {}

----------------------------------------------------------------------------
(* References and locks *)

Refs(t) == {thread[t].at, thread[t].dir, thread[t].child, thread[t].todir,
            thread[t].tochild, thread[t].new} \ {None}

\* The inodes that somebody but the inode cache has a reference to.
Referenced == {Root} \cup UNION {Refs(t) : t \in Threads} \cup UNION {syncer[s].nodes : s \in Syncers}

Open(l, t) == lock[l] \in {None, t}
Acquire(l, t) == lock[l] = None /\ lock' = [lock EXCEPT ![l] = t]

\* The locks t holds after it has released those of a body: create_directory
\* keeps the one of the file system until it returns.
Released(t, keepFS) == [l \in Inodes \cup {FS} |->
    IF lock[l] = t /\ ~(keepFS /\ l = FS) THEN None ELSE lock[l]]

\* The rest of a call: it moves on to its next section, or ends (drops its
\* references and all its locks).
Proceed(t, th, rest) ==
    /\ thread' = [thread EXCEPT ![t] =
                    IF rest = <<>> THEN Idle ELSE [th EXCEPT !.todo = rest, !.entered = FALSE]]
    /\ lock' = Released(t, rest # <<>>)

Fail(t) == Proceed(t, thread[t], <<>>)

----------------------------------------------------------------------------
(* Calls and path resolution *)

\* A section of a call once its paths are resolved.
Section(what, at, name, node) == [do |-> what, at |-> at, name |-> name, node |-> node]
IsDir(i) == i # None /\ inode[i].dir

\* What a call does with the inodes it has found: the checks each makes before
\* its first change, then its sections; <<>> when it returns at once.
\* Permissions are not modelled.
PlanCreate(th) ==
    IF th.child # None THEN <<>>
    ELSE <<Section("alloc", th.dir, th.name, None), Section("add", th.dir, th.name, None)>>

PlanMkdir(th) ==
    IF th.child # None THEN <<>>
    ELSE <<Section("lockfs", th.dir, th.name, None), Section("alloc", th.dir, th.name, None),
           Section("add", th.dir, th.name, None), Section("dots", th.dir, th.name, None)>>

\* Mutant: the lock of the file system is taken around remove_child.
PlanUnlink_Locked(th) ==
    IF th.child = None \/ IsDir(th.child) THEN <<>>
    ELSE <<Section("lockfs", th.dir, th.name, None), Section("remove", th.dir, th.name, None)>>

PlanUnlink(th) ==
    IF th.child = None \/ IsDir(th.child) THEN <<>>
    ELSE <<Section("remove", th.dir, th.name, None)>>

PlanRmdir(th) ==
    IF ~IsDir(th.child) THEN <<>>
    ELSE <<Section("count", th.child, None, None), Section("remove", th.child, ".", None),
           Section("remove", th.child, "..", None), Section("remove", th.dir, th.name, None)>>

PlanLink(th) ==
    IF th.child = None \/ th.tochild # None \/ IsDir(th.child) THEN <<>>
    ELSE <<Section("add", th.todir, th.toname, th.child)>>

\* EDIRINTOSELF looks at the directories on the new path, which has the root
\* and th.todir only.
PlanRename(th) ==
    IF \/ th.child = None
       \/ th.child \in {Root, th.todir, th.tochild}
       \/ IsDir(th.tochild) /\ ~IsDir(th.child)
    THEN <<>>
    ELSE (IF th.tochild = None THEN <<>> ELSE <<Section("remove", th.todir, th.toname, None)>>)
           \o <<Section("add", th.todir, th.toname, th.child),
                Section("remove", th.dir, th.name, None)>>

Plan(th) == CASE th.op = "create" -> PlanCreate(th)
              [] th.op = "mkdir"  -> PlanMkdir(th)
              [] th.op = "unlink" -> PlanUnlink(th)
              [] th.op = "rmdir"  -> PlanRmdir(th)
              [] th.op = "link"   -> PlanLink(th)
              [] th.op = "rename" -> PlanRename(th)

Begin(t, call) ==
    /\ Up /\ thread[t].op = "none"
    /\ budget.calls > 0
    /\ call \in Calls
    /\ budget' = [budget EXCEPT !.calls = @ - 1]
    /\ thread' = [thread EXCEPT ![t] =
                    [Idle EXCEPT !.op = call.op, !.parts = call.path, !.to = call.to, !.at = Root]]
    /\ UNCHANGED <<tree, lock, syncer, failed>>

Resolving(t) == thread[t].op # "none" /\ thread[t].todo = <<>>

\* The lock a thread takes next, None when its next step takes none to keep.
NextLock(t) ==
    LET th == thread[t]
    IN  IF th.op = "none" \/ th.entered THEN None
        ELSE IF Resolving(t) THEN th.at
        ELSE IF Head(th.todo).do = "lockfs" THEN FS
        ELSE IF Head(th.todo).do \in {"count", "add", "remove"} THEN Head(th.todo).at
        ELSE None

Enter(t) ==
    /\ Up /\ NextLock(t) # None
    /\ lock[NextLock(t)] = None
    /\ lock' = [lock EXCEPT ![NextLock(t)] = t]
    /\ thread' = [thread EXCEPT ![t] =
                    IF NextLock(t) = FS THEN [@ EXCEPT !.todo = Tail(@)]
                                        ELSE [@ EXCEPT !.entered = TRUE]]
    /\ UNCHANGED <<tree, syncer, failed, budget>>

Populated(d) == IF cache[d] = {} THEN Listing(d) ELSE cache[d]

\* lookup(): populate_lookup_cache, which releases the lock again.
Populate(t) ==
    LET th == thread[t]
    IN  /\ Up /\ Resolving(t) /\ th.entered /\ ~th.populated
        /\ Open(FS, t)
        /\ cache' = [cache EXCEPT ![th.at] = Populated(th.at)]
        /\ thread' = [thread EXCEPT ![t].entered = FALSE, ![t].populated = TRUE]
        /\ lock' = Released(t, FALSE)
        /\ UNCHANGED <<inode, entries, kept, missing, dirty, strayed, short, syncer, failed, budget>>

\* The rest of lookup(), and of resolve_path around it.  get_inode finds no
\* inode at an index that is not allocated, and remembers that.
FindName(t) ==
    LET th == thread[t]
        index == Find(cache[th.at], Head(th.parts))
        child == IF index # None /\ inode[index].used THEN index ELSE None
        more == Len(th.parts) > 1
        first == th.dir = None                     \* the first of two paths
        found == IF first THEN [th EXCEPT !.dir = th.at, !.name = Head(th.parts), !.child = child]
                 ELSE [th EXCEPT !.todir = th.at, !.toname = Head(th.parts), !.tochild = child]
        again == [th EXCEPT !.entered = FALSE, !.populated = FALSE]
    IN  /\ Up /\ Resolving(t) /\ th.entered /\ th.populated
        /\ index = None \/ Open(FS, t)             \* get_inode
        /\ missing' = missing \cup ({index} \ {child, None})
        /\ \/ /\ more
              /\ ~IsDir(child)                     \* ENOENT, ENOTDIR
              /\ Fail(t)
           \/ /\ more
              /\ IsDir(child)
              /\ thread' = [thread EXCEPT ![t] =
                              [again EXCEPT !.at = child, !.parts = Tail(@)]]
              /\ lock' = Released(t, FALSE)
           \/ /\ ~more /\ first /\ th.to # <<>>
              /\ IF child = None THEN Fail(t)
                 ELSE /\ thread' = [thread EXCEPT ![t] =
                              [found EXCEPT !.at = Root, !.parts = th.to,
                                            !.entered = FALSE, !.populated = FALSE]]
                      /\ lock' = Released(t, FALSE)
           \/ /\ ~more /\ ~(first /\ th.to # <<>>)
              /\ Proceed(t, found, Plan(found))
        /\ UNCHANGED <<inode, dirs, dirty, strayed, short, syncer, failed, budget>>

----------------------------------------------------------------------------
(* The sections *)

At(t, what) == thread[t].todo # <<>> /\ Head(thread[t].todo).do = what
Entered(t, what) == At(t, what) /\ thread[t].entered
Rest(t) == Tail(thread[t].todo)

\* increment_link_count, when it does not return EMLINK, and
\* decrement_link_count, after its VERIFY.
CanLink(i) == inode[i].links < MaxLinks
Linked(i) == [inode EXCEPT ![i].links = @ + 1]
Unlinked(i) == [inode EXCEPT ![i].links = @ - 1]

\* create_inode up to the call of add_child: get_inode must find the inode.
AllocateInode(t) ==
    LET sec == Head(thread[t].todo)
        isDir == thread[t].op = "mkdir"
    IN  /\ Up /\ At(t, "alloc")
        /\ Open(FS, t)
        /\ \/ /\ inode[sec.at].links = 0 \/ \A i \in Inodes : inode[i].used
              /\ Fail(t)
              /\ UNCHANGED <<tree, failed>>
           \/ \E i \in Inodes :
                 /\ inode[sec.at].links > 0
                 /\ ~inode[i].used
                 /\ \A j \in Inodes : ~inode[j].used => i <= j
                 /\ inode' = [inode EXCEPT ![i] = [used |-> TRUE, dir |-> isDir,
                                                   links |-> IF isDir THEN 1 ELSE 0]]
                 /\ entries' = [entries EXCEPT ![i] = <<>>]
                 /\ cache' = [cache EXCEPT ![i] = {}]
                 /\ failed' = IF i \in missing THEN failed \cup {"new_inode"} ELSE failed
                 /\ dirty' = dirty \ {i}
                 /\ strayed' = strayed \ {i}
                 /\ Proceed(t, [thread[t] EXCEPT !.new = i], Rest(t))
                 /\ UNCHANGED <<missing, short, kept>>
        /\ UNCHANGED <<syncer, budget>>

Node(t) == IF Head(thread[t].todo).node = None THEN thread[t].new ELSE Head(thread[t].todo).node
WithChild(d, name, i) == WriteDirectory(d, Append(Entries(d), <<name, i>>))
WithoutChild(d, name) == WriteDirectory(d, SelectSeq(Entries(d), LAMBDA e : e[1] # name))

\* Mutant: the link is not counted.
AddChild_Uncounted(t) ==
    LET sec == Head(thread[t].todo)
        node == Node(t)
    IN  /\ Up /\ Entered(t, "add")
        /\ Open(FS, t) /\ Open(node, t)
        /\ sec.name \notin Names(sec.at)
        /\ entries' = [entries EXCEPT ![sec.at] = WithChild(sec.at, sec.name, node)]
        /\ cache' = [cache EXCEPT ![sec.at] = @ \cup {<<sec.name, node>>}]
        /\ dirty' = dirty \cup {sec.at, node}
        /\ Proceed(t, thread[t], Rest(t))
        /\ UNCHANGED <<inode, kept, missing, strayed, short, syncer, failed, budget>>

\* add_child.  The link is counted before the directory is written: a write
\* that fails leaves it counted.  A new directory that loses the race for its
\* name keeps the link of the "." it never gets.
AddChild(t) ==
    LET sec == Head(thread[t].todo)
        node == Node(t)
    IN  /\ Up /\ Entered(t, "add")
        /\ Open(FS, t)
        /\ \/ /\ sec.name \in Names(sec.at)        \* EEXIST
              /\ strayed' = IF IsDir(node) /\ sec.node = None THEN strayed \cup {node} ELSE strayed
              /\ Fail(t)
              /\ UNCHANGED <<inode, entries, cache, dirty, budget>>
           \/ /\ sec.name \notin Names(sec.at)
              /\ Open(node, t)
              /\ ~CanLink(node)                    \* EMLINK
              /\ Fail(t)
              /\ UNCHANGED <<inode, entries, cache, dirty, strayed, budget>>
           \/ /\ sec.name \notin Names(sec.at)
              /\ Open(node, t)
              /\ CanLink(node)
              /\ budget.failures > 0
              /\ budget' = [budget EXCEPT !.failures = @ - 1]
              /\ inode' = Linked(node)
              /\ dirty' = dirty \cup {node}
              /\ strayed' = strayed \cup {node}
              /\ Fail(t)
              /\ UNCHANGED <<entries, cache>>
           \/ /\ sec.name \notin Names(sec.at)
              /\ Open(node, t)
              /\ CanLink(node)
              /\ inode' = Linked(node)
              /\ entries' = [entries EXCEPT ![sec.at] = WithChild(sec.at, sec.name, node)]
              /\ cache' = [cache EXCEPT ![sec.at] = @ \cup {<<sec.name, node>>}]
              /\ dirty' = dirty \cup {sec.at, node}
              /\ Proceed(t, thread[t], Rest(t))
              /\ UNCHANGED <<strayed, budget>>
        /\ UNCHANGED <<kept, missing, short, syncer, failed>>

\* The end of create_directory: the two entries of the new directory, and the
\* link its ".." is to the parent, which may be one too many (EMLINK) when
\* the entries have been written.
WriteDots(t) ==
    LET dir == Head(thread[t].todo).at
        new == thread[t].new
    IN  /\ Up /\ At(t, "dots")
        /\ Open(new, t)
        /\ \/ /\ Open(dir, t)
              /\ entries' = [entries EXCEPT ![new] = WriteDirectory(new, <<<<".", new>>, <<"..", dir>>>>)]
              /\ \/ CanLink(dir)  /\ inode' = Linked(dir) /\ dirty' = dirty \cup {new, dir}
                                  /\ UNCHANGED short
                 \/ ~CanLink(dir) /\ short' = short \cup {dir} /\ dirty' = dirty \cup {new}
                                  /\ UNCHANGED inode
              /\ UNCHANGED <<strayed, budget>>
           \/ /\ budget.failures > 0
              /\ budget' = [budget EXCEPT !.failures = @ - 1]
              /\ strayed' = strayed \cup {new}
              /\ UNCHANGED <<entries, inode, dirty, short>>
        /\ Fail(t)                                 \* the last section: it returns
        /\ UNCHANGED <<cache, kept, missing, syncer, failed>>

\* remove_child.  The child comes from the lookup cache, which sync() may have
\* emptied since this thread looked the name up: ENOENT then.  A record in a
\* block that is not written again stays; one that stayed may be removed again,
\* when its inode has no link left or loses the link of another name.
RemoveChild(t) ==
    LET sec == Head(thread[t].todo)
        node == Find(cache[sec.at], sec.name)
        again == <<sec.at, <<sec.name, node>>>> \in kept
        data == WithoutChild(sec.at, sec.name)
    IN  /\ Up /\ Entered(t, "remove")
        /\ \/ /\ node = None
              /\ Fail(t)
              /\ UNCHANGED <<inode, dirs, dirty, short, failed, budget>>
           \/ /\ node # None
              /\ Open(FS, t)
              /\ budget.failures > 0
              /\ budget' = [budget EXCEPT !.failures = @ - 1]
              /\ Fail(t)
              /\ UNCHANGED <<inode, dirs, dirty, short, failed>>
           \/ /\ node # None
              /\ Open(FS, t) /\ Open(node, t)
              /\ entries' = [entries EXCEPT ![sec.at] = data]
              /\ kept' = kept \cup {<<sec.at, e>> : e \in {e \in ToSet(data) : e[1] = sec.name}}
              /\ cache' = [cache EXCEPT ![sec.at] = {e \in @ : e[1] # sec.name}]
              /\ \/ inode[node].links > 0 /\ inode' = Unlinked(node) /\ UNCHANGED failed
                 \/ inode[node].links = 0 /\ failed' = failed \cup {"i_links_count"} /\ UNCHANGED inode
              /\ dirty' = dirty \cup {i \in {sec.at, node} : inode[i].used}
              /\ short' = IF again THEN short \cup {node} ELSE short
              /\ Proceed(t, thread[t], Rest(t))
              /\ UNCHANGED budget
        /\ UNCHANGED <<missing, strayed, syncer>>

\* rmdir: directory_entry_count.
CountEntries(t) ==
    LET dir == Head(thread[t].todo).at
    IN  /\ Up /\ Entered(t, "count")
        /\ Open(FS, t)
        /\ cache' = [cache EXCEPT ![dir] = Populated(dir)]
        /\ IF Cardinality(Populated(dir)) = 2 THEN Proceed(t, thread[t], Rest(t)) ELSE Fail(t)
        /\ UNCHANGED <<inode, entries, kept, missing, dirty, strayed, short, syncer, failed, budget>>

----------------------------------------------------------------------------
(* sync() *)

\* Inode::sync collects the inodes whose metadata is dirty.
SyncBegin(s) ==
    /\ Up /\ syncer[s].stage = "idle"
    /\ budget.syncs > 0
    /\ budget' = [budget EXCEPT !.syncs = @ - 1]
    /\ syncer' = [syncer EXCEPT ![s] = [stage |-> "metadata", nodes |-> dirty, at |-> None]]
    /\ UNCHANGED <<tree, lock, thread, failed>>

\* One of them: VERIFY(is_metadata_dirty()), then flush_metadata takes its lock.
SyncEnter(s) ==
    /\ Up /\ syncer[s].stage = "metadata" /\ syncer[s].at = None
    /\ \E i \in syncer[s].nodes :
          /\ failed' = IF i \in dirty THEN failed ELSE failed \cup {"is_metadata_dirty"}
          /\ Acquire(i, s)
          /\ syncer' = [syncer EXCEPT ![s].at = i]
    /\ UNCHANGED <<tree, thread, budget>>

\* flush_metadata, which throws the lookup cache of a directory away.
FlushMetadata(s) ==
    LET i == syncer[s].at
    IN  /\ Up /\ i # None
        /\ Open(FS, s)
        /\ cache' = IF IsDir(i) /\ inode[i].links > 0 THEN [cache EXCEPT ![i] = {}] ELSE cache
        /\ dirty' = dirty \ {i}
        /\ lock' = Released(s, FALSE)
        /\ syncer' = [syncer EXCEPT ![s].at = None, ![s].nodes = @ \ {i}]
        /\ UNCHANGED <<inode, entries, kept, missing, thread, strayed, short, failed, budget>>

\* Mutant: an inode without links is freed although somebody has it open.
Gone_Referenced(i) == inode[i].used /\ inode[i].links = 0

\* ~Ext2FSInode frees the inode when it has no links left.
Gone(i) == inode[i].used /\ i \notin Referenced /\ inode[i].links = 0

DirtyAfter == dirty \cap Referenced

\* Ext2FS::flush_writes: inodes nobody refers to leave the inode cache (their
\* metadata is flushed first), and the ones without links are freed.  The loop
\* over the inode cache dereferences what is there.
FlushWrites(s) ==
    LET gone == {i \in Inodes : Gone(i)}
        lost == UNION {{d} \X Listing(d) : d \in gone} \ kept
    IN  /\ Up /\ syncer[s].stage = "metadata" /\ syncer[s].nodes = {}
        /\ Open(FS, s)
        /\ cache' = [i \in Inodes |-> IF i \in Referenced THEN cache[i] ELSE {}]
        /\ dirty' = DirtyAfter
        /\ inode' = [i \in Inodes |-> IF i \in gone THEN Free ELSE inode[i]]
        /\ entries' = [i \in Inodes |-> IF i \in gone THEN <<>> ELSE entries[i]]
        /\ kept' = {k \in kept : k[1] \notin gone}
        /\ strayed' = (strayed \cup {p[2][2] : p \in lost}) \ gone
        /\ failed' = IF missing = {} THEN failed ELSE failed \cup {"m_inode_cache"}
        /\ syncer' = [syncer EXCEPT ![s] = Asleep]
        /\ UNCHANGED <<missing, short, lock, thread, budget>>

----------------------------------------------------------------------------

Next ==
    \/ \E t \in Threads, call \in Calls : Begin(t, call)
    \/ \E t \in Threads : Enter(t)
    \/ \E t \in Threads : Populate(t)
    \/ \E t \in Threads : FindName(t)
    \/ \E t \in Threads : AllocateInode(t)
    \/ \E t \in Threads : AddChild(t)
    \/ \E t \in Threads : WriteDots(t)
    \/ \E t \in Threads : RemoveChild(t)
    \/ \E t \in Threads : CountEntries(t)
    \/ \E s \in Syncers : SyncBegin(s)
    \/ \E s \in Syncers : SyncEnter(s)
    \/ \E s \in Syncers : FlushMetadata(s)
    \/ \E s \in Syncers : FlushWrites(s)

Spec == Init /\ [][Next]_vars

----------------------------------------------------------------------------
(* Properties *)

\* Type invariant of the inodes, the directories, the locks and the callers.
TypeOK ==
    /\ inode \in [Inodes -> [used : BOOLEAN, dir : BOOLEAN, links : Nat]]
    /\ \A d \in Inodes : \A e \in Listing(d) \cup cache[d] : e[2] \in Inodes
    /\ dirty \subseteq {i \in Inodes : inode[i].used}
    /\ lock \in [Inodes \cup {FS} -> Threads \cup Syncers \cup {None}]
    /\ \A t \in Threads : Refs(t) \subseteq Inodes

\* A lookup cache, populated, emptied by sync() and updated one name at a
\* time, never names anything the directory does not, nor another inode:
\* remove_child takes the inode it unlinks from there.  Every entry of a
\* directory in use names an inode in use, whatever calls crossed each other,
\* failed half way or lost the race for a name; what a caller has a reference
\* to is not freed under it; and remove_child and create_inode find the inode
\* they look for, with a link to take away.  The exception is a name that was
\* removed and is still on the disk (in a block write_directory no longer
\* needed), and an inode that lost its link to the second removal of one.
NoDanglingName ==
    /\ TypeOK
    /\ \A d \in Inodes : cache[d] \subseteq Listing(d)
    /\ \A d \in Dirs : \A e \in Listing(d) :
           inode[e[2]].used \/ <<d, e>> \in kept \/ e[2] \in short
    /\ \A t \in Threads : \A i \in Refs(t) : inode[i].used
    /\ failed \subseteq {"is_metadata_dirty"} \/ \E k \in kept : k[2][1] # ".."

\* The link count of an inode is never below the number of its names, but for
\* a parent that had max_link_count links when create_directory had written
\* the ".." of a new directory, and an inode that lost its link to a name that
\* was removed before.  It is above it in known cases only: a directory
\* create_directory is at work on, an entry that could not be written after
\* its link was counted, a new directory whose name somebody else took, and
\* the children of a directory that rmdir removed while a name was added to it.
LinksCounted ==
    \A i \in Inodes : inode[i].used =>
        /\ inode[i].links >= NamesOf(i) \/ i \in short
        /\ inode[i].links > NamesOf(i) =>
               i \in strayed \cup {thread[t].new : t \in Threads}

\* Inode::sync: VERIFY(inode.is_metadata_dirty()).
SyncVerified == "is_metadata_dirty" \notin failed

\* A name that was removed is gone from the disk.
RemovedIsGone == kept = {}

\* The locks a thread waits for while somebody else has them.
Needs(t) ==
    LET th == thread[t]
        sec == Head(th.todo)
        node == IF sec.do = "remove" THEN Find(cache[sec.at], sec.name)
                ELSE IF sec.node = None THEN th.new ELSE sec.node
    IN  IF NextLock(t) # None THEN {NextLock(t)}
        ELSE IF th.op = "none" THEN {}
        ELSE IF Resolving(t) \/ sec.do \in {"alloc", "count"} THEN {FS}
        ELSE IF sec.do = "dots" THEN {sec.at, th.new}
        ELSE {FS, node} \ {None}

WaitsFor(p) ==
    {lock[l] : l \in IF p \in Threads THEN Needs(p)
                     ELSE IF syncer[p].at # None THEN {FS} ELSE {}} \ {None, p}

\* A thread that asks for a lock against the order "directory before child
\* before file system": create_directory asks for the parent's with the one
\* of the file system in hand, rmdir for the parent's with the child's in
\* hand, rename for the lock of a directory that is nowhere below.
AgainstOrder(t) ==
    /\ t \in Threads
    /\ \/ thread[t].op = "mkdir" /\ lock[FS] = t
       \/ Entered(t, "remove") /\ Head(thread[t].todo).name = ".."
       \/ Entered(t, "add") /\ thread[t].op = "rename" /\ IsDir(thread[t].child)

\* Callers that wait for each other's locks for ever are possible (a mkdir
\* against any lookup in the same parent is enough), and always with one of
\* the three calls that ask for locks against the order among them.
DeadlocksAreKnown ==
    \A D \in SUBSET (Threads \cup Syncers) :
        (D # {} /\ \A p \in D : WaitsFor(p) \cap D # {}) => \E p \in D : AgainstOrder(p)

\* No callers wait for each other's locks.
NoDeadlock ==
    \A D \in SUBSET (Threads \cup Syncers) :
        D # {} => \E p \in D : WaitsFor(p) \cap D = {}

\* A name the directory has is found: populate_lookup_cache leaves the whole
\* directory in the cache or the lookup that follows is out of date.
LookupsFind ==
    \A t \in Threads :
        Resolving(t) /\ thread[t].entered /\ thread[t].populated =>
            (Head(thread[t].parts) \in Names(thread[t].at)
                => Find(cache[thread[t].at], Head(thread[t].parts)) # None)
=============================================================================
