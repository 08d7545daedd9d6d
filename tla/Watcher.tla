------------------------------- MODULE Watcher -------------------------------
(***************************************************************************)
(* The recursive file watcher: the directories it watches, the registry of *)
(* checksums that keeps it from reporting the same content twice, its      *)
(* exclusions and its life cycle, against a file system that changes while *)
(* the watcher walks it.                                                   *)
(*                                                                         *)
(* A path is the sequence of its names, <<>> is the root of the source; a  *)
(* glob pattern is the set of paths that it matches; the content of a file *)
(* is a number, 0 if there is no file.  External are the file system, and  *)
(* fsnotify: it reports what happens in a directory as long as that is     *)
(* watched, in order, and its queue and the watcher's are one here.        *)
(***************************************************************************)
EXTENDS Naturals, Sequences

CONSTANTS
    Dirs, Files,        \* the paths that may exist
    Contents,           \* of files
    Patterns,           \* glob patterns for Ignore
    AddDirs,            \* the directories that Add is called for
    NamePrefixes,       \* pairs of names, the first a string prefix of the other
    MaxOps, MaxCalls    \* bounds on file operations and on calls of the API

Root == <<>>
Paths == Dirs \cup Files
Parent(x) == SubSeq(x, 1, Len(x) - 1)
Under(d, x) == Len(x) > Len(d) /\ SubSeq(x, 1, Len(d)) = d
Above(x) == {SubSeq(x, 1, n) : n \in 0..Len(x) - 1}

ASSUME WatcherAssumption ==
    /\ Paths \subseteq Seq(STRING)
    /\ Root \in Dirs /\ Dirs \cap Files = {}
    /\ \A x \in Paths \ {Root} : x # <<>> /\ Parent(x) \in Dirs
    /\ Contents \subseteq Nat \ {0} /\ Contents # {}
    /\ Patterns \subseteq SUBSET Paths /\ AddDirs \subseteq Dirs
    /\ MaxOps \in Nat /\ MaxCalls \in Nat

Ops == {"create", "write", "remove", "rename"}
NoEvent == [op |-> "none", path |-> Root]

VARIABLES
    dirs, content,      \* the file system
    kwatch, queue,      \* fsnotify: watched directories, events not handled yet
    fsClosed,           \* fsnotify.Watcher.Close was called
    watchedDirs, exclude, checksum, state,      \* Watcher; 0 is no checksum
    signal,             \* w.close is closed
    ctxDone,
    rpc, ev,            \* progress of Run, and the event it handles
    walker,             \* who holds the lock to walk a tree: nobody, Run or Add
    todo, cur, names,   \* paths still to visit; the directory visited, if any, and its entries
    closing,            \* Close is about to close fsnotify's watcher
    ops, calls,
    announced,          \* history: directories whose creation fsnotify saw, and that were
                        \* not excluded when that, or a walk, was handled
    seen,               \* history: the same for directories that a walk saw, without a
                        \* removal that waits; a walk that breaks off takes back the rest
    told,               \* history: files whose last change fsnotify saw
    reported,           \* history: content last reported, or registered by Run
    forgotten,          \* history: files whose checksum was dropped on purpose
    lost                \* history: directories recorded although they could not be watched,
                        \* and no event tells

fsVars == <<dirs, content, ops>>
notifyVars == <<kwatch, queue, fsClosed>>
stateVars == <<state, signal, ctxDone, closing, calls>>
walkVars == <<walker, todo, cur, names>>
historyVars == <<announced, seen, told, reported, forgotten, lost>>
vars == <<fsVars, notifyVars, watchedDirs, exclude, checksum, stateVars, rpc, ev,
          walkVars, historyVars>>

Exists(x) == x \in dirs \/ (x \in Files /\ content[x] # 0)
Children(d) == {x \in Paths \ {Root} : Parent(x) = d /\ Exists(x)}
Free == walker = "nobody"       \* the lock

RunPcs == {"idle", "register", "loop", "handle", "walk", "callback", "stuck", "failed",
           "returned"}

TypeOK ==
    /\ dirs \subseteq Dirs /\ Root \in dirs
    /\ \A x \in Paths : Exists(x) => Above(x) \subseteq dirs
    /\ content \in [Files -> Contents \cup {0}]
    /\ queue \in Seq([op : Ops, path : Paths])
    /\ kwatch \subseteq dirs
    /\ watchedDirs \subseteq Dirs /\ exclude \subseteq Patterns
    /\ checksum \in [Files -> Contents \cup {0}] /\ reported \in [Files -> Contents \cup {0}]
    /\ state \in {"new", "running", "closed"} /\ (state = "closed" <=> signal)
    /\ rpc \in RunPcs /\ ev \in [op : Ops, path : Paths] \cup {NoEvent}
    /\ walker \in {"nobody", "run", "api"} /\ todo \subseteq Paths
    /\ cur \in {{}} \cup {{d} : d \in Dirs} /\ names \subseteq Paths
    /\ (rpc \in {"register", "walk"} <=> walker = "run")
    /\ {fsClosed, ctxDone, closing} \subseteq BOOLEAN
    /\ ops \in 0..MaxOps /\ calls \in 0..MaxCalls
    /\ announced \cup seen \cup lost \subseteq Dirs /\ told \cup forgotten \subseteq Files

Init ==
    /\ dirs \in SUBSET Dirs /\ Root \in dirs
    /\ content \in [Files -> {0, CHOOSE c \in Contents : TRUE}]
    /\ \A x \in Paths : Exists(x) => Above(x) \subseteq dirs
    /\ kwatch = {} /\ queue = <<>> /\ fsClosed = FALSE
    /\ watchedDirs = {} /\ exclude = {} /\ checksum = [f \in Files |-> 0]
    /\ state = "new" /\ signal = FALSE /\ ctxDone = FALSE /\ closing = FALSE
    /\ rpc = "idle" /\ ev = NoEvent
    /\ walker = "nobody" /\ todo = {} /\ cur = {} /\ names = {}
    /\ ops = 0 /\ calls = 0
    /\ announced = {} /\ seen = {} /\ told = {} /\ reported = checksum /\ forgotten = {} /\ lost = {}

-----------------------------------------------------------------------------
(* The file system and fsnotify *)

Event(op, x) == [op |-> op, path |-> x]

\* fsnotify reports what happens in the watched directories, and that one is removed.
Emit(event) ==
    queue' = IF {event.path, Parent(event.path)} \cap kwatch = {} THEN queue
                                                                   ELSE Append(queue, event)

\* Bounds: MaxOps operations, and none of interest once Run ends or hangs.
Operate ==
    /\ ops < MaxOps /\ rpc \notin {"stuck", "failed", "returned"}
    /\ ops' = ops + 1
    /\ UNCHANGED <<fsClosed, watchedDirs, exclude, checksum, stateVars, rpc, ev, walkVars,
                   reported, forgotten, lost>>

\* Run registered the files, and sees the change of a file from now on.
Tell(f) == told' = IF Parent(f) \in kwatch /\ rpc \notin {"idle", "register"}
                   THEN told \cup {f} ELSE told \ {f}

Mkdir(d) ==
    /\ d \notin dirs /\ Parent(d) \in dirs
    /\ dirs' = dirs \cup {d}
    /\ Emit(Event("create", d))
    /\ announced' = IF Parent(d) \in kwatch THEN announced \cup {d} ELSE announced \ {d}
    /\ seen' = seen \ {d}
    /\ Operate
    /\ UNCHANGED <<content, kwatch, told>>

Rmdir(d) ==
    /\ d \in dirs \ {Root} /\ Children(d) = {}
    /\ dirs' = dirs \ {d}
    /\ Emit(Event("remove", d))
    /\ kwatch' = kwatch \ {d} /\ announced' = announced \ {d} /\ seen' = seen \ {d}
    /\ Operate
    /\ UNCHANGED <<content, told>>

\* A file is created or written, perhaps with what it held before.
Write(f, c) ==
    /\ Parent(f) \in dirs
    /\ content' = [content EXCEPT ![f] = c]
    /\ Emit(Event(IF content[f] = 0 THEN "create" ELSE "write", f))
    /\ Tell(f)
    /\ Operate
    /\ UNCHANGED <<dirs, kwatch, announced, seen>>

\* The file is removed, or renamed to what is created or written then.
Delete(f, op) ==
    /\ content[f] # 0
    /\ content' = [content EXCEPT ![f] = 0]
    /\ Emit(Event(op, f))
    /\ Tell(f)
    /\ Operate
    /\ UNCHANGED <<dirs, kwatch, announced, seen>>

FileSystem ==
    \/ \E d \in Dirs : Mkdir(d) \/ Rmdir(d)
    \/ \E f \in Files :
        \/ \E c \in Contents : Write(f, c)
        \/ \E op \in {"remove", "rename"} : Delete(f, op)

\* Whether an event of the kind waits, or is the one that Run is about to handle.
Pending(op, x) ==
    \/ \E i \in DOMAIN queue : queue[i] = Event(op, x)
    \/ rpc = "handle" /\ ev = Event(op, x)

\* The removal of the directory, or of one above it, was not handled yet.
RemovalPending(d) == \E x \in Above(d) \cup {d} : Pending("remove", x)

-----------------------------------------------------------------------------
(* Watcher.isExcluded, Watcher.remove and the registry *)

Excluded(x) == x # Root /\ \E pattern \in exclude : x \in pattern

\* filereg.RemoveWithPrefix compares strings: "a" is a prefix of "a/f" and of "ab".
HasPrefix(d, x) ==
    \/ Under(d, x)
    \/ /\ d # Root /\ Len(x) >= Len(d) /\ Parent(d) = SubSeq(x, 1, Len(d) - 1)
       /\ <<d[Len(d)], x[Len(d)]>> \in NamePrefixes

Subtree(d) == {d} \cup {x \in Dirs : Under(d, x)}

\* Mutant: the sub-directories stay recorded.
UnwatchOneRecord(ds) ==
    LET gone == ds \cap watchedDirs IN
    /\ watchedDirs' = watchedDirs \ gone
    /\ kwatch' = kwatch \ UNION {Subtree(d) : d \in gone}
    /\ checksum' = [f \in Files |-> IF \E d \in gone : HasPrefix(d, f) THEN 0 ELSE checksum[f]]
    /\ forgotten' = forgotten \cup {f \in Files : \E d \in gone : Under(d, f)}
    /\ lost' = lost \ gone

\* remove, for each of ds that is watched: the watches of the directory and of all
\* below it, and the checksums of the files there.
Unwatch(ds) ==
    LET gone == ds \cap watchedDirs
        all == UNION {Subtree(d) : d \in gone}
    IN  /\ watchedDirs' = watchedDirs \ all
        /\ kwatch' = kwatch \ (all \cap watchedDirs)
        /\ checksum' = [f \in Files |-> IF \E d \in gone : HasPrefix(d, f) THEN 0
                                                                          ELSE checksum[f]]
        /\ forgotten' = forgotten \cup {f \in Files : \E d \in gone : Under(d, f)}
        /\ lost' = lost \ all

-----------------------------------------------------------------------------
(* Watcher.add: filepath.Walk under the lock *)

BeginWalk(who, d) ==
    /\ walker' = who
    /\ todo' = {d}
    /\ UNCHANGED <<cur, names>>

\* Mutant: the lock is not released.
EndWalkLocked ==
    /\ UNCHANGED walker
    /\ todo' = {} /\ cur' = {} /\ names' = {}
    /\ seen' = {d \in seen : \A x \in todo \cup names : d # x /\ ~Under(x, d)}

EndWalk ==
    /\ walker' = "nobody" /\ todo' = {} /\ cur' = {} /\ names' = {}
    /\ seen' = {d \in seen : \A x \in todo \cup names : d # x /\ ~Under(x, d)}

\* Walk goes on in depth first.
Next1(x) == x \in todo /\ \A y \in todo : Len(y) <= Len(x)

\* A path is looked at, a directory's names are read.  A path that is gone ends the
\* walk: an error that Add returns and that handleEvent ignores.
Visit(x) ==
    /\ rpc # "register" /\ walker # "nobody" /\ cur = {} /\ Next1(x)
    /\ IF ~Exists(x)
         THEN /\ EndWalk
              /\ rpc' = IF walker = "run" THEN "loop" ELSE rpc
         ELSE /\ todo' = todo \ {x}
              /\ IF x \in Dirs THEN cur' = {x} /\ names' = Children(x)
                               ELSE UNCHANGED <<cur, names>>
              /\ seen' = IF x \in Dirs
                           THEN seen \cup {d \in Dirs \cap Children(x) : ~RemovalPending(d)}
                           ELSE seen
              /\ UNCHANGED <<walker, rpc>>
    /\ UNCHANGED <<fsVars, notifyVars, watchedDirs, exclude, checksum, stateVars, ev,
                   announced, told, reported, forgotten, lost>>

\* The directory is watched, only now that its names were read; then they are visited.
Watch(d) ==
    /\ ~Excluded(d) /\ d \notin watchedDirs /\ d \in dirs /\ ~fsClosed
    /\ watchedDirs' = watchedDirs \cup {d} /\ kwatch' = kwatch \cup {d}
    /\ todo' = todo \cup names
    /\ cur' = {} /\ names' = {}
    /\ UNCHANGED <<fsVars, queue, fsClosed, exclude, checksum, stateVars, rpc, ev, walker,
                   historyVars>>

\* fsnotify cannot watch it: it is gone, which handleEvent ignores, or fsnotify was
\* closed, which ends Run.
WatchFails(d) ==
    /\ ~Excluded(d) /\ d \notin watchedDirs
    /\ d \notin dirs \/ fsClosed
    /\ watchedDirs' = watchedDirs \cup {d}
    /\ rpc' = IF walker = "api" THEN rpc ELSE IF fsClosed THEN "failed" ELSE "loop"
    /\ lost' = IF Pending("remove", d) THEN lost ELSE lost \cup {d}
    /\ EndWalk
    /\ UNCHANGED <<fsVars, notifyVars, exclude, checksum, stateVars, ev, announced, told,
                   reported, forgotten>>

\* An excluded directory is left out, its sub-directories are not.
SkipExcluded(d) ==
    /\ Excluded(d)
    /\ todo' = todo \cup names
    /\ cur' = {} /\ names' = {}
    /\ announced' = announced \ {d} /\ seen' = seen \ {d}
    /\ UNCHANGED <<fsVars, notifyVars, watchedDirs, exclude, checksum, stateVars, rpc, ev,
                   walker, told, reported, forgotten, lost>>

\* The walk is over, or it met a directory that is watched already.
WalkEnds ==
    /\ rpc # "register" /\ walker # "nobody"
    /\ \/ cur = {} /\ todo = {}
       \/ \E d \in cur : ~Excluded(d) /\ d \in watchedDirs
    /\ EndWalk
    /\ rpc' = IF walker = "run" THEN "callback" ELSE rpc
    /\ UNCHANGED <<fsVars, notifyVars, watchedDirs, exclude, checksum, stateVars, ev,
                   announced, told, reported, forgotten, lost>>

WalkStep ==
    \/ \E x \in Paths : Visit(x)
    \/ \E d \in cur : Watch(d) \/ WatchFails(d) \/ SkipExcluded(d)
    \/ WalkEnds

-----------------------------------------------------------------------------
(* Watcher.Run *)

RunStart ==
    /\ rpc = "idle" /\ Free
    /\ IF state = "closed" THEN rpc' = "returned" /\ UNCHANGED walkVars
                           ELSE rpc' = "register" /\ BeginWalk("run", Root)
    /\ UNCHANGED <<fsVars, notifyVars, watchedDirs, exclude, checksum, stateVars, ev,
                   historyVars>>

\* fswalk.Files: a path that is gone makes Run return, without a Close.
Register(x) ==
    /\ rpc = "register" /\ Next1(x)
    /\ todo' = (todo \ {x}) \cup (IF x \in dirs THEN Children(x) ELSE {})
    /\ IF Exists(x)
         THEN /\ IF x \in Files /\ ~Excluded(x)
                   THEN /\ checksum' = [checksum EXCEPT ![x] = content[x]]
                        /\ reported' = [reported EXCEPT ![x] = content[x]]
                   ELSE UNCHANGED <<checksum, reported>>
              /\ UNCHANGED <<state, rpc, walker>>
         ELSE /\ rpc' = "returned" /\ state' = "running" /\ walker' = "nobody"
              /\ UNCHANGED <<checksum, reported>>
    /\ UNCHANGED <<fsVars, notifyVars, watchedDirs, exclude, signal, ctxDone, closing, calls,
                   ev, cur, names, announced, seen, told, forgotten, lost>>

Registered ==
    /\ rpc = "register" /\ todo = {}
    /\ rpc' = "loop" /\ state' = "running" /\ walker' = "nobody"
    /\ UNCHANGED <<fsVars, notifyVars, watchedDirs, exclude, checksum, signal, ctxDone,
                   closing, calls, ev, todo, cur, names, historyVars>>

TakeEvent ==
    /\ rpc = "loop" /\ queue # <<>>
    /\ rpc' = "handle" /\ ev' = Head(queue) /\ queue' = Tail(queue)
    /\ UNCHANGED <<fsVars, kwatch, fsClosed, watchedDirs, exclude, checksum, stateVars,
                   walkVars, historyVars>>

\* Close was called; the deferred Close finds the watcher closed.
SeeClose ==
    /\ rpc = "loop" /\ signal
    /\ rpc' = "returned"
    /\ UNCHANGED <<fsVars, notifyVars, watchedDirs, exclude, checksum, stateVars, ev,
                   walkVars, historyVars>>

\* The state is closed here, so the deferred Close returns at once.
SeeDone ==
    /\ rpc = "loop" /\ ctxDone /\ Free
    /\ state' = "closed" /\ signal' = TRUE
    /\ rpc' = "returned"
    /\ UNCHANGED <<fsVars, notifyVars, watchedDirs, exclude, checksum, ctxDone, closing,
                   calls, ev, walkVars, historyVars>>

\* fsnotify reports an error, an overflow of the kernel's queue for example.
FsnotifyError ==
    /\ rpc = "loop" /\ ~fsClosed
    /\ rpc' = "failed"
    /\ UNCHANGED <<fsVars, notifyVars, watchedDirs, exclude, checksum, stateVars, ev,
                   walkVars, historyVars>>

\* Run returns an error; its deferred Close closes fsnotify's watcher.
Fail ==
    /\ rpc = "failed" /\ Free
    /\ rpc' = "returned"
    /\ IF state = "closed" THEN UNCHANGED <<state, signal, fsClosed, kwatch>>
         ELSE state' = "closed" /\ signal' = TRUE /\ fsClosed' = TRUE /\ kwatch' = {}
    /\ UNCHANGED <<fsVars, queue, watchedDirs, exclude, checksum, ctxDone, closing, calls,
                   ev, walkVars, historyVars>>

-----------------------------------------------------------------------------
(* Watcher.handleEvent *)

Handling == rpc = "handle" /\ Free

HandleExcluded ==
    /\ Handling /\ Excluded(ev.path)
    /\ rpc' = "loop"
    /\ announced' = announced \ {ev.path} /\ seen' = seen \ {ev.path} /\ told' = told \ {ev.path}
    /\ UNCHANGED <<fsVars, notifyVars, watchedDirs, exclude, checksum, stateVars, ev,
                   walkVars, reported, forgotten, lost>>

\* A directory that exists was created: it is walked.
HandleDirCreated ==
    /\ Handling /\ ~Excluded(ev.path) /\ ev.op = "create" /\ ev.path \in dirs
    /\ rpc' = "walk" /\ BeginWalk("run", ev.path)
    /\ UNCHANGED <<fsVars, notifyVars, watchedDirs, exclude, checksum, stateVars, ev,
                   historyVars>>

\* A directory that is watched was removed or renamed, perhaps long ago.
HandleDirRemoved ==
    /\ Handling /\ ~Excluded(ev.path) /\ ev.op \in {"remove", "rename"}
    /\ ev.path \in watchedDirs
    /\ Unwatch({ev.path})
    /\ rpc' = "callback"
    /\ UNCHANGED <<fsVars, queue, fsClosed, exclude, stateVars, ev, walkVars, announced,
                   seen, told, reported>>

\* Mutant: the checksum stored is not the one compared with.
ChecksumKept(f) == IF checksum[f] = 0 THEN content[f] ELSE checksum[f]

\* filereg.Registry.Add
ChecksumAdded(f) == content[f]

\* A file, or a directory that is gone, was created or written: what cannot be opened
\* is forgotten, what has the registered checksum is no change.
HandleFileChanged ==
    /\ Handling /\ ~Excluded(ev.path) /\ ev.op \in {"create", "write"}
    /\ ev.path \notin dirs
    /\ LET f == ev.path
           readable == f \in Files /\ Exists(f)
       IN  /\ rpc' = IF readable /\ checksum[f] # content[f] THEN "callback" ELSE "loop"
           /\ checksum' = [g \in Files |-> IF g # f THEN checksum[g]
                                           ELSE IF readable THEN ChecksumAdded(g) ELSE 0]
           /\ reported' = [g \in Files |-> IF g = f /\ rpc' = "callback" THEN content[g]
                                                                        ELSE reported[g]]
           /\ forgotten' = IF readable THEN forgotten \ {f} ELSE forgotten \cup ({f} \cap Files)
    /\ UNCHANGED <<fsVars, notifyVars, watchedDirs, exclude, stateVars, ev, walkVars,
                   announced, seen, told, lost>>

\* Any other path was removed or renamed.
HandleFileRemoved ==
    /\ Handling /\ ~Excluded(ev.path) /\ ev.op \in {"remove", "rename"}
    /\ ev.path \notin watchedDirs
    /\ rpc' = "callback"
    /\ checksum' = [f \in Files |-> IF f = ev.path THEN 0 ELSE checksum[f]]
    /\ reported' = [f \in Files |-> IF f = ev.path THEN 0 ELSE reported[f]]
    /\ UNCHANGED <<fsVars, notifyVars, watchedDirs, exclude, stateVars, ev, walkVars,
                   announced, seen, told, forgotten, lost>>

\* onChange returns; an error ends Run.
CallbackReturns ==
    /\ rpc = "callback"
    /\ rpc' \in {"loop", "failed"}
    /\ UNCHANGED <<fsVars, notifyVars, watchedDirs, exclude, checksum, stateVars, ev,
                   walkVars, historyVars>>

\* onChange waits for a debouncer that the cancellation ended (ChangeHandler,
\* HandlerReturns), or for a command that does not end: Run never goes on.
CallbackBlocks ==
    /\ rpc = "callback" /\ ctxDone
    /\ rpc' = "stuck"
    /\ UNCHANGED <<fsVars, notifyVars, watchedDirs, exclude, checksum, stateVars, ev,
                   walkVars, historyVars>>

RunStep ==
    \/ \E x \in Paths : Register(x)
    \/ Registered \/ TakeEvent \/ SeeClose \/ SeeDone \/ Fail
    \/ HandleExcluded \/ HandleDirCreated \/ HandleDirRemoved
    \/ HandleFileChanged \/ HandleFileRemoved \/ CallbackReturns

-----------------------------------------------------------------------------
(* The API: calls take the lock and do nothing once the watcher is closed. *)

Call ==
    /\ Free /\ state # "closed" /\ calls < MaxCalls
    /\ calls' = calls + 1

Add(d) ==
    /\ Call
    /\ BeginWalk("api", d)
    /\ UNCHANGED <<fsVars, notifyVars, watchedDirs, exclude, checksum, state, signal,
                   ctxDone, closing, rpc, ev, historyVars>>

Remove(d) ==
    /\ Call
    /\ Unwatch({d})
    /\ LET out == IF d \in watchedDirs THEN Subtree(d) ELSE {}
       IN  announced' = announced \ out /\ seen' = seen \ out
    /\ UNCHANGED <<fsVars, queue, fsClosed, exclude, state, signal, ctxDone, closing, rpc,
                   ev, walkVars, told, reported>>

\* The registry is emptied; directories that are excluded now are removed.
Ignore(pattern) ==
    /\ Call
    /\ exclude' = exclude \cup {pattern}
    /\ LET out == {d \in watchedDirs \ {Root} : \E p \in exclude' : d \in p}
           all == UNION {Subtree(d) : d \in out}
       IN  /\ watchedDirs' = watchedDirs \ all
           /\ kwatch' = kwatch \ (all \cap watchedDirs)
           /\ announced' = announced \ all /\ seen' = seen \ all /\ lost' = lost \ all
    /\ checksum' = [f \in Files |-> 0] /\ forgotten' = Files
    /\ UNCHANGED <<fsVars, queue, fsClosed, state, signal, ctxDone, closing, rpc, ev,
                   walkVars, told, reported>>

Unignore(pattern) ==
    /\ Call /\ pattern \in exclude
    /\ exclude' = exclude \ {pattern}
    /\ UNCHANGED <<fsVars, notifyVars, watchedDirs, checksum, state, signal, ctxDone,
                   closing, rpc, ev, walkVars, historyVars>>

\* Close says so under the lock and closes fsnotify's watcher without it.
Close ==
    /\ Call
    /\ state' = "closed" /\ signal' = TRUE /\ closing' = TRUE
    /\ UNCHANGED <<fsVars, notifyVars, watchedDirs, exclude, checksum, ctxDone, rpc, ev,
                   walkVars, historyVars>>

CloseFsnotify ==
    /\ closing
    /\ closing' = FALSE /\ fsClosed' = TRUE /\ kwatch' = {}
    /\ UNCHANGED <<fsVars, queue, watchedDirs, exclude, checksum, state, signal, ctxDone,
                   calls, rpc, ev, walkVars, historyVars>>

CancelContext ==
    /\ ~ctxDone
    /\ ctxDone' = TRUE
    /\ UNCHANGED <<fsVars, notifyVars, watchedDirs, exclude, checksum, state, signal,
                   closing, calls, rpc, ev, walkVars, historyVars>>

Api ==
    \/ \E d \in AddDirs : Add(d)
    \/ \E d \in Dirs \ {Root} : Remove(d)
    \/ \E pattern \in Patterns : Ignore(pattern) \/ Unignore(pattern)
    \/ Close

Next ==
    \/ FileSystem \/ WalkStep \/ RunStart \/ RunStep \/ FsnotifyError \/ CallbackBlocks
    \/ Api \/ CloseFsnotify \/ CancelContext

\* Goroutines are scheduled, walks go on, the callback returns unless it hangs, and
\* Close ends.
Fairness == WF_vars(WalkStep) /\ WF_vars(RunStep) /\ WF_vars(CloseFsnotify)

Spec == Init /\ [][Next]_vars
FairSpec == Spec /\ Fairness

-----------------------------------------------------------------------------
(* Properties *)

Settled == rpc = "loop" /\ Free /\ queue = <<>> /\ state = "running"

\* However directories come and go while events about them wait and other walks break
\* off, a directory is watched once all events are handled if fsnotify saw its creation
\* and it was not excluded then; also one that only a walk saw, while no removal of it
\* waited and if the walk got there: a walk ends at a path that is gone or a directory
\* that is recorded, and leaves out the rest.  (What such a walk leaves out and no event
\* announced may never be watched: AllWatched, AddIsRecursive; what is lost is not.)
NoticedDirsWatched ==
    Settled => \A d \in ((announced \cup seen) \cap dirs) \ lost : d \in kwatch

\* watchedDirs does not drift from what fsnotify watches, also when directories are
\* removed and created again: a watch without a record would outlive Remove, and a
\* walk stops at a record, so that one without a watch would hide the directory.
WatchesAgree ==
    Settled => /\ kwatch \subseteq watchedDirs
               /\ watchedDirs \ lost \subseteq kwatch

\* The last change of a file that fsnotify saw is reported: neither the comparison
\* of checksums nor an event that is handled late hides it.
ChangesReported == Settled => \A f \in told : reported[f] = content[f]

\* README: events are deduplicated by checksum; the same content is reported again
\* only after the registry had to forget the file.
NoRepeat ==
    [][ \A f \in Files :
        rpc = "handle" /\ rpc' = "callback" /\ ev.path = f /\ ev.op \in {"create", "write"}
            => content[f] # reported[f] \/ f \in forgotten ]_vars

\* Run returns when its context is done or the watcher is closed, also when it is in the
\* middle of an event or of a walk, unless the callback hangs after the cancellation.
RunReturns == (ctxDone \/ signal) ~> (rpc \in {"idle", "stuck", "returned"})

\* README: the source directory is watched recursively.
AllWatched == Settled /\ Root \in kwatch => \A d \in dirs : Excluded(d) \/ d \in kwatch

\* handleEvent: a directory that is unwatched since it was removed is added again by an
\* event of its creation, or of the creation of one above it.
RemovedIsReadded ==
    [][ rpc = "handle" /\ rpc' = "callback" /\ ev.path \in kwatch \ kwatch'
            => \E x \in Above(ev.path) \cup {ev.path} : Pending("create", x)' ]_vars

\* Add starts watching the directory and all of its subdirectories recursively.
AddIsRecursive ==
    [][ \A d \in AddDirs : walker = "api" /\ walker' = "nobody" /\ d \in kwatch /\ ops = 0
            => \A x \in dirs : Under(d, x) => Excluded(x) \/ x \in kwatch ]_vars

\* Close stops watching everything and closes the watcher; Run defers it.
ClosedAfterRun == rpc = "returned" /\ state = "closed" /\ ~closing => fsClosed
=============================================================================
