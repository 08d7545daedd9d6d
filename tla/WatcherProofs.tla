--------------------------- MODULE WatcherProofs ---------------------------
(***************************************************************************)
(* Proofs about Watcher for every tree of directories and files, every set *)
(* of patterns and every number of file operations and calls: types, the   *)
(* lock, the registry of checksums, the records of watched directories,    *)
(* and what the events that wait say of directories and of files.          *)
(***************************************************************************)
EXTENDS Watcher, SequenceTheorems, TLAPS

\* What the proofs need of WatcherAssumption.
LEMMA Bounds == MaxOps \in Nat /\ MaxCalls \in Nat
BY WatcherAssumption

LEMMA PathFacts == /\ Root \in Dirs /\ Dirs \cap Files = {}
                   /\ Contents \subseteq Nat \ {0} /\ Contents # {}
BY WatcherAssumption

LEMMA AppendType ==
  ASSUME NEW S, NEW q \in Seq(S), NEW e \in S
  PROVE  Append(q, e) \in Seq(S)
OBVIOUS

LEMMA HeadAndTailType ==
  ASSUME NEW S, NEW q \in Seq(S), q # <<>>
  PROVE  Head(q) \in S /\ Tail(q) \in Seq(S)
OBVIOUS

USE Bounds

-----------------------------------------------------------------------------
(* Paths *)

LEMMA PathTypes ==
    /\ Paths \subseteq Seq(STRING) /\ Root \in Seq(STRING) /\ Len(Root) = 0
    /\ \A x \in Paths \ {Root} : Len(x) > 0 /\ Parent(x) \in Dirs
<1>1. Paths \subseteq Seq(STRING) /\ \A x \in Paths \ {Root} : x # <<>> /\ Parent(x) \in Dirs
  BY WatcherAssumption
<1>2. \A x \in Seq(STRING) : x # <<>> => Len(x) > 0
  BY EmptySeq, LenProperties
<1>3. Root \in Seq(STRING) /\ Len(Root) = 0
  BY EmptySeq DEF Root
<1>. QED  BY <1>1, <1>2, <1>3

\* A prefix of a prefix is a prefix.
LEMMA Prefixes ==
  ASSUME NEW x \in Seq(STRING), NEW j \in 0..Len(x)
  PROVE  /\ SubSeq(x, 1, j) \in Seq(STRING) /\ Len(SubSeq(x, 1, j)) = j
         /\ \A n \in 0..j : SubSeq(SubSeq(x, 1, j), 1, n) = SubSeq(x, 1, n)
<1>1. Len(x) \in Nat
  BY LenProperties
<1>2. \A i \in 1..j : x[i] \in STRING
  BY <1>1, ElementOfSeq
<1>3. SubSeq(x, 1, j) \in Seq(STRING) /\ Len(SubSeq(x, 1, j)) = j
  BY <1>1, <1>2, SubSeqProperties
<1>4. ASSUME NEW n \in 0..j PROVE SubSeq(SubSeq(x, 1, j), 1, n) = SubSeq(x, 1, n)
  <2>1. CASE n = 0
    BY <2>1, SubSeqEmpty
  <2>2. CASE n > 0
    <3>1. 1 \in 1..Len(x) /\ j \in 1..Len(x) /\ 1 \in 1..j-1+1 /\ n \in 1..j-1+1
      BY <1>1, <2>2
    <3>2. SubSeq(SubSeq(x, 1, j), 1, n) = SubSeq(x, 1+1-1, 1+n-1)
      BY <3>1, SubSeqOfSubSeq
    <3>. QED  BY <3>2
  <2>. QED  BY <2>1, <2>2
<1>. QED  BY <1>3, <1>4

\* The directories above a path are its parent and those above the parent.
LEMMA AboveParent ==
  ASSUME NEW x \in Seq(STRING), Len(x) > 0
  PROVE  /\ Above(x) = Above(Parent(x)) \cup {Parent(x)} /\ x \notin Above(x)
         /\ Parent(x) \in Seq(STRING)
<1>1. Len(x) \in Nat /\ Len(x) - 1 \in 0..Len(x)
  BY LenProperties
<1>2. /\ Parent(x) \in Seq(STRING) /\ Len(Parent(x)) = Len(x) - 1
      /\ \A n \in 0..Len(x) - 1 : SubSeq(Parent(x), 1, n) = SubSeq(x, 1, n)
  BY <1>1, Prefixes DEF Parent
<1>3. Above(Parent(x)) = {SubSeq(x, 1, n) : n \in 0..Len(x) - 1 - 1}
  BY <1>1, <1>2 DEF Above
<1>4. Parent(x) = SubSeq(x, 1, Len(x) - 1)
  BY DEF Parent
<1>5. \A n \in 0..Len(x) - 1 : Len(SubSeq(x, 1, n)) = n
  BY <1>1, Prefixes
<1>6. x \notin Above(x)
  BY <1>1, <1>5 DEF Above
<1>7. Above(x) = Above(Parent(x)) \cup {Parent(x)}
  <2>1. \A n : n \in 0..Len(x) - 1 <=> n \in 0..Len(x) - 1 - 1 \/ n = Len(x) - 1
    BY <1>1
  <2>. QED  BY <2>1, <1>3, <1>4, Zenon DEF Above
<1>. QED  BY <1>2, <1>6, <1>7

\* A directory above a path is the parent of the path or of one above it.
LEMMA AboveChild ==
  ASSUME NEW x \in Seq(STRING), NEW d \in Above(x)
  PROVE  d = Parent(x) \/ \E y \in Above(x) : Parent(y) = d /\ Len(y) > 0
<1>1. PICK n \in 0..Len(x) - 1 : d = SubSeq(x, 1, n)
  BY DEF Above
<1>2. Len(x) \in Nat
  BY LenProperties
<1>3. CASE n = Len(x) - 1
  BY <1>1, <1>3 DEF Parent
<1>4. CASE n # Len(x) - 1
  <2> DEFINE y == SubSeq(x, 1, n + 1)
  <2>1. n + 1 \in 0..Len(x) - 1 /\ n + 1 \in 0..Len(x) /\ n \in 0..n + 1
    BY <1>2, <1>4
  <2>2. y \in Above(x)
    BY <2>1 DEF Above
  <2>3. Len(y) = n + 1 /\ SubSeq(y, 1, n) = d
    BY <1>1, <2>1, Prefixes
  <2>4. Parent(y) = d
    BY <2>3 DEF Parent
  <2>5. Len(y) > 0
    BY <1>2, <2>3
  <2> HIDE DEF y
  <2>. QED  BY <2>2, <2>4, <2>5
<1>. QED  BY <1>3, <1>4

LEMMA UnderAbove ==
  ASSUME NEW x \in Seq(STRING), NEW d \in Seq(STRING)
  PROVE  Under(d, x) <=> d \in Above(x)
<1>1. Len(x) \in Nat /\ Len(d) \in Nat
  BY LenProperties
<1>2. ASSUME Under(d, x) PROVE d \in Above(x)
  <2>1. Len(d) \in 0..Len(x) - 1 /\ d = SubSeq(x, 1, Len(d))
    BY <1>1, <1>2 DEF Under
  <2>. QED  BY <2>1, Zenon DEF Above
<1>3. ASSUME d \in Above(x) PROVE Under(d, x)
  <2>1. PICK n \in 0..Len(x) - 1 : d = SubSeq(x, 1, n)
    BY <1>3 DEF Above
  <2>2. Len(d) = n
    BY <1>1, <2>1, Prefixes
  <2>. QED  BY <1>1, <2>1, <2>2 DEF Under
<1>. QED  BY <1>2, <1>3

-----------------------------------------------------------------------------
(* The invariant, by groups of variables. *)

\* All directories above what exists exist.
TreeInv ==
    /\ dirs \subseteq Dirs /\ Root \in dirs
    /\ content \in [Files -> Contents \cup {0}]
    /\ \A x \in Paths : Exists(x) => Above(x) \subseteq dirs
    /\ ops \in 0..MaxOps

\* fsnotify watches only directories that exist and that the watcher recorded.
WatchInv ==
    /\ kwatch \subseteq dirs /\ kwatch \subseteq watchedDirs
    /\ watchedDirs \subseteq Dirs /\ exclude \subseteq Patterns
    /\ queue \in Seq([op : Ops, path : Paths])
    /\ fsClosed \in BOOLEAN

\* Run holds the lock exactly while it registers files or walks a new directory,
\* so it is never closed in the middle of the registration.
LockInv ==
    /\ state \in {"new", "running", "closed"} /\ (state = "closed" <=> signal)
    /\ rpc \in RunPcs /\ walker \in {"nobody", "run", "api"}
    /\ rpc \in {"register", "walk"} <=> walker = "run"
    /\ rpc = "register" => state # "closed"
    /\ ev \in [op : Ops, path : Paths] \cup {NoEvent}
    /\ {ctxDone, closing} \subseteq BOOLEAN /\ calls \in 0..MaxCalls

WalkInv ==
    /\ todo \subseteq Paths /\ names \subseteq Paths
    /\ cur \in {{}} \cup {{d} : d \in Dirs}

HistoryInv ==
    announced \cup seen \cup lost \subseteq Dirs /\ told \cup forgotten \subseteq Files

\* A checksum is that of the content reported last.
SumInv ==
    /\ checksum \in [Files -> Contents \cup {0}]
    /\ reported \in [Files -> Contents \cup {0}]
    /\ \A f \in Files : checksum[f] # 0 => reported[f] = checksum[f]

\* One that is missing was dropped on purpose or belongs to a file that was reported
\* as removed, or never.
RegistryInv == SumInv /\ \A f \in Files : checksum[f] = 0 => f \in forgotten \/ reported[f] = 0

TypeInv == TreeInv /\ WatchInv /\ LockInv /\ WalkInv /\ HistoryInv

LEMMA InitHasInv == Init => TypeInv /\ RegistryInv
<1> SUFFICES ASSUME Init PROVE TypeInv /\ RegistryInv
  OBVIOUS
<1>1. TreeInv
  <2>1. content \in [Files -> Contents \cup {0}]
    BY PathFacts DEF Init
  <2>2. ops = 0
    BY DEF Init
  <2>3. QED
    BY <2>1, <2>2 DEF Init, TreeInv
<1>2. WatchInv /\ WalkInv /\ HistoryInv
  <2>1. queue \in Seq([op : Ops, path : Paths])
    BY DEF Init
  <2>2. QED
    BY <2>1 DEF Init, WatchInv, WalkInv, HistoryInv
<1>3. LockInv
  <2>1. state = "new" /\ ~signal /\ rpc = "idle" /\ walker = "nobody" /\ ev = NoEvent
    BY DEF Init
  <2>2. {ctxDone, closing} \subseteq BOOLEAN /\ calls \in 0..MaxCalls
    <3>1. ctxDone \in BOOLEAN /\ closing \in BOOLEAN
      BY DEF Init
    <3>2. calls \in 0..MaxCalls
      BY DEF Init
    <3>3. QED
      BY <3>1, <3>2
  <2>3. state \in {"new", "running", "closed"} /\ (state = "closed" <=> signal)
    BY <2>1
  <2>4. rpc \in RunPcs /\ walker \in {"nobody", "run", "api"}
    BY <2>1 DEF RunPcs
  <2>5. rpc \notin {"register", "walk"} /\ walker # "run" /\ rpc # "register"
    BY <2>1
  <2>6. QED
    BY <2>1, <2>2, <2>3, <2>4, <2>5 DEF LockInv
<1>4. RegistryInv
  BY DEF Init, RegistryInv, SumInv
<1>5. QED
  BY <1>1, <1>2, <1>3, <1>4 DEF TypeInv

-----------------------------------------------------------------------------
(* The file system and fsnotify *)

\* A directory without entries has nothing below it.
LEMMA NothingBelow ==
  ASSUME TreeInv, NEW d \in Dirs, Children(d) = {}, NEW x \in Paths, Exists(x)
  PROVE  d \notin Above(x)
<1> SUFFICES ASSUME d \in Above(x) PROVE FALSE
  OBVIOUS
<1>1. x \in Seq(STRING) /\ Above(x) \subseteq dirs /\ Above(Root) = {}
  BY PathTypes DEF TreeInv, Above
<1>2. CASE d = Parent(x)
  BY <1>1, <1>2 DEF Children
<1>3. ASSUME NEW y \in Above(x), Parent(y) = d, Len(y) > 0 PROVE FALSE
  <2>1. y \in dirs /\ y # Root
    BY <1>1, <1>3, PathTypes
  <2>2. y \in Children(d)
    BY <2>1, <1>3 DEF Children, Exists, TreeInv, Paths
  <2>. QED  BY <2>2
<1>. QED  BY <1>1, <1>2, <1>3, AboveChild

LEMMA FileSystemKeepsTypes ==
  ASSUME TypeInv, FileSystem
  PROVE  TypeInv'
<1> USE DEF TypeInv, Operate, stateVars, walkVars
<1>1. /\ UNCHANGED <<fsClosed, watchedDirs, exclude, stateVars, rpc, ev, walkVars, forgotten, lost>>
      /\ ops' \in 0..MaxOps
  <2>1. Operate
    BY DEF FileSystem, Mkdir, Rmdir, Write, Delete
  <2>2. QED
    BY <2>1 DEF TreeInv
<1>2. LockInv' /\ WalkInv'
  <2>1. UNCHANGED <<state, signal, ctxDone, closing, calls, rpc, ev, walker, todo, cur, names>>
    BY <1>1
  <2>2. LockInv'
    BY <2>1 DEF LockInv
  <2>3. WalkInv'
    BY <2>1 DEF WalkInv
  <2>4. QED
    BY <2>2, <2>3
<1>3. ASSUME NEW op \in Ops, NEW x \in Paths, Emit(Event(op, x))
      PROVE  queue' \in Seq([op : Ops, path : Paths])
  <2>1. Event(op, x) \in [op : Ops, path : Paths]
    BY DEF Event
  <2>2. queue' = queue \/ queue' = Append(queue, Event(op, x))
    BY <1>3 DEF Emit
  <2>3. queue \in Seq([op : Ops, path : Paths])
    BY DEF WatchInv
  <2>4. Append(queue, Event(op, x)) \in Seq([op : Ops, path : Paths])
    BY <2>1, <2>3, AppendType
  <2>5. QED
    BY <2>2, <2>3, <2>4
<1>4. ASSUME NEW d \in Dirs, Mkdir(d) PROVE TypeInv'
  <2>1. queue' \in Seq([op : Ops, path : Paths])
    BY <1>3, <1>4 DEF Mkdir, Ops, Paths
  <2>2. TreeInv'
    <3>1. Above(d) \subseteq dirs
      <4>1. d # Root /\ Parent(d) \in dirs
        BY <1>4 DEF Mkdir, TreeInv
      <4>2. Above(Parent(d)) \subseteq dirs
        BY <4>1 DEF TreeInv, Exists, Paths
      <4>3. Above(d) = Above(Parent(d)) \cup {Parent(d)}
        BY <4>1, PathTypes, AboveParent DEF Paths
      <4>. QED  BY <4>1, <4>2, <4>3
    <3>2. \A x \in Paths : Exists(x)' => x = d \/ Exists(x)
      BY <1>4 DEF Mkdir, Exists
    <3>3. dirs' = dirs \cup {d} /\ content' = content
      BY <1>4 DEF Mkdir
    <3>4. \A x \in Paths : Exists(x)' => Above(x) \subseteq dirs'
      BY <3>1, <3>2, <3>3 DEF TreeInv
    <3>. QED  BY <1>1, <3>3, <3>4 DEF TreeInv
  <2>3. WatchInv' /\ HistoryInv'
    BY <1>1, <1>4, <2>1 DEF Mkdir, WatchInv, HistoryInv
  <2>4. QED
    BY <1>2, <2>2, <2>3
<1>5. ASSUME NEW d \in Dirs, Rmdir(d) PROVE TypeInv'
  <2>1. queue' \in Seq([op : Ops, path : Paths])
    BY <1>3, <1>5 DEF Rmdir, Ops, Paths
  <2>2. TreeInv'
    <3>1. ASSUME NEW x \in Paths, Exists(x)' PROVE Above(x) \subseteq dirs'
      <4>1. Exists(x)
        BY <1>5, <3>1 DEF Rmdir, Exists
      <4>2. d \notin Above(x)
        BY <4>1, <1>5, NothingBelow DEF Rmdir
      <4>3. Above(x) \subseteq dirs
        BY <4>1 DEF TreeInv
      <4>4. QED
        BY <1>5, <4>2, <4>3 DEF Rmdir
    <3>2. QED
      BY <1>1, <1>5, <3>1 DEF Rmdir, TreeInv
  <2>3. WatchInv' /\ HistoryInv'
    BY <1>1, <1>5, <2>1 DEF Rmdir, WatchInv, HistoryInv
  <2>4. QED
    BY <1>2, <2>2, <2>3
<1>6. ASSUME NEW f \in Files, NEW c \in Contents, Write(f, c) PROVE TypeInv'
  <2>1. queue' \in Seq([op : Ops, path : Paths])
    BY <1>3, <1>6 DEF Write, Ops, Paths
  <2>2. TreeInv'
    <3>1. Above(f) \subseteq dirs
      <4>1. f # Root /\ Parent(f) \in dirs
        BY <1>6, PathFacts DEF Write
      <4>2. Above(Parent(f)) \subseteq dirs
        BY <4>1 DEF TreeInv, Exists, Paths
      <4>3. Above(f) = Above(Parent(f)) \cup {Parent(f)}
        BY <4>1, PathTypes, AboveParent DEF Paths
      <4>. QED  BY <4>1, <4>2, <4>3
    <3>2. content' \in [Files -> Contents \cup {0}] /\ dirs' = dirs
      BY <1>6 DEF Write, TreeInv
    <3>3. \A x \in Paths : Exists(x)' => x = f \/ Exists(x)
      BY <1>6 DEF Write, Exists, TreeInv
    <3>4. \A x \in Paths : Exists(x)' => Above(x) \subseteq dirs'
      BY <3>1, <3>2, <3>3 DEF TreeInv
    <3>. QED  BY <1>1, <3>2, <3>4 DEF TreeInv
  <2>3. WatchInv' /\ HistoryInv'
    BY <1>1, <1>6, <2>1 DEF Write, Tell, WatchInv, HistoryInv
  <2>4. QED
    BY <1>2, <2>2, <2>3
<1>7. ASSUME NEW f \in Files, NEW op \in {"remove", "rename"}, Delete(f, op) PROVE TypeInv'
  <2>1. queue' \in Seq([op : Ops, path : Paths])
    BY <1>3, <1>7 DEF Delete, Ops, Paths
  <2>2. TreeInv'
    BY <1>1, <1>7 DEF Delete, TreeInv, Exists
  <2>3. WatchInv' /\ HistoryInv'
    BY <1>1, <1>7, <2>1 DEF Delete, Tell, WatchInv, HistoryInv
  <2>4. QED
    BY <1>2, <2>2, <2>3
<1>8. QED
  BY <1>4, <1>5, <1>6, <1>7 DEF FileSystem

-----------------------------------------------------------------------------
(* The walks *)

LEMMA WalkKeepsTypes ==
  ASSUME TypeInv, WalkStep
  PROVE  TypeInv'
<1> USE DEF TypeInv, fsVars, notifyVars, stateVars, historyVars
<1>1. UNCHANGED <<fsVars, stateVars, exclude, ev, queue, fsClosed, told, forgotten>>
  BY DEF WalkStep, Visit, Watch, WatchFails, SkipExcluded, WalkEnds
<1>2. TreeInv'
  BY <1>1 DEF TreeInv, Exists
<1>3. ASSUME NEW x \in Paths, Visit(x) PROVE TypeInv'
  <2>1. WatchInv'
    BY <1>3 DEF Visit, WatchInv
  <2>2. LockInv'
    BY <1>3 DEF Visit, EndWalk, LockInv, RunPcs
  <2>3. WalkInv' /\ HistoryInv'
    BY <1>3 DEF Visit, EndWalk, WalkInv, HistoryInv, Children, Paths
  <2>4. QED
    BY <1>2, <2>1, <2>2, <2>3
<1>4. ASSUME NEW d \in cur PROVE d \in Dirs
  BY DEF WalkInv
<1>5. ASSUME NEW d \in cur, Watch(d) PROVE TypeInv'
  <2>1. WatchInv' /\ WalkInv' /\ HistoryInv'
    BY <1>4, <1>5 DEF Watch, WatchInv, WalkInv, HistoryInv
  <2>2. LockInv'
    BY <1>5 DEF Watch, LockInv
  <2>3. QED
    BY <1>2, <2>1, <2>2
<1>6. ASSUME NEW d \in cur, WatchFails(d) PROVE TypeInv'
  <2>1. WatchInv' /\ WalkInv' /\ HistoryInv'
    BY <1>4, <1>6 DEF WatchFails, EndWalk, WatchInv, WalkInv, HistoryInv
  <2>2. LockInv'
    BY <1>6 DEF WatchFails, EndWalk, LockInv, RunPcs
  <2>3. QED
    BY <1>2, <2>1, <2>2
<1>7. ASSUME NEW d \in cur, SkipExcluded(d) PROVE TypeInv'
  <2>1. WatchInv' /\ WalkInv' /\ HistoryInv'
    BY <1>7 DEF SkipExcluded, WatchInv, WalkInv, HistoryInv
  <2>2. LockInv'
    BY <1>7 DEF SkipExcluded, LockInv
  <2>3. QED
    BY <1>2, <2>1, <2>2
<1>8. CASE WalkEnds
  <2>1. WatchInv' /\ WalkInv' /\ HistoryInv'
    BY <1>8 DEF WalkEnds, EndWalk, WatchInv, WalkInv, HistoryInv
  <2>2. LockInv'
    BY <1>8 DEF WalkEnds, EndWalk, LockInv, RunPcs
  <2>3. QED
    BY <1>2, <2>1, <2>2
<1>9. QED
  BY <1>3, <1>5, <1>6, <1>7, <1>8 DEF WalkStep

LEMMA WalkKeepsRegistry ==
  ASSUME RegistryInv, WalkStep
  PROVE  RegistryInv'
BY DEF RegistryInv, SumInv, WalkStep, Visit, Watch, WatchFails, SkipExcluded, WalkEnds, historyVars

-----------------------------------------------------------------------------
(* Run and handleEvent *)

\* The steps of Run that leave everything but its own progress, the life cycle and
\* the lock alone.
LEMMA ProgressKeepsTypes ==
  ASSUME TypeInv, RunStart \/ Registered \/ SeeClose \/ SeeDone \/ FsnotifyError \/ CallbackReturns
                  \/ CallbackBlocks
  PROVE  TypeInv'
<1> USE DEF TypeInv, fsVars, notifyVars, stateVars, walkVars, historyVars
<1>1. UNCHANGED <<fsVars, notifyVars, watchedDirs, exclude, ev, cur, names, historyVars,
                  ctxDone, closing, calls>>
  BY DEF RunStart, BeginWalk, Registered, SeeClose, SeeDone, FsnotifyError, CallbackReturns,
     CallbackBlocks
<1>2. TreeInv' /\ WatchInv' /\ HistoryInv'
  BY <1>1 DEF TreeInv, Exists, WatchInv, HistoryInv
<1>3. WalkInv'
  <2>1. todo' = todo \/ todo' = {Root}
    BY DEF RunStart, BeginWalk, Registered, SeeClose, SeeDone, FsnotifyError, CallbackReturns,
       CallbackBlocks
  <2>2. QED
    BY <1>1, <2>1, PathFacts DEF WalkInv, Paths
<1>4. LockInv'
  <2>1. ev' = ev /\ ctxDone' = ctxDone /\ closing' = closing /\ calls' = calls
    BY <1>1
  <2>2. CASE RunStart
    BY <2>1, <2>2 DEF RunStart, BeginWalk, LockInv, RunPcs, Free
  <2>3. CASE Registered
    BY <2>1, <2>3 DEF Registered, LockInv, RunPcs
  <2>4. CASE SeeClose
    BY <2>1, <2>4 DEF SeeClose, LockInv, RunPcs
  <2>5. CASE SeeDone
    BY <2>1, <2>5 DEF SeeDone, LockInv, RunPcs
  <2>6. CASE FsnotifyError
    BY <2>1, <2>6 DEF FsnotifyError, LockInv, RunPcs
  <2>7. CASE CallbackReturns \/ CallbackBlocks
    BY <2>1, <2>7 DEF CallbackReturns, CallbackBlocks, LockInv, RunPcs
  <2>8. QED
    BY <2>2, <2>3, <2>4, <2>5, <2>6, <2>7
<1>5. QED
  BY <1>2, <1>3, <1>4

LEMMA RegisterKeepsTypes ==
  ASSUME TypeInv, NEW x \in Paths, Register(x)
  PROVE  TypeInv'
<1> USE DEF TypeInv, Register, fsVars, notifyVars
<1>1. TreeInv' /\ WatchInv' /\ HistoryInv'
  BY DEF TreeInv, Exists, WatchInv, HistoryInv
<1>2. WalkInv'
  BY DEF WalkInv, Children
<1>3. LockInv'
  <2>1. ~signal /\ state # "closed" /\ rpc = "register"
    BY DEF LockInv
  <2>2. CASE Exists(x)
    BY <2>1, <2>2 DEF LockInv
  <2>3. CASE ~Exists(x)
    BY <2>1, <2>3 DEF LockInv, RunPcs
  <2>4. QED
    BY <2>2, <2>3
<1>4. QED
  BY <1>1, <1>2, <1>3

LEMMA TakeEventKeepsTypes ==
  ASSUME TypeInv, TakeEvent
  PROVE  TypeInv'
<1> USE DEF TypeInv, TakeEvent, fsVars, stateVars, walkVars, historyVars
<1>1. Head(queue) \in [op : Ops, path : Paths] /\ Tail(queue) \in Seq([op : Ops, path : Paths])
  BY HeadAndTailType DEF WatchInv
<1>2. TreeInv' /\ WalkInv' /\ HistoryInv'
  BY DEF TreeInv, Exists, WalkInv, HistoryInv
<1>3. WatchInv'
  BY <1>1 DEF WatchInv
<1>4. LockInv'
  BY <1>1 DEF LockInv, RunPcs
<1>5. QED
  BY <1>2, <1>3, <1>4

LEMMA FailKeepsTypes ==
  ASSUME TypeInv, Fail
  PROVE  TypeInv'
<1> USE DEF TypeInv, Fail, fsVars, walkVars, historyVars
<1>1. TreeInv' /\ WalkInv' /\ HistoryInv'
  BY DEF TreeInv, Exists, WalkInv, HistoryInv
<1>2. WatchInv'
  BY DEF WatchInv
<1>3. LockInv'
  BY DEF LockInv, RunPcs
<1>4. QED
  BY <1>1, <1>2, <1>3

HandleStep == HandleExcluded \/ HandleDirCreated \/ HandleDirRemoved \/ HandleFileChanged
                \/ HandleFileRemoved

\* remove leaves no directory that is watched without a record.
LEMMA UnwatchKeepsWatches ==
  ASSUME WatchInv, NEW ds \in SUBSET Dirs, Unwatch(ds),
         UNCHANGED <<dirs, queue, fsClosed, exclude>>
  PROVE  WatchInv'
<1> DEFINE all == UNION {Subtree(d) : d \in ds \cap watchedDirs}
<1>1. watchedDirs' = watchedDirs \ all /\ kwatch' = kwatch \ (all \cap watchedDirs)
  BY DEF Unwatch
<1> HIDE DEF all
<1>2. QED
  BY <1>1 DEF WatchInv

LEMMA HandleKeepsTypes ==
  ASSUME TypeInv, HandleStep
  PROVE  TypeInv'
<1> USE DEF TypeInv, Handling, fsVars, notifyVars, stateVars, walkVars
<1>1. UNCHANGED <<fsVars, stateVars, exclude, ev, queue, fsClosed, cur, names>>
  BY DEF HandleStep, HandleExcluded, HandleDirCreated, BeginWalk, HandleDirRemoved,
     HandleFileChanged, HandleFileRemoved, historyVars
<1>2. TreeInv'
  BY <1>1 DEF TreeInv, Exists
<1>3. \/ rpc' \in {"loop", "callback"} /\ walker' = walker /\ todo' = todo
      \/ rpc' = "walk" /\ walker' = "run" /\ todo' = {ev.path} /\ ev.path \in dirs
  <2>1. CASE HandleDirCreated
    BY <2>1 DEF HandleDirCreated, BeginWalk
  <2>2. CASE HandleFileChanged
    <3>1. rpc' \in {"loop", "callback"} /\ UNCHANGED walkVars
      BY <2>2 DEF HandleFileChanged
    <3>2. QED
      BY <3>1
  <2>3. CASE HandleExcluded \/ HandleDirRemoved \/ HandleFileRemoved
    BY <2>3 DEF HandleExcluded, HandleDirRemoved, HandleFileRemoved
  <2>4. QED
    BY <2>1, <2>2, <2>3 DEF HandleStep
<1>4. rpc = "handle" /\ walker = "nobody"
  BY DEF HandleStep, HandleExcluded, HandleDirCreated, HandleDirRemoved,
     HandleFileChanged, HandleFileRemoved, Free
<1>5. LockInv'
  <2>1. UNCHANGED <<state, signal, ctxDone, closing, calls, ev>>
    BY <1>1
  <2>2. rpc' \in RunPcs /\ walker' \in {"nobody", "run", "api"} /\ rpc' # "register"
        /\ (rpc' \in {"register", "walk"} <=> walker' = "run")
    BY <1>3, <1>4 DEF RunPcs
  <2>3. QED
    BY <2>1, <2>2 DEF LockInv
<1>6. WalkInv'
  BY <1>1, <1>3 DEF WalkInv, TreeInv, Paths
<1>7. WatchInv'
  <2>1. CASE HandleDirRemoved
    <3>1. {ev.path} \in SUBSET Dirs
      BY <2>1 DEF HandleDirRemoved, WatchInv
    <3>2. QED
      BY <1>1, <2>1, <3>1, UnwatchKeepsWatches DEF HandleDirRemoved
  <2>2. CASE UNCHANGED <<kwatch, watchedDirs>>
    BY <1>1, <2>2 DEF WatchInv
  <2>3. QED
    BY <2>1, <2>2 DEF HandleStep, HandleExcluded, HandleDirCreated, HandleFileChanged,
       HandleFileRemoved
<1>8. HistoryInv'
  BY DEF HandleStep, HandleExcluded, HandleDirCreated, HandleDirRemoved, Unwatch,
     HandleFileChanged, HandleFileRemoved, HistoryInv, historyVars
<1>9. QED
  BY <1>2, <1>5, <1>6, <1>7, <1>8

-----------------------------------------------------------------------------
(* The API *)

LEMMA ApiKeepsTypes ==
  ASSUME TypeInv, Api \/ CloseFsnotify \/ CancelContext \/ UNCHANGED vars
  PROVE  TypeInv'
<1> USE DEF TypeInv, fsVars, notifyVars, stateVars, walkVars, historyVars
<1>1. UNCHANGED <<fsVars, queue, rpc, ev, cur, names, told>>
  BY DEF Api, Add, BeginWalk, Remove, Ignore, Unignore, Close, CloseFsnotify, CancelContext, vars
<1>2. TreeInv'
  BY <1>1 DEF TreeInv, Exists
<1>3. HistoryInv'
  BY DEF Api, Add, Remove, Unwatch, Ignore, Unignore, Close, CloseFsnotify, CancelContext, vars,
     HistoryInv
<1>4. WalkInv'
  <2>1. todo' = todo \/ \E d \in AddDirs : todo' = {d}
    BY DEF Api, Add, BeginWalk, Remove, Ignore, Unignore, Close, CloseFsnotify, CancelContext, vars
  <2>2. AddDirs \subseteq Paths
    BY WatcherAssumption DEF Paths
  <2>3. QED
    BY <1>1, <2>1, <2>2 DEF WalkInv
<1>5. LockInv'
  <2>1. CASE Api
    <3>1. walker = "nobody" /\ calls' = calls + 1 /\ calls < MaxCalls /\ UNCHANGED <<rpc, ev, ctxDone>>
      BY <2>1 DEF Api, Add, Remove, Ignore, Unignore, Close, Call, Free
    <3>2. walker' \in {"nobody", "api"} /\ closing' \in BOOLEAN
      BY <2>1, <3>1 DEF Api, Add, BeginWalk, Remove, Ignore, Unignore, Close, LockInv
    <3>3. (state' = state /\ signal' = signal) \/ (state' = "closed" /\ signal' = TRUE)
      BY <2>1 DEF Api, Add, Remove, Ignore, Unignore, Close
    <3>4. calls' \in 0..MaxCalls
      BY <3>1 DEF LockInv
    <3>5. QED
      BY <3>1, <3>2, <3>3, <3>4 DEF LockInv
  <2>2. CASE CloseFsnotify
    BY <2>2 DEF CloseFsnotify, LockInv
  <2>3. CASE CancelContext
    BY <2>3 DEF CancelContext, LockInv
  <2>4. CASE UNCHANGED vars
    BY <2>4 DEF vars, LockInv
  <2>5. QED
    BY <2>1, <2>2, <2>3, <2>4
<1>6. WatchInv'
  <2>1. ASSUME NEW d \in Dirs, Remove(d) PROVE WatchInv'
    <3>1. Unwatch({d}) /\ UNCHANGED <<dirs, queue, fsClosed, exclude>>
      BY <2>1 DEF Remove
    <3>2. QED
      BY <3>1, UnwatchKeepsWatches
  <2>2. ASSUME NEW p \in Patterns, Ignore(p) PROVE WatchInv'
    <3> DEFINE out == {d \in watchedDirs \ {Root} : \E q \in exclude' : d \in q}
               all == UNION {Subtree(d) : d \in out}
    <3>1. watchedDirs' = watchedDirs \ all /\ kwatch' = kwatch \ (all \cap watchedDirs)
      BY <2>2 DEF Ignore
    <3>2. exclude' \subseteq Patterns /\ UNCHANGED <<dirs, queue, fsClosed>>
      BY <2>2 DEF Ignore, WatchInv
    <3> HIDE DEF all
    <3>3. QED
      BY <3>1, <3>2 DEF WatchInv
  <2>3. ASSUME NEW p \in Patterns, Unignore(p) PROVE WatchInv'
    BY <2>3 DEF Unignore, WatchInv
  <2>4. CASE CloseFsnotify
    BY <2>4 DEF CloseFsnotify, WatchInv
  <2>5. CASE (\E d \in AddDirs : Add(d)) \/ Close \/ CancelContext \/ UNCHANGED vars
    BY <2>5 DEF Add, Close, CancelContext, vars, WatchInv
  <2>6. QED
    BY <2>1, <2>2, <2>3, <2>4, <2>5 DEF Api
<1>7. QED
  BY <1>2, <1>3, <1>4, <1>5, <1>6

LEMMA StepKeepsTypes ==
  ASSUME TypeInv, [Next]_vars
  PROVE  TypeInv'
BY FileSystemKeepsTypes, WalkKeepsTypes, ProgressKeepsTypes, RegisterKeepsTypes,
   TakeEventKeepsTypes, FailKeepsTypes, HandleKeepsTypes, ApiKeepsTypes
   DEF Next, RunStep, HandleStep

(***************************************************************************)
(* The inductive invariant of types and lock.                              *)
(***************************************************************************)
THEOREM TypeInvariance == Spec => []TypeInv
  BY InitHasInv, StepKeepsTypes, PTL DEF Spec

\* Whatever is removed, a checksum that is kept is still that of the last report.
LEMMA StepKeepsSums ==
  ASSUME TypeInv, SumInv, [Next]_vars
  PROVE  SumInv'
<1>1. content \in [Files -> Contents \cup {0}]
  BY DEF TypeInv, TreeInv
<1>2. ASSUME NEW x \in Paths, Register(x) PROVE SumInv'
  BY <1>1, <1>2 DEF Register, SumInv
<1>3. CASE HandleFileChanged
  <2> DEFINE readable == ev.path \in Files /\ Exists(ev.path)
  <2>1. /\ rpc' = IF readable /\ checksum[ev.path] # content[ev.path] THEN "callback" ELSE "loop"
        /\ checksum' = [g \in Files |-> IF g # ev.path THEN checksum[g]
                                        ELSE IF readable THEN content[g] ELSE 0]
        /\ reported' = [g \in Files |-> IF g = ev.path /\ rpc' = "callback" THEN content[g]
                                                                           ELSE reported[g]]
    BY <1>3 DEF HandleFileChanged, ChecksumAdded
  <2> HIDE DEF readable
  <2>. QED  BY <1>1, <2>1 DEF SumInv
<1>4. CASE HandleFileRemoved
  BY <1>4 DEF HandleFileRemoved, SumInv
<1>5. ASSUME UNCHANGED reported, checksum' \in [Files -> Contents \cup {0}],
             \A f \in Files : checksum'[f] \in {0, checksum[f]}
      PROVE  SumInv'
  BY <1>5 DEF SumInv
<1>6. ASSUME NEW ds, Unwatch(ds), UNCHANGED reported PROVE SumInv'
  BY <1>5, <1>6 DEF Unwatch, SumInv
<1>7. CASE HandleDirRemoved \/ \E d \in Dirs : Remove(d)
  BY <1>6, <1>7 DEF HandleDirRemoved, Remove
<1>8. ASSUME NEW p \in Patterns, Ignore(p) PROVE SumInv'
  BY <1>8 DEF Ignore, SumInv
<1>9. CASE FileSystem \/ WalkStep \/ RunStart \/ FsnotifyError \/ CloseFsnotify \/ CancelContext
  BY <1>9 DEF SumInv, FileSystem, Mkdir, Rmdir, Write, Delete, Operate, WalkStep, Visit, Watch,
     WatchFails, SkipExcluded, WalkEnds, RunStart, FsnotifyError, CloseFsnotify, CancelContext,
     historyVars
<1>10. CASE Registered \/ TakeEvent \/ SeeClose \/ SeeDone \/ Fail \/ CallbackReturns
            \/ CallbackBlocks
           \/ HandleExcluded \/ HandleDirCreated
  BY <1>10 DEF SumInv, Registered, TakeEvent, SeeClose, SeeDone, Fail, CallbackReturns,
     CallbackBlocks,
     HandleExcluded, HandleDirCreated, historyVars
<1>11. CASE (\E d \in AddDirs : Add(d)) \/ (\E p \in Patterns : Unignore(p)) \/ Close
            \/ UNCHANGED vars
  BY <1>11 DEF SumInv, Add, Unignore, Close, vars, historyVars
<1>. QED  BY <1>2, <1>3, <1>4, <1>7, <1>8, <1>9, <1>10, <1>11 DEF Next, RunStep, Api

(***************************************************************************)
(* A file whose checksum is registered was last reported with the content  *)
(* of that checksum (filereg.Add, Remove, RemoveWithPrefix, Reset).        *)
(***************************************************************************)
THEOREM SumInvariance == Spec => []SumInv
<1>1. Init => SumInv
  BY InitHasInv DEF RegistryInv, SumInv
<1>. QED  BY <1>1, TypeInvariance, StepKeepsSums, PTL DEF Spec

(***************************************************************************)
(* Type correctness, with the lock: Run holds it exactly while it          *)
(* registers the files or walks a directory that was created.              *)
(***************************************************************************)
THEOREM TypeCorrect == Spec => []TypeOK
<1>1. TypeInv /\ SumInv => TypeOK
  BY DEF TypeInv, TreeInv, WatchInv, LockInv, WalkInv, HistoryInv, SumInv, TypeOK
<1>. QED  BY <1>1, TypeInvariance, SumInvariance, PTL

(***************************************************************************)
(* fsnotify never watches a directory the watcher has no record of, so     *)
(* that Remove and Ignore reach every watch.                               *)
(***************************************************************************)
THEOREM WatchesAreRecorded == Spec => [](kwatch \subseteq watchedDirs /\ kwatch \subseteq dirs)
<1>1. TypeInv => kwatch \subseteq watchedDirs /\ kwatch \subseteq dirs
  BY DEF TypeInv, WatchInv
<1>2. QED
  BY <1>1, TypeInvariance, PTL

-----------------------------------------------------------------------------
(* The registry. *)

\* Without files whose names start with that of a directory next to them, remove
\* drops the checksums below the directory and no others.
LEMMA UnwatchKeepsRegistry ==
  ASSUME RegistryInv, NamePrefixes = {}, NEW ds, Unwatch(ds), UNCHANGED reported
  PROVE  RegistryInv'
<1> DEFINE gone == ds \cap watchedDirs
<1>1. \A d, f : HasPrefix(d, f) <=> Under(d, f)
  BY DEF HasPrefix
<1>2. checksum' = [f \in Files |-> IF \E d \in gone : HasPrefix(d, f) THEN 0 ELSE checksum[f]]
  BY DEF Unwatch
<1>3. forgotten' = forgotten \cup {f \in Files : \E d \in gone : Under(d, f)}
  BY DEF Unwatch
<1> HIDE DEF gone
<1>4. QED
  BY <1>1, <1>2, <1>3 DEF RegistryInv, SumInv

LEMMA HandleKeepsRegistry ==
  ASSUME TypeInv, RegistryInv, NamePrefixes = {}, HandleStep
  PROVE  RegistryInv'
<1>1. CASE HandleExcluded \/ HandleDirCreated
  BY <1>1 DEF HandleExcluded, HandleDirCreated, RegistryInv, SumInv, historyVars
<1>2. CASE HandleDirRemoved
  BY <1>2, UnwatchKeepsRegistry DEF HandleDirRemoved
<1>3. CASE HandleFileChanged
  <2> DEFINE readable == ev.path \in Files /\ Exists(ev.path)
  <2>1. /\ rpc' = IF readable /\ checksum[ev.path] # content[ev.path] THEN "callback" ELSE "loop"
        /\ checksum' = [g \in Files |-> IF g # ev.path THEN checksum[g]
                                        ELSE IF readable THEN content[g] ELSE 0]
        /\ reported' = [g \in Files |-> IF g = ev.path /\ rpc' = "callback" THEN content[g]
                                                                           ELSE reported[g]]
        /\ forgotten' = IF readable THEN forgotten \ {ev.path}
                                    ELSE forgotten \cup ({ev.path} \cap Files)
    BY <1>3 DEF HandleFileChanged, ChecksumAdded
  <2>2. readable => content[ev.path] # 0
    BY <1>3, PathFacts DEF HandleFileChanged, Exists, TypeInv, TreeInv
  <2>3. content \in [Files -> Contents \cup {0}]
    BY DEF TypeInv, TreeInv
  <2> HIDE DEF readable
  <2>4. CASE readable
    BY <2>1, <2>2, <2>3, <2>4 DEF RegistryInv, SumInv
  <2>5. CASE ~readable
    BY <2>1, <2>3, <2>5 DEF RegistryInv, SumInv
  <2>6. QED
    BY <2>4, <2>5
<1>4. CASE HandleFileRemoved
  BY <1>4 DEF HandleFileRemoved, RegistryInv, SumInv
<1>5. QED
  BY <1>1, <1>2, <1>3, <1>4 DEF HandleStep

LEMMA StepKeepsRegistry ==
  ASSUME TypeInv, RegistryInv, NamePrefixes = {}, [Next]_vars
  PROVE  RegistryInv'
<1>1. ASSUME NEW x \in Paths, Register(x) PROVE RegistryInv'
  <2>1. content \in [Files -> Contents \cup {0}]
    BY DEF TypeInv, TreeInv
  <2>2. QED
    BY <1>1, <2>1 DEF Register, RegistryInv, SumInv
<1>2. ASSUME NEW d \in Dirs, Remove(d) PROVE RegistryInv'
  BY <1>2, UnwatchKeepsRegistry DEF Remove
<1>3. ASSUME NEW p \in Patterns, Ignore(p) PROVE RegistryInv'
  BY <1>3 DEF Ignore, RegistryInv, SumInv
<1>4. UNCHANGED <<checksum, reported, forgotten>> => RegistryInv'
  BY DEF RegistryInv, SumInv
<1>5. CASE FileSystem \/ RunStart \/ FsnotifyError \/ CloseFsnotify \/ CancelContext \/ UNCHANGED vars
  BY <1>4, <1>5 DEF FileSystem, Mkdir, Rmdir, Write, Delete, Operate, RunStart, FsnotifyError,
     CloseFsnotify, CancelContext, vars, historyVars
<1>6. CASE Registered \/ TakeEvent \/ SeeClose \/ SeeDone \/ Fail \/ CallbackReturns
           \/ CallbackBlocks
  BY <1>4, <1>6 DEF Registered, TakeEvent, SeeClose, SeeDone, Fail, CallbackReturns,
     CallbackBlocks, historyVars
<1>7. CASE (\E d \in AddDirs : Add(d)) \/ (\E p \in Patterns : Unignore(p)) \/ Close
  BY <1>4, <1>7 DEF Add, Unignore, Close, historyVars
<1>8. QED
  BY <1>1, <1>2, <1>3, <1>5, <1>6, <1>7, WalkKeepsRegistry, HandleKeepsRegistry
     DEF Next, RunStep, HandleStep, Api

(***************************************************************************)
(* In every tree where no file's path starts with the name of a directory  *)
(* beside it, a checksum is that of the content reported last, unless the  *)
(* watcher dropped it on purpose.                                          *)
(***************************************************************************)
THEOREM RegistryInvariance ==
  ASSUME NamePrefixes = {}
  PROVE  Spec => []RegistryInv
  BY InitHasInv, StepKeepsRegistry, TypeInvariance, PTL DEF Spec

(***************************************************************************)
(* Hence the same content is not reported again, however file operations,  *)
(* walks, exclusions and calls of the API interleave.                      *)
(***************************************************************************)
THEOREM ContentIsNotRepeated ==
  ASSUME NamePrefixes = {}
  PROVE  Spec => NoRepeat
<1>1. ASSUME TypeInv, RegistryInv, [Next]_vars, NEW f \in Files,
             rpc = "handle", rpc' = "callback", ev.path = f, ev.op \in {"create", "write"}
      PROVE  content[f] # reported[f] \/ f \in forgotten
  <2>1. f \notin dirs
    BY <1>1, PathFacts DEF TypeInv, TreeInv
  <2>2. HandleFileChanged
    <3>1. ~FileSystem
      BY <1>1 DEF FileSystem, Mkdir, Rmdir, Write, Delete, Operate
    <3>2. ~WalkStep
      BY <1>1 DEF WalkStep, Visit, Watch, WatchFails, SkipExcluded, WalkEnds, TypeInv, LockInv
    <3>3. QED
      BY <1>1, <3>1, <3>2 DEF Next, RunStart, RunStep, Register, Registered, TakeEvent, SeeClose,
         SeeDone, Fail, FsnotifyError, HandleExcluded, HandleDirCreated, HandleDirRemoved,
         HandleFileRemoved, CallbackReturns,
         CallbackBlocks, Api, Add, Remove, Ignore, Unignore, Close,
         CloseFsnotify, CancelContext, vars
  <2>3. Exists(f) /\ checksum[f] # content[f]
    BY <1>1, <2>2 DEF HandleFileChanged
  <2>4. content[f] # 0
    BY <2>1, <2>3 DEF Exists
  <2>5. QED
    BY <1>1, <2>3, <2>4 DEF RegistryInv, SumInv
<1>2. TypeInv /\ RegistryInv /\ [Next]_vars
        => [ \A f \in Files : rpc = "handle" /\ rpc' = "callback" /\ ev.path = f
                                /\ ev.op \in {"create", "write"}
                => content[f] # reported[f] \/ f \in forgotten ]_vars
  BY <1>1
<1>3. QED
  BY <1>2, TypeInvariance, RegistryInvariance, PTL DEF Spec, NoRepeat

-----------------------------------------------------------------------------
(* Events that wait.  The one that Run is about to handle is in front of the queue. *)

EventSet == [op : Ops, path : Paths]
EventAt(i) == IF i = 0 THEN ev ELSE queue[i]
Places == {i \in 0..Len(queue) : i = 0 => rpc = "handle"}

LEMMA PlaceTypes ==
  ASSUME TypeInv
  PROVE  /\ queue \in Seq(EventSet) /\ Len(queue) \in Nat /\ Places \subseteq Nat
         /\ \A i \in DOMAIN queue : i \in Places /\ EventAt(i) = queue[i]
         /\ \A i \in Places : i # 0 => i \in DOMAIN queue /\ EventAt(i) = queue[i]
         /\ 0 \in Places <=> rpc = "handle"
<1>1. queue \in Seq(EventSet)
  BY DEF TypeInv, WatchInv, EventSet
<1>2. Len(queue) \in Nat /\ DOMAIN queue = 1..Len(queue)
  BY <1>1, LenProperties
<1>. QED  BY <1>1, <1>2 DEF Places, EventAt

PendingAtPlace ==
    \A op, x : Pending(op, x) <=> \E i \in Places : EventAt(i) = Event(op, x)

LEMMA PendingPlaces == TypeInv => PendingAtPlace
BY PlaceTypes DEF PendingAtPlace, Pending, EventAt

LEMMA EmitPlaces ==
  ASSUME TypeInv, NEW e \in EventSet, queue' = Append(queue, e), UNCHANGED <<rpc, ev>>
  PROVE  /\ Places' = Places \cup {Len(queue) + 1}
         /\ \A i \in Places : i < Len(queue) + 1 /\ EventAt(i)' = EventAt(i)
         /\ \A n \in Nat : n = Len(queue) + 1 => EventAt(n)' = e
<1>1. /\ queue \in Seq(EventSet) /\ Len(queue) \in Nat /\ Places \subseteq Nat
      /\ Places \subseteq 0..Len(queue)
  BY PlaceTypes DEF Places
<1>2. /\ Len(queue') = Len(queue) + 1
      /\ \A i \in 1..Len(queue) : queue'[i] = queue[i]
      /\ queue'[Len(queue) + 1] = e
  BY <1>1, AppendProperties
<1>3. Places' = Places \cup {Len(queue) + 1}
  BY <1>1, <1>2 DEF Places
<1>4. ASSUME NEW i \in Places PROVE i < Len(queue) + 1 /\ EventAt(i)' = EventAt(i)
  BY <1>1, <1>2 DEF EventAt
<1>5. \A n \in Nat : n = Len(queue) + 1 => EventAt(n)' = e
  BY <1>1, <1>2 DEF EventAt
<1>. QED  BY <1>3, <1>4, <1>5

LEMMA TakePlaces ==
  ASSUME TypeInv, TakeEvent
  PROVE  /\ \A i \in Places : i - 1 \in Places' /\ EventAt(i - 1)' = EventAt(i)
         /\ \A i \in Places' : i + 1 \in Places /\ EventAt(i)' = EventAt(i + 1)
         /\ Places' \subseteq Nat
<1>1. /\ queue \in Seq(EventSet) /\ Len(queue) \in Nat /\ queue # <<>>
      /\ rpc = "loop" /\ rpc' = "handle" /\ ev' = Head(queue) /\ queue' = Tail(queue)
  BY PlaceTypes DEF TakeEvent
<1>2. /\ Len(queue') = Len(queue) - 1 /\ ev' = queue[1] /\ Len(queue) > 0
      /\ \A i \in 1..Len(queue) - 1 : queue'[i] = queue[i + 1]
  <2>1. Len(queue) > 0 /\ ev' = queue[1]
    BY <1>1, EmptySeq
  <2>. QED  BY <2>1, <1>1, HeadTailProperties
<1>3. Places = 1..Len(queue) /\ Places' = 0..Len(queue) - 1
  BY <1>1, <1>2 DEF Places
<1>4. ASSUME NEW i \in 1..Len(queue) PROVE EventAt(i - 1)' = EventAt(i)
  <2>1. CASE i = 1
    BY <1>1, <1>2, <2>1 DEF EventAt
  <2>2. CASE i # 1
    <3>1. i - 1 \in 1..Len(queue) - 1 /\ i - 1 + 1 = i
      BY <1>1, <2>2
    <3>. QED  BY <1>2, <3>1 DEF EventAt
  <2>. QED  BY <2>1, <2>2
<1>5. \A i \in 1..Len(queue) : i - 1 \in 0..Len(queue) - 1
  BY <1>1
<1>6. \A i \in 0..Len(queue) - 1 : i + 1 \in 1..Len(queue) /\ i + 1 - 1 = i
  BY <1>1
<1>. QED  BY <1>1, <1>3, <1>4, <1>5, <1>6

LEMMA HandlePlaces ==
  ASSUME TypeInv, HandleStep
  PROVE  /\ rpc = "handle" /\ Free /\ rpc' # "handle" /\ UNCHANGED <<queue, ev>>
         /\ 0 \in Places /\ Places' = Places \ {0} /\ \A i \in Places' : EventAt(i)' = EventAt(i)
<1>1. rpc = "handle" /\ Free /\ rpc' # "handle" /\ UNCHANGED <<queue, ev>>
  BY DEF HandleStep, HandleExcluded, HandleDirCreated, HandleDirRemoved, HandleFileChanged,
     HandleFileRemoved, Handling, notifyVars
<1>. QED  BY <1>1, PlaceTypes DEF Places, EventAt

-----------------------------------------------------------------------------
(* The life cycle, and what holds between walks. *)

Walking == walker # "nobody" /\ rpc # "register"

LifeInv ==
    /\ closing \/ fsClosed => state = "closed"
    /\ ~Walking => cur = {}
    /\ cur = {} => names = {}
    /\ \A d \in watchedDirs : ~Excluded(d)

\* remove keeps the records of none that is excluded.
LEMMA UnwatchRecords ==
  ASSUME NEW ds, Unwatch(ds)
  PROVE  watchedDirs' \subseteq watchedDirs
BY DEF Unwatch

LEMMA WalkKeepsLife ==
  ASSUME TypeInv, LifeInv, WalkStep
  PROVE  LifeInv'
<1>1. UNCHANGED <<closing, fsClosed, state, exclude>>
  BY DEF WalkStep, Visit, Watch, WatchFails, SkipExcluded, WalkEnds, notifyVars, stateVars
<1>2. CASE \E x \in Paths : Visit(x)
  BY <1>1, <1>2 DEF Visit, EndWalk, LifeInv, Walking, Excluded
<1>3. CASE \E d \in cur : Watch(d) \/ WatchFails(d) \/ SkipExcluded(d)
  BY <1>1, <1>3 DEF Watch, WatchFails, SkipExcluded, EndWalk, LifeInv, Walking, Excluded
<1>4. CASE WalkEnds
  BY <1>1, <1>4 DEF WalkEnds, EndWalk, LifeInv, Walking, Excluded
<1>. QED  BY <1>2, <1>3, <1>4 DEF WalkStep

LEMMA HandleKeepsLife ==
  ASSUME TypeInv, LifeInv, HandleStep
  PROVE  LifeInv'
<1>1. UNCHANGED <<closing, fsClosed, state, exclude, cur, names>> /\ walker = "nobody"
  BY DEF HandleStep, HandleExcluded, HandleDirCreated, BeginWalk, HandleDirRemoved,
     HandleFileChanged, HandleFileRemoved, Handling, Free, notifyVars, stateVars, walkVars
<1>2. watchedDirs' \subseteq watchedDirs
  BY UnwatchRecords DEF HandleStep, HandleExcluded, HandleDirCreated, HandleDirRemoved,
     HandleFileChanged, HandleFileRemoved
<1>. QED  BY <1>1, <1>2 DEF LifeInv, Walking, Excluded

LEMMA RunKeepsLife ==
  ASSUME TypeInv, LifeInv,
         \/ \E x \in Paths : Register(x)
         \/ RunStart \/ Registered \/ TakeEvent \/ SeeClose \/ SeeDone \/ Fail \/ FsnotifyError
         \/ CallbackReturns \/ CallbackBlocks
  PROVE  LifeInv'
<1> USE DEF fsVars, notifyVars, stateVars, walkVars
<1>1. UNCHANGED <<closing, exclude, watchedDirs, cur, names>>
  BY DEF Register, RunStart, BeginWalk, Registered, TakeEvent, SeeClose, SeeDone, Fail,
     FsnotifyError, CallbackReturns, CallbackBlocks
<1>2. (\A d \in watchedDirs : ~Excluded(d))'
  BY <1>1 DEF LifeInv, Excluded
<1>3. closing' \/ fsClosed' => state' = "closed"
  <2>1. rpc = "register" => state # "closed"
    BY DEF TypeInv, LockInv
  <2>. QED  BY <2>1, <1>1 DEF LifeInv, Register, RunStart, Registered, TakeEvent, SeeClose,
               SeeDone, Fail, FsnotifyError, CallbackReturns, CallbackBlocks
<1>4. ~Walking' => cur' = {}
  <2>1. rpc = "walk" => walker = "run"
    BY DEF TypeInv, LockInv
  <2>2. Walking => Walking' \/ cur = {}
    BY <2>1 DEF Walking, Register, RunStart, BeginWalk, Free, Registered, TakeEvent, SeeClose,
       SeeDone, Fail, FsnotifyError, CallbackReturns, CallbackBlocks
  <2>. QED  BY <2>2, <1>1 DEF LifeInv
<1>. QED  BY <1>1, <1>2, <1>3, <1>4 DEF LifeInv

LEMMA ApiKeepsLife ==
  ASSUME TypeInv, LifeInv, FileSystem \/ Api \/ CloseFsnotify \/ CancelContext \/ UNCHANGED vars
  PROVE  LifeInv'
<1> USE DEF fsVars, notifyVars, stateVars, walkVars, historyVars
<1>1. UNCHANGED <<cur, names, rpc>>
  BY DEF FileSystem, Mkdir, Rmdir, Write, Delete, Operate, Api, Add, BeginWalk, Remove, Ignore,
     Unignore, Close, CloseFsnotify, CancelContext, vars
<1>2. closing' \/ fsClosed' => state' = "closed"
  BY DEF LifeInv, FileSystem, Mkdir, Rmdir, Write, Delete, Operate, Api, Add, BeginWalk, Remove,
     Ignore, Unignore, Close, CloseFsnotify, CancelContext, vars
<1>3. walker' = walker \/ (walker = "nobody" /\ walker' = "api")
  BY DEF FileSystem, Mkdir, Rmdir, Write, Delete, Operate, Api, Add, BeginWalk, Remove, Call, Free,
     Ignore, Unignore, Close, CloseFsnotify, CancelContext, vars
<1>4. (\A d \in watchedDirs : ~Excluded(d))'
  <2>1. ASSUME NEW p \in Patterns, Ignore(p) PROVE (\A d \in watchedDirs : ~Excluded(d))'
    <3> DEFINE out == {d \in watchedDirs \ {Root} : \E q \in exclude' : d \in q}
               all == UNION {Subtree(d) : d \in out}
    <3>1. watchedDirs' = watchedDirs \ all
      BY <2>1 DEF Ignore
    <3>2. out \subseteq all
      BY DEF Subtree
    <3>. QED  BY <3>1, <3>2 DEF Excluded
  <2>2. ASSUME NEW p \in Patterns, Unignore(p) PROVE (\A d \in watchedDirs : ~Excluded(d))'
    BY <2>2 DEF Unignore, LifeInv, Excluded
  <2>3. ASSUME NEW d \in Dirs, Remove(d) PROVE (\A e \in watchedDirs : ~Excluded(e))'
    BY <2>3, UnwatchRecords DEF Remove, LifeInv, Excluded
  <2>4. CASE UNCHANGED <<watchedDirs, exclude>>
    BY <2>4 DEF LifeInv, Excluded
  <2>. QED  BY <2>1, <2>2, <2>3, <2>4 DEF FileSystem, Mkdir, Rmdir, Write, Delete, Operate, Api, Add,
               Close, CloseFsnotify, CancelContext, vars
<1>. QED  BY <1>1, <1>2, <1>3, <1>4 DEF LifeInv, Walking

LEMMA StepKeepsLife ==
  ASSUME TypeInv, LifeInv, [Next]_vars
  PROVE  LifeInv'
BY WalkKeepsLife, HandleKeepsLife, RunKeepsLife, ApiKeepsLife DEF Next, RunStep, HandleStep

-----------------------------------------------------------------------------
(* The steps that leave the events alone. *)

OtherStep == [Next]_vars /\ ~FileSystem /\ ~TakeEvent /\ ~HandleStep

LEMMA OtherPlaces ==
  ASSUME TypeInv, LifeInv, OtherStep
  PROVE  /\ UNCHANGED <<queue, ev>> /\ (rpc' = "handle" <=> rpc = "handle")
         /\ Places' = Places /\ \A i \in Places : EventAt(i)' = EventAt(i)
         /\ UNCHANGED <<dirs, content, told>>
<1>1. /\ UNCHANGED <<queue, ev, dirs, content, told>> /\ (rpc' = "handle" <=> rpc = "handle")
  <2>1. CASE WalkStep
    <3>1. walker = "run" => rpc \in {"register", "walk"}
      BY DEF TypeInv, LockInv
    <3>2. walker \in {"run", "api"} \/ cur = {}
      BY DEF TypeInv, LockInv, LifeInv, Walking
    <3>. QED  BY <2>1, <3>1, <3>2 DEF WalkStep, Visit, Watch, WatchFails, SkipExcluded, WalkEnds,
                 notifyVars, fsVars, historyVars
  <2>2. CASE \E x \in Paths : Register(x)
    BY <2>2 DEF Register, notifyVars, fsVars
  <2>3. CASE RunStart \/ Registered \/ SeeClose \/ SeeDone \/ Fail \/ FsnotifyError \/ CallbackReturns
             \/ CallbackBlocks
    BY <2>3 DEF RunStart, Registered, SeeClose, SeeDone, Fail, FsnotifyError, CallbackReturns,
       CallbackBlocks,
                notifyVars, fsVars, historyVars
  <2>4. CASE Api \/ CloseFsnotify \/ CancelContext \/ UNCHANGED vars
    BY <2>4 DEF Api, Add, Remove, Ignore, Unignore, Close, CloseFsnotify, CancelContext, vars,
                notifyVars, fsVars, historyVars
  <2>. QED  BY <2>1, <2>2, <2>3, <2>4 DEF OtherStep, Next, RunStep, HandleStep
<1>. QED  BY <1>1 DEF Places, EventAt

-----------------------------------------------------------------------------
(* Records.  A directory that is recorded is watched, unless its removal waits. *)

RecordsInv == \A d \in watchedDirs \ lost : d \in kwatch \/ fsClosed \/ Pending("remove", d)

LEMMA FileSystemKeepsPending ==
  ASSUME TypeInv, FileSystem, NEW op, NEW x, Pending(op, x)
  PROVE  Pending(op, x)'
<1>1. UNCHANGED <<rpc, ev>>
  BY DEF FileSystem, Mkdir, Rmdir, Write, Delete, Operate
<1>2. queue' = queue \/ \E e \in EventSet : queue' = Append(queue, e)
  BY DEF FileSystem, Mkdir, Rmdir, Write, Delete, Emit, Event, EventSet, Ops, Paths
<1>3. ASSUME NEW i \in DOMAIN queue PROVE i \in DOMAIN queue' /\ queue'[i] = queue[i]
  BY <1>2, PlaceTypes, AppendProperties
<1>. QED  BY <1>1, <1>3 DEF Pending

\* What was appended waits.
LEMMA EmittedIsPending ==
  ASSUME TypeInv, NEW op \in Ops, NEW x \in Paths, queue' = Append(queue, Event(op, x))
  PROVE  Pending(op, x)'
<1>1. Event(op, x) \in EventSet
  BY DEF Event, EventSet
<1>2. Len(queue') \in DOMAIN queue' /\ queue'[Len(queue')] = Event(op, x)
  BY <1>1, PlaceTypes, AppendProperties
<1>. QED  BY <1>2 DEF Pending

LEMMA FileSystemKeepsRecords ==
  ASSUME TypeInv, RecordsInv, FileSystem
  PROVE  RecordsInv'
<1>1. UNCHANGED <<watchedDirs, lost, fsClosed>>
  BY DEF FileSystem, Mkdir, Rmdir, Write, Delete, Operate, stateVars
<1>2. \A d : Pending("remove", d) => Pending("remove", d)'
  BY FileSystemKeepsPending
<1>3. ASSUME NEW d \in kwatch, d \notin kwatch' PROVE Pending("remove", d)'
  <2>1. PICK c \in Dirs : Rmdir(c)
    BY <1>3 DEF FileSystem, Mkdir, Write, Delete
  <2>2. d = c /\ queue' = Append(queue, Event("remove", d))
    BY <2>1, <1>3 DEF Rmdir, Emit, Event
  <2>. QED  BY <2>1, <2>2, EmittedIsPending DEF Ops, Paths
<1>. QED  BY <1>1, <1>2, <1>3 DEF RecordsInv

LEMMA TakeKeepsPending ==
  ASSUME TypeInv, TakeEvent, NEW op, NEW x, Pending(op, x)
  PROVE  Pending(op, x)'
<1>1. PendingAtPlace /\ PendingAtPlace'
  <2>1. TypeInv'
    BY TakeEventKeepsTypes
  <2>. QED  BY <2>1, PendingPlaces, PTL
<1>2. PICK i \in Places : EventAt(i) = Event(op, x)
  BY <1>1 DEF PendingAtPlace
<1>3. i - 1 \in Places' /\ EventAt(i - 1)' = Event(op, x)
  BY <1>2, TakePlaces DEF Event
<1>. QED  BY <1>1, <1>3 DEF PendingAtPlace, Event

LEMMA HandleKeepsPending ==
  ASSUME TypeInv, HandleStep, NEW op, NEW x, Pending(op, x), ev # Event(op, x)
  PROVE  Pending(op, x)'
BY HandlePlaces DEF Pending

LEMMA OtherKeepsPending ==
  ASSUME TypeInv, LifeInv, OtherStep, NEW op, NEW x
  PROVE  Pending(op, x)' <=> Pending(op, x)
BY OtherPlaces DEF Pending

LEMMA HandleKeepsRecords ==
  ASSUME TypeInv, LifeInv, RecordsInv, HandleStep
  PROVE  RecordsInv'
<1>1. fsClosed' = fsClosed
  BY DEF HandleStep, HandleExcluded, HandleDirCreated, HandleDirRemoved, HandleFileChanged,
     HandleFileRemoved, notifyVars
<1>2. CASE HandleDirRemoved
  <2> DEFINE all == UNION {Subtree(d) : d \in {ev.path} \cap watchedDirs}
  <2>1. /\ watchedDirs' = watchedDirs \ all /\ kwatch' = kwatch \ (all \cap watchedDirs)
        /\ lost' = lost \ all /\ ev.path \in all
    BY <1>2 DEF HandleDirRemoved, Unwatch, Subtree
  <2>2. \A d \in watchedDirs' : ev # Event("remove", d)
    BY <2>1 DEF Event
  <2> HIDE DEF all
  <2>. QED  BY <1>1, <2>1, <2>2, HandleKeepsPending DEF RecordsInv
<1>3. CASE ~HandleDirRemoved
  <2>1. UNCHANGED <<watchedDirs, kwatch, lost>>
    BY <1>3 DEF HandleStep, HandleExcluded, HandleDirCreated, HandleFileChanged,
       HandleFileRemoved, notifyVars, historyVars
  <2>2. ev.op = "remove" => ev.path \notin watchedDirs
    BY <1>3 DEF HandleStep, HandleExcluded, HandleDirCreated, HandleFileChanged,
       HandleFileRemoved, LifeInv
  <2>3. \A d \in watchedDirs : ev # Event("remove", d)
    BY <2>2 DEF Event
  <2>. QED  BY <1>1, <2>1, <2>3, HandleKeepsPending DEF RecordsInv
<1>. QED  BY <1>2, <1>3

LEMMA OtherKeepsRecords ==
  ASSUME TypeInv, LifeInv, RecordsInv, OtherStep
  PROVE  RecordsInv'
<1>1. \A d : Pending("remove", d)' <=> Pending("remove", d)
  BY OtherKeepsPending
<1>2. CASE UNCHANGED <<watchedDirs, kwatch, fsClosed, lost>>
  BY <1>1, <1>2 DEF RecordsInv
<1>3. CASE fsClosed'
  BY <1>3 DEF RecordsInv
<1>4. ASSUME NEW d \in cur, Watch(d) PROVE RecordsInv'
  BY <1>1, <1>4 DEF Watch, RecordsInv, historyVars
<1>5. ASSUME NEW d \in cur, WatchFails(d) PROVE RecordsInv'
  BY <1>1, <1>5 DEF WatchFails, RecordsInv, notifyVars
<1>6. ASSUME NEW all, watchedDirs' = watchedDirs \ all, kwatch' = kwatch \ (all \cap watchedDirs),
             lost' = lost \ all, UNCHANGED fsClosed
      PROVE  RecordsInv'
  BY <1>1, <1>6 DEF RecordsInv
<1>7. ASSUME NEW d \in Dirs, Remove(d) PROVE RecordsInv'
  BY <1>6, <1>7 DEF Remove, Unwatch
<1>8. ASSUME NEW p \in Patterns, Ignore(p) PROVE RecordsInv'
  BY <1>6, <1>8 DEF Ignore
<1>9. CASE WalkStep
  BY <1>2, <1>4, <1>5, <1>9 DEF WalkStep, Visit, SkipExcluded, WalkEnds, notifyVars
<1>10. CASE Api \/ CloseFsnotify \/ CancelContext \/ UNCHANGED vars
  BY <1>2, <1>3, <1>7, <1>8, <1>10 DEF Api, Add, Unignore, Close, CloseFsnotify, CancelContext,
     vars, notifyVars, historyVars
<1>11. CASE RunStart \/ RunStep \/ FsnotifyError \/ CallbackBlocks
  BY <1>2, <1>3, <1>11 DEF OtherStep, RunStep, HandleStep, RunStart, Register, Registered, SeeClose,
     SeeDone, Fail, FsnotifyError, CallbackReturns, CallbackBlocks, notifyVars, historyVars
<1>. QED  BY <1>9, <1>10, <1>11 DEF OtherStep, Next

LEMMA StepKeepsRecords ==
  ASSUME TypeInv, LifeInv, RecordsInv, [Next]_vars
  PROVE  RecordsInv'
<1>1. CASE TakeEvent
  BY <1>1, TakeKeepsPending DEF TakeEvent, RecordsInv, historyVars
<1>. QED  BY <1>1, FileSystemKeepsRecords, HandleKeepsRecords, OtherKeepsRecords DEF OtherStep

\* The result about records.
LEMMA InitHasRecords == Init => LifeInv /\ RecordsInv
BY DEF Init, LifeInv, RecordsInv, Walking

(***************************************************************************)
(* What the watcher records and what fsnotify watches stay the same        *)
(* (handleEvent, add, remove): they differ only while the removal of the   *)
(* directory waits to be handled, and for a directory whose watch failed.  *)
(***************************************************************************)
THEOREM RecordsInvariance == Spec => [](LifeInv /\ RecordsInv)
BY TypeInvariance, InitHasRecords, StepKeepsLife, StepKeepsRecords, PTL DEF Spec

(***************************************************************************)
(* Hence records and watches agree once all events are handled: no walk    *)
(* stops at a directory that is recorded and not watched, and no watch     *)
(* outlives its record (add, remove).                                      *)
(***************************************************************************)
THEOREM RecordsAgree == Spec => []WatchesAgree
<1>1. TypeInv /\ LifeInv /\ RecordsInv => WatchesAgree
  <2> SUFFICES ASSUME TypeInv, LifeInv, RecordsInv, Settled PROVE watchedDirs \ lost \subseteq kwatch
    BY DEF WatchesAgree, TypeInv, WatchInv
  <2>1. ~fsClosed
    BY DEF LifeInv, Settled
  <2>2. \A d : ~Pending("remove", d)
    BY DEF Pending, Settled
  <2>. QED  BY <2>1, <2>2 DEF RecordsInv
<1>. QED  BY <1>1, TypeInvariance, RecordsInvariance, PTL

-----------------------------------------------------------------------------
(* Directories that come and go.  A removal that waits does not hide a directory that *)
(* was created later: the event that creates it waits, too, behind the removal.       *)

Announced(d) ==
    \A i \in Places : EventAt(i).op = "remove" /\ EventAt(i).path \in Above(d) \cup {d} =>
        \E j \in Places : j > i /\ EventAt(j) = Event("create", d)

noticed == announced \cup seen
AnnouncedInv == \A d \in noticed \cap dirs : Announced(d)

USE DEF noticed

LEMMA AnnouncedEmit ==
  ASSUME TypeInv, NEW e \in EventSet, queue' = queue \/ queue' = Append(queue, e),
         UNCHANGED <<rpc, ev>>, NEW d, Announced(d),
         ~(e.op = "remove" /\ e.path \in Above(d) \cup {d})
  PROVE  Announced(d)'
<1>1. CASE queue' = queue
  BY <1>1 DEF Announced, Places, EventAt
<1>2. CASE queue' = Append(queue, e)
  <2> DEFINE last == Len(queue) + 1
  <2>1. /\ Places' = Places \cup {last} /\ last \in Nat
        /\ \A i \in Places : i < last /\ EventAt(i)' = EventAt(i)
        /\ \A n \in Nat : n = last => EventAt(n)' = e
    BY <1>2, EmitPlaces, PlaceTypes
  <2> HIDE DEF last
  <2>. QED  BY <2>1 DEF Announced, Event
<1>. QED  BY <1>1, <1>2

\* The directory's own creation comes last.
LEMMA AnnouncedMkdir ==
  ASSUME TypeInv, NEW d \in Dirs, queue' = Append(queue, Event("create", d)), UNCHANGED <<rpc, ev>>
  PROVE  Announced(d)'
<1> DEFINE last == Len(queue) + 1
           e == Event("create", d)
<1>1. e \in EventSet
  BY DEF Event, EventSet, Ops, Paths
<1>2. /\ Places' = Places \cup {last} /\ last \in Nat
      /\ \A i \in Places : i < last
      /\ \A n \in Nat : n = last => EventAt(n)' = e
  BY <1>1, EmitPlaces, PlaceTypes
<1> HIDE DEF last
<1>3. ASSUME NEW i \in Places', EventAt(i)'.op = "remove" PROVE i < last
  BY <1>2, <1>3 DEF Event
<1>. QED  BY <1>2, <1>3 DEF Announced, Event

LEMMA AnnouncedTake ==
  ASSUME TypeInv, TakeEvent, NEW d, Announced(d)
  PROVE  Announced(d)'
<1> SUFFICES ASSUME NEW i \in Places', EventAt(i)'.op = "remove", EventAt(i)'.path \in Above(d) \cup {d}
             PROVE  \E j \in Places' : j > i /\ EventAt(j)' = Event("create", d)
  BY DEF Announced, Event
<1>1. i + 1 \in Places /\ EventAt(i + 1) = EventAt(i)' /\ i \in Nat
  BY TakePlaces
<1>2. PICK j \in Places : j > i + 1 /\ EventAt(j) = Event("create", d)
  BY <1>1 DEF Announced
<1>3. j - 1 \in Places' /\ EventAt(j - 1)' = Event("create", d) /\ j - 1 > i
  BY <1>1, <1>2, TakePlaces, PlaceTypes DEF Event
<1>. QED  BY <1>3

LEMMA AnnouncedHandle ==
  ASSUME TypeInv, HandleStep, NEW d, Announced(d)
  PROVE  Announced(d)'
<1>1. /\ Places' = Places \ {0} /\ \A i \in Places' : EventAt(i)' = EventAt(i)
      /\ Places \subseteq Nat
  BY HandlePlaces, PlaceTypes
<1>2. ASSUME NEW i \in Places', EventAt(i)'.op = "remove", EventAt(i)'.path \in Above(d) \cup {d}
      PROVE  \E j \in Places' : j > i /\ EventAt(j)' = Event("create", d)
  <2>1. PICK j \in Places : j > i /\ EventAt(j) = Event("create", d)
    BY <1>1, <1>2 DEF Announced
  <2>2. j \in Places'
    BY <1>1, <2>1
  <2>. QED  BY <1>1, <2>1, <2>2
<1>. QED  BY <1>2 DEF Announced, Event

LEMMA AnnouncedOther ==
  ASSUME TypeInv, LifeInv, OtherStep, NEW d, Announced(d)
  PROVE  Announced(d)'
BY OtherPlaces DEF Announced, Event

LEMMA FileSystemKeepsAnnounced ==
  ASSUME TypeInv, AnnouncedInv, FileSystem
  PROVE  AnnouncedInv'
<1>0. UNCHANGED <<rpc, ev>>
  BY DEF FileSystem, Mkdir, Rmdir, Write, Delete, Operate
<1>1. ASSUME NEW e \in EventSet, Emit(e), NEW d \in noticed \cap dirs,
             ~(e.op = "remove" /\ e.path \in Above(d) \cup {d})
      PROVE  Announced(d)'
  BY <1>0, <1>1, AnnouncedEmit DEF Emit, AnnouncedInv
<1>2. ASSUME NEW d \in Dirs, Mkdir(d) PROVE AnnouncedInv'
  <2>1. Event("create", d) \in EventSet /\ Event("create", d).op # "remove"
    BY DEF Event, EventSet, Ops, Paths
  <2>2. \A c \in noticed \cap dirs : Announced(c)'
    BY <1>1, <1>2, <2>1 DEF Mkdir
  <2>3. d \in noticed' => Announced(d)'
    <3>1. d \in noticed' => queue' = Append(queue, Event("create", d))
      BY <1>2 DEF Mkdir, Emit, Event
    <3>. QED  BY <1>0, <3>1, AnnouncedMkdir
  <2>4. \A c \in noticed' \cap dirs' : c = d \/ c \in noticed \cap dirs
    BY <1>2 DEF Mkdir
  <2>. QED  BY <2>2, <2>3, <2>4 DEF AnnouncedInv
<1>3. ASSUME NEW d \in Dirs, Rmdir(d) PROVE AnnouncedInv'
  <2>1. Event("remove", d) \in EventSet /\ Event("remove", d).path = d
    BY DEF Event, EventSet, Ops, Paths
  <2>2. \A c \in noticed' \cap dirs' : c \in noticed \cap dirs /\ c # d /\ d \notin Above(c)
    BY <1>3, NothingBelow DEF Rmdir, TypeInv, TreeInv, Exists, Paths
  <2>. QED  BY <1>1, <1>3, <2>1, <2>2 DEF Rmdir, AnnouncedInv
<1>4. ASSUME NEW f \in Files, NEW op \in Ops, Emit(Event(op, f)), UNCHANGED <<noticed, dirs>>
      PROVE  AnnouncedInv'
  <2>1. Event(op, f) \in EventSet /\ Event(op, f).path = f
    BY DEF Event, EventSet, Ops, Paths
  <2>2. \A c \in noticed \cap dirs : f \notin Above(c) \cup {c}
    BY PathFacts DEF TypeInv, TreeInv, Exists, Paths
  <2>. QED  BY <1>1, <1>4, <2>1, <2>2 DEF AnnouncedInv
<1>5. ASSUME NEW f \in Files, NEW c \in Contents, Write(f, c) PROVE AnnouncedInv'
  BY <1>4, <1>5 DEF Write, Ops
<1>6. ASSUME NEW f \in Files, NEW op \in {"remove", "rename"}, Delete(f, op) PROVE AnnouncedInv'
  BY <1>4, <1>6 DEF Delete, Ops
<1>. QED  BY <1>2, <1>3, <1>5, <1>6 DEF FileSystem

\* A walk notices no directory whose removal waits.
LEMMA OtherKeepsAnnounced ==
  ASSUME TypeInv, LifeInv, AnnouncedInv, OtherStep
  PROVE  AnnouncedInv'
<1>1. dirs' = dirs
  BY OtherPlaces
<1>2. ASSUME NEW d \in noticed', d \notin noticed PROVE ~RemovalPending(d)
  <2>1. \E x \in Paths : Visit(x)
    BY <1>2 DEF OtherStep, Next, WalkStep, Watch, WatchFails, SkipExcluded, WalkEnds, EndWalk,
       RunStart, RunStep, HandleStep, Register, Registered, SeeClose, SeeDone, Fail, FsnotifyError,
       CallbackReturns,
       CallbackBlocks, Api, Add, Remove, Ignore, Unignore, Close, CloseFsnotify, CancelContext,
       vars, historyVars
  <2>. QED  BY <1>2, <2>1 DEF Visit, EndWalk
<1>3. ASSUME NEW d, ~RemovalPending(d) PROVE Announced(d)
  <2>1. \A i \in Places : EventAt(i) \in EventSet \cup {NoEvent}
    <3>1. queue \in Seq(EventSet) /\ \A i \in Places : i # 0 => i \in DOMAIN queue
      BY PlaceTypes
    <3>2. \A i \in DOMAIN queue : queue[i] \in EventSet
      BY <3>1
    <3>3. ev \in EventSet \cup {NoEvent}
      BY DEF TypeInv, LockInv, EventSet
    <3>. QED  BY <3>1, <3>2, <3>3 DEF EventAt
  <2>2. \A i \in Places : EventAt(i).op = "remove" => EventAt(i) = Event("remove", EventAt(i).path)
    BY <2>1 DEF EventSet, Event, NoEvent
  <2>3. \A x \in Above(d) \cup {d} : \A i \in Places : EventAt(i) # Event("remove", x)
    BY <1>3, PendingPlaces DEF PendingAtPlace, RemovalPending
  <2>. QED  BY <2>2, <2>3 DEF Announced
<1>. QED  BY <1>1, <1>2, <1>3, AnnouncedOther DEF AnnouncedInv

LEMMA StepKeepsAnnounced ==
  ASSUME TypeInv, LifeInv, AnnouncedInv, [Next]_vars
  PROVE  AnnouncedInv'
<1>1. CASE TakeEvent
  <2>1. UNCHANGED <<noticed, dirs>>
    BY <1>1 DEF TakeEvent, fsVars, historyVars
  <2>. QED  BY <1>1, <2>1, AnnouncedTake DEF AnnouncedInv
<1>2. CASE HandleStep
  <2>1. noticed' \subseteq noticed /\ dirs' = dirs
    BY <1>2 DEF HandleStep, HandleExcluded, HandleDirCreated, HandleDirRemoved, HandleFileChanged,
       HandleFileRemoved, fsVars, historyVars
  <2>. QED  BY <1>2, <2>1, AnnouncedHandle DEF AnnouncedInv
<1>. QED  BY <1>1, <1>2, FileSystemKeepsAnnounced, OtherKeepsAnnounced DEF OtherStep

\* Only files are renamed.
RenameInv == \A i \in Places : EventAt(i).op = "rename" => EventAt(i).path \in Files

LEMMA StepKeepsRenames ==
  ASSUME TypeInv, LifeInv, RenameInv, [Next]_vars
  PROVE  RenameInv'
<1>1. ASSUME FileSystem PROVE RenameInv'
  <2>1. UNCHANGED <<rpc, ev>>
    BY <1>1 DEF FileSystem, Mkdir, Rmdir, Write, Delete, Operate
  <2>2. \/ queue' = queue
        \/ \E e \in EventSet : queue' = Append(queue, e) /\ (e.op = "rename" => e.path \in Files)
    <3>1. ASSUME NEW op \in Ops, NEW x \in Paths, Emit(Event(op, x)), op = "rename" => x \in Files
          PROVE  \/ queue' = queue
                 \/ \E e \in EventSet : queue' = Append(queue, e) /\ (e.op = "rename" => e.path \in Files)
      BY <3>1 DEF Emit, Event, EventSet
    <3>2. CASE \E d \in Dirs : Mkdir(d) \/ Rmdir(d)
      BY <3>1, <3>2 DEF Mkdir, Rmdir, Ops, Paths
    <3>3. CASE \E f \in Files : \E c \in Contents : Write(f, c)
      BY <3>1, <3>3 DEF Write, Ops, Paths
    <3>4. CASE \E f \in Files : \E op \in {"remove", "rename"} : Delete(f, op)
      BY <3>1, <3>4 DEF Delete, Ops, Paths
    <3>. QED  BY <1>1, <3>2, <3>3, <3>4 DEF FileSystem
  <2>3. CASE queue' = queue
    BY <2>1, <2>3 DEF RenameInv, Places, EventAt
  <2>4. ASSUME NEW e \in EventSet, queue' = Append(queue, e), e.op = "rename" => e.path \in Files
        PROVE  RenameInv'
    <3>1. /\ Places' = Places \cup {Len(queue) + 1} /\ Len(queue) + 1 \in Nat
          /\ \A i \in Places : EventAt(i)' = EventAt(i)
          /\ \A n \in Nat : n = Len(queue) + 1 => EventAt(n)' = e
      BY <2>1, <2>4, EmitPlaces, PlaceTypes
    <3>. QED  BY <3>1, <2>4 DEF RenameInv
  <2>. QED  BY <2>2, <2>3, <2>4
<1>2. CASE TakeEvent
  BY <1>2, TakePlaces DEF RenameInv
<1>3. CASE HandleStep
  BY <1>3, HandlePlaces DEF RenameInv
<1>. QED  BY <1>1, <1>2, <1>3, OtherPlaces DEF OtherStep, RenameInv

-----------------------------------------------------------------------------
(* What was announced is watched, or the event of its creation waits, or the walk that *)
(* this event started is about to watch it; what a walk saw, that walk will visit.     *)

Tracked(d) ==
    d \in kwatch \/ Pending("create", d) \/ (Walking /\ todo \cup cur = {d})

Visited(d) == Walking /\ d \in todo \cup names \cup cur

NoticedInv ==
    ~fsClosed => \A d \in (noticed \cap dirs) \ lost : Tracked(d) \/ (d \notin announced /\ Visited(d))

LEMMA FileSystemKeepsNoticed ==
  ASSUME TypeInv, NoticedInv, FileSystem
  PROVE  NoticedInv'
<1>1. UNCHANGED <<lost, fsClosed, walker, rpc, todo, cur, names>>
  BY DEF FileSystem, Mkdir, Rmdir, Write, Delete, Operate, walkVars
<1>2. ASSUME NEW d, d \in kwatch => d \in kwatch'
      PROVE  (Tracked(d) => Tracked(d)') /\ (Visited(d) => Visited(d)')
  BY <1>1, <1>2, FileSystemKeepsPending DEF Tracked, Visited, Walking
<1>3. ASSUME NEW d \in (noticed' \cap dirs') \ (noticed \cap dirs) PROVE Pending("create", d)'
  <2>1. Mkdir(d) /\ d \in Dirs /\ Parent(d) \in kwatch
    BY <1>3 DEF FileSystem, Mkdir, Rmdir, Write, Delete
  <2>2. Emit(Event("create", d)) /\ Event("create", d).path = d
    BY <2>1 DEF Mkdir, Event
  <2>3. queue' = Append(queue, Event("create", d))
    BY <2>1, <2>2 DEF Emit
  <2>. QED  BY <2>1, <2>3, EmittedIsPending DEF Ops, Paths
<1>4. \A d \in noticed' \cap dirs' :
          /\ d \in kwatch => d \in kwatch'
          /\ d \in dirs => (d \in announced' <=> d \in announced)
  BY DEF FileSystem, Mkdir, Rmdir, Write, Delete
<1>. QED  BY <1>1, <1>2, <1>3, <1>4 DEF NoticedInv, Tracked

LEMMA HandleKeepsNoticed ==
  ASSUME TypeInv, LifeInv, AnnouncedInv, RenameInv, NoticedInv, HandleStep
  PROVE  NoticedInv'
<1>1. /\ UNCHANGED <<fsClosed, dirs, queue, ev>> /\ noticed' \subseteq noticed
      /\ ~Walking /\ rpc = "handle"
  BY DEF HandleStep, HandleExcluded, HandleDirCreated, HandleDirRemoved, HandleFileChanged,
     HandleFileRemoved, Handling, Free, Walking, historyVars, notifyVars, fsVars
<1>2. ASSUME NEW d, Tracked(d), ev # Event("create", d), d \in kwatch => d \in kwatch'
      PROVE  Tracked(d)'
  BY <1>1, <1>2, HandleKeepsPending DEF Tracked
<1>3. ~fsClosed => \A d \in (noticed \cap dirs) \ lost : Tracked(d)
  BY <1>1 DEF NoticedInv, Visited
<1>4. ASSUME \A d \in (noticed' \cap dirs) \ lost' : d \notin lost => ev # Event("create", d) \/ Tracked(d)',
             \A d \in (noticed' \cap dirs) \ lost' :
                 d \in lost \/ ~(d \in kwatch => d \in kwatch') => Pending("create", d)'
      PROVE  NoticedInv'
  BY <1>1, <1>2, <1>3, <1>4 DEF NoticedInv, Tracked
<1>5. CASE HandleExcluded
  <2>1. \A d \in noticed' : ev # Event("create", d)
    BY <1>5 DEF HandleExcluded, Event
  <2>2. lost' = lost /\ kwatch' = kwatch
    BY <1>5 DEF HandleExcluded, notifyVars
  <2>. QED  BY <1>4, <2>1, <2>2
<1>6. CASE HandleDirCreated
  <2>1. ASSUME NEW d, ev = Event("create", d) PROVE Tracked(d)'
    BY <1>1, <1>6, <2>1 DEF LifeInv, HandleDirCreated, BeginWalk, Tracked, Walking, Event
  <2>2. lost' = lost /\ kwatch' = kwatch
    BY <1>6 DEF HandleDirCreated, notifyVars, historyVars
  <2>. QED  BY <1>4, <2>1, <2>2
<1>7. CASE HandleFileChanged \/ HandleFileRemoved
  <2>1. \A d \in dirs : ev # Event("create", d)
    BY <1>7 DEF HandleFileChanged, HandleFileRemoved, Event
  <2>2. lost' = lost /\ kwatch' = kwatch
    BY <1>7 DEF HandleFileChanged, HandleFileRemoved, notifyVars
  <2>. QED  BY <1>4, <2>1, <2>2
<1>8. CASE HandleDirRemoved
  <2> DEFINE all == UNION {Subtree(d) : d \in {ev.path} \cap watchedDirs}
  <2>1. \A d : ev # Event("create", d)
    BY <1>8 DEF HandleDirRemoved, Event
  <2>2. kwatch' = kwatch \ (all \cap watchedDirs) /\ lost' = lost \ all
    BY <1>8 DEF HandleDirRemoved, Unwatch
  <2>3. ev.op = "remove" /\ ev.path \in Dirs
    <3>1. 0 \in Places /\ EventAt(0) = ev
      BY <1>1, PlaceTypes DEF EventAt
    <3>2. ev.path \in Dirs
      BY <1>8 DEF HandleDirRemoved, TypeInv, WatchInv
    <3>. QED  BY <3>1, <3>2, <1>8, PathFacts DEF HandleDirRemoved, RenameInv
  <2>4. ASSUME NEW d \in noticed \cap dirs, d \in all
        PROVE  Pending("create", d)'
    <3>1. d \in Subtree(ev.path)
      BY <2>4
    <3>2. ev.path \in Above(d) \cup {d}
      <4>1. d \in Seq(STRING) /\ ev.path \in Seq(STRING)
        BY <2>3, <2>4, PathTypes DEF TypeInv, TreeInv, Paths
      <4>. QED  BY <3>1, <4>1, UnderAbove DEF Subtree
    <3>3. 0 \in Places /\ EventAt(0) = ev
      BY <1>1, PlaceTypes DEF EventAt
    <3>4. PICK j \in Places : j > 0 /\ EventAt(j) = Event("create", d)
      BY <2>3, <2>4, <3>2, <3>3 DEF AnnouncedInv, Announced
    <3>5. j \in DOMAIN queue /\ queue[j] = Event("create", d)
      BY <3>4, PlaceTypes
    <3>. QED  BY <1>1, <3>5 DEF Pending, Event
  <2> HIDE DEF all
  <2>. QED  BY <1>1, <1>4, <2>1, <2>2, <2>4
<1>. QED  BY <1>5, <1>6, <1>7, <1>8 DEF HandleStep

LEMMA WalkKeepsNoticed ==
  ASSUME TypeInv, LifeInv, RecordsInv, AnnouncedInv, NoticedInv, WalkStep, OtherStep
  PROVE  NoticedInv'
<1> SUFFICES ASSUME ~fsClosed, NEW d \in (noticed' \cap dirs') \ lost'
             PROVE  Tracked(d)' \/ (d \notin announced' /\ Visited(d)')
  BY DEF NoticedInv, WalkStep, Visit, Watch, WatchFails, SkipExcluded, WalkEnds, notifyVars
<1>1. /\ UNCHANGED <<dirs, fsClosed>> /\ kwatch \subseteq kwatch' /\ lost \subseteq lost'
      /\ announced' \subseteq announced
      /\ \A op, x : Pending(op, x)' <=> Pending(op, x)
  <2>1. \A op, x : Pending(op, x)' <=> Pending(op, x)
    BY OtherKeepsPending
  <2>. QED  BY <2>1 DEF WalkStep, Visit, Watch, WatchFails, SkipExcluded, WalkEnds, notifyVars, fsVars,
                historyVars
<1>2. d \in noticed => Tracked(d) \/ (d \notin announced /\ Visited(d))
  BY <1>1 DEF NoticedInv
<1>3. ASSUME d \in noticed,
             todo \cup cur = {d} /\ Walking => Tracked(d)',
             d \notin announced /\ Visited(d) => Visited(d)'
      PROVE  Tracked(d)' \/ (d \notin announced' /\ Visited(d)')
  BY <1>1, <1>2, <1>3 DEF Tracked
<1>4. /\ cur = {} => names = {}
      /\ Walking
      /\ \A c \in cur : cur = {c}
  BY DEF LifeInv, TypeInv, WalkInv, WalkStep, Visit, WalkEnds, Walking
<1>5. ASSUME NEW x \in Paths, Visit(x)
      PROVE  Tracked(d)' \/ (d \notin announced' /\ Visited(d)')
  <2>1. cur = {} /\ names = {} /\ x \in todo
    BY <1>4, <1>5 DEF Visit, Next1
  <2>2. CASE ~Exists(x)
    <3>1. d \in noticed /\ d # x
      BY <1>1, <1>5, <2>2 DEF Visit, EndWalk, Exists
    <3>2. d \notin announced => d \notin todo \cup names
      BY <1>1, <1>5, <2>2 DEF Visit, EndWalk
    <3>. QED  BY <1>3, <2>1, <3>1, <3>2 DEF Visited
  <2>3. CASE Exists(x)
    <3>1. Walking' /\ announced' = announced
      BY <1>4, <1>5, <2>1, <2>3 DEF Visit, Walking
    <3>2. CASE x \in Dirs
      <4>1. /\ todo' = todo \ {x} /\ cur' = {x} /\ names' = Children(x)
            /\ d \in noticed \/ (d \in Children(x) /\ d \notin announced)
        BY <1>5, <2>3, <3>2 DEF Visit
      <4>2. CASE d \in noticed
        <5>1. todo \cup cur = {d} => todo' \cup cur' = {d}
          BY <2>1, <4>1
        <5>. QED  BY <1>3, <2>1, <3>1, <4>1, <4>2, <5>1 DEF Tracked, Visited
      <4>. QED  BY <3>1, <4>1, <4>2 DEF Visited
    <3>3. CASE x \notin Dirs
      <4>1. todo' = todo \ {x} /\ cur' = cur /\ names' = names /\ seen' = seen
        BY <1>5, <2>3, <3>3 DEF Visit
      <4>2. d # x
        BY <1>1, <3>3 DEF TypeInv, TreeInv
      <4>. QED  BY <1>3, <2>1, <3>1, <4>1, <4>2 DEF Visited
    <3>. QED  BY <3>2, <3>3
  <2>. QED  BY <2>2, <2>3
<1>6. ASSUME NEW c \in cur, Watch(c)
      PROVE  Tracked(d)' \/ (d \notin announced' /\ Visited(d)')
  <2>1. todo' = todo \cup names /\ c \in kwatch' /\ noticed' = noticed /\ Walking'
    BY <1>4, <1>6 DEF Watch, Walking, historyVars
  <2>2. d = c => Tracked(d)'
    BY <2>1 DEF Tracked
  <2>. QED  BY <1>3, <1>4, <2>1, <2>2 DEF Visited
<1>7. ASSUME NEW c \in cur, WatchFails(c)
      PROVE  Tracked(d)' \/ (d \notin announced' /\ Visited(d)')
  <2>1. c \notin dirs /\ d \in noticed /\ (d \notin announced => d \notin todo \cup names)
    BY <1>1, <1>7 DEF WatchFails, EndWalk
  <2>. QED  BY <1>1, <1>3, <1>4, <2>1 DEF Visited
<1>8. ASSUME NEW c \in cur, SkipExcluded(c)
      PROVE  Tracked(d)' \/ (d \notin announced' /\ Visited(d)')
  <2>1. todo' = todo \cup names /\ d \in noticed /\ d # c /\ Walking'
    BY <1>4, <1>8 DEF SkipExcluded, Walking
  <2>. QED  BY <1>3, <1>4, <2>1 DEF Visited
<1>9. CASE WalkEnds
  <2>1. /\ d \in noticed /\ (d \notin announced => d \notin todo \cup names)
        /\ cur = {} => todo = {}
    BY <1>1, <1>9 DEF WalkEnds, EndWalk
  <2>2. CASE d \notin cur
    BY <1>3, <1>4, <2>1, <2>2 DEF Visited
  <2>3. CASE d \in cur
    <3>1. d \in watchedDirs
      BY <1>4, <1>9, <2>3 DEF WalkEnds
    <3>2. d \in kwatch \/ Pending("remove", d)
      BY <1>1, <3>1 DEF RecordsInv
    <3>3. ASSUME Pending("remove", d) PROVE Pending("create", d)
      <4>1. PICK i \in Places : EventAt(i) = Event("remove", d)
        BY <3>3, PendingPlaces DEF PendingAtPlace
      <4>2. EventAt(i).op = "remove" /\ EventAt(i).path = d
        BY <4>1 DEF Event
      <4>3. \E j \in Places : EventAt(j) = Event("create", d)
        BY <1>1, <2>1, <4>2 DEF AnnouncedInv, Announced
      <4>. QED  BY <4>3, PendingPlaces DEF PendingAtPlace
    <3>. QED  BY <1>1, <3>2, <3>3 DEF Tracked
  <2>. QED  BY <2>2, <2>3
<1>. QED  BY <1>5, <1>6, <1>7, <1>8, <1>9 DEF WalkStep

LEMMA ApiKeepsNoticed ==
  ASSUME TypeInv, LifeInv, NoticedInv, Api, OtherStep
  PROVE  NoticedInv'
<1>1. UNCHANGED <<dirs, fsClosed>> /\ \A op, x : Pending(op, x)' <=> Pending(op, x)
  <2>1. \A op, x : Pending(op, x)' <=> Pending(op, x)
    BY OtherKeepsPending
  <2>. QED  BY <2>1 DEF Api, Add, Remove, Ignore, Unignore, Close, notifyVars, fsVars
<1>2. ~Walking
  BY DEF Api, Add, Remove, Ignore, Unignore, Close, Call, Free, Walking
<1>3. ASSUME noticed' \subseteq noticed, \A d \in noticed' \ lost' : d \notin lost,
             \A d \in noticed' : d \in kwatch => d \in kwatch'
      PROVE  NoticedInv'
  BY <1>1, <1>2, <1>3 DEF NoticedInv, Tracked, Visited
<1>4. ASSUME NEW c \in Dirs, Remove(c) PROVE NoticedInv'
  <2> DEFINE all == UNION {Subtree(e) : e \in {c} \cap watchedDirs}
  <2>1. /\ kwatch' = kwatch \ (all \cap watchedDirs) /\ lost' = lost \ all
        /\ noticed' = noticed \ (IF c \in watchedDirs THEN Subtree(c) ELSE {})
    BY <1>4 DEF Remove, Unwatch
  <2>2. all = IF c \in watchedDirs THEN Subtree(c) ELSE {}
    OBVIOUS
  <2> HIDE DEF all
  <2>. QED  BY <1>3, <2>1, <2>2
<1>5. ASSUME NEW p \in Patterns, Ignore(p) PROVE NoticedInv'
  <2> DEFINE all == UNION {Subtree(e) : e \in {e \in watchedDirs \ {Root} : \E q \in exclude' : e \in q}}
  <2>1. kwatch' = kwatch \ (all \cap watchedDirs) /\ lost' = lost \ all /\ noticed' = noticed \ all
    BY <1>5 DEF Ignore
  <2> HIDE DEF all
  <2>. QED  BY <1>3, <2>1
<1>6. CASE (\E d \in AddDirs : Add(d)) \/ (\E p \in Patterns : Unignore(p)) \/ Close
  BY <1>3, <1>6 DEF Add, Unignore, Close, notifyVars, historyVars
<1>. QED  BY <1>4, <1>5, <1>6 DEF Api

LEMMA RunKeepsNoticed ==
  ASSUME TypeInv, LifeInv, NoticedInv, OtherStep,
         RunStart \/ RunStep \/ FsnotifyError
         \/ CallbackBlocks \/ CloseFsnotify \/ CancelContext \/ UNCHANGED vars
  PROVE  NoticedInv'
<1>1. \A op, x : Pending(op, x)' <=> Pending(op, x)
  BY OtherKeepsPending
<1>2. ASSUME UNCHANGED <<dirs, fsClosed, lost, kwatch, announced, seen>>,
             Walking => Walking' /\ UNCHANGED <<todo, names, cur>>
      PROVE  NoticedInv'
  BY <1>1, <1>2 DEF NoticedInv, Tracked, Visited
<1>3. CASE \E x \in Paths : Register(x)
  BY <1>2, <1>3 DEF Register, Walking, fsVars, notifyVars
<1>4. CASE RunStart \/ Registered
  BY <1>2, <1>4 DEF RunStart, Registered, Free, Walking, fsVars, notifyVars, historyVars
<1>5. CASE SeeClose \/ SeeDone \/ FsnotifyError \/ CallbackReturns
           \/ CallbackBlocks \/ CancelContext \/ UNCHANGED vars
  BY <1>2, <1>5 DEF SeeClose, SeeDone, FsnotifyError, CallbackReturns,
     CallbackBlocks, CancelContext, vars, Walking,
     fsVars, notifyVars, walkVars, historyVars
<1>6. CASE Fail \/ CloseFsnotify
  <2>1. CASE fsClosed'
    BY <2>1 DEF NoticedInv
  <2>2. CASE ~fsClosed'
    BY <1>2, <1>6, <2>2 DEF Fail, CloseFsnotify, Walking, fsVars, walkVars, historyVars
  <2>. QED  BY <2>1, <2>2
<1>. QED  BY <1>3, <1>4, <1>5, <1>6 DEF OtherStep, RunStep, HandleStep

LEMMA StepKeepsNoticed ==
  ASSUME TypeInv, LifeInv, RecordsInv, AnnouncedInv, RenameInv, NoticedInv, [Next]_vars
  PROVE  NoticedInv'
<1>1. CASE TakeEvent
  <2>1. /\ UNCHANGED <<dirs, fsClosed, lost, kwatch, announced, seen, walker, todo, names, cur>>
        /\ rpc = "loop" /\ rpc' = "handle"
    BY <1>1 DEF TakeEvent, fsVars, walkVars, historyVars
  <2>2. \A op, x : Pending(op, x) => Pending(op, x)'
    BY <1>1, TakeKeepsPending
  <2>. QED  BY <2>1, <2>2 DEF NoticedInv, Tracked, Visited, Walking
<1>2. CASE FileSystem \/ HandleStep
  BY <1>2, FileSystemKeepsNoticed, HandleKeepsNoticed
<1>3. CASE OtherStep
  BY <1>3, WalkKeepsNoticed, ApiKeepsNoticed, RunKeepsNoticed DEF OtherStep, Next
<1>. QED  BY <1>1, <1>2, <1>3 DEF OtherStep

LEMMA InitHasNoticed == Init => RenameInv /\ AnnouncedInv /\ NoticedInv
<1>1. Init => noticed = {} /\ Places = {}
  <2>1. Len(<<>>) = 0
    BY EmptySeq
  <2>. QED  BY <2>1 DEF Init, Places
<1>. QED  BY <1>1 DEF RenameInv, AnnouncedInv, NoticedInv

(***************************************************************************)
(* However directories come and go while events about them wait and other  *)
(* walks break off, a directory whose creation fsnotify saw is watched,    *)
(* unless it was excluded when that was handled, or will be: the event of  *)
(* its creation waits behind every removal that would unwatch it, or the   *)
(* walk of that event begins.  A directory that only a walk saw is watched *)
(* or that walk still goes on to it (handleEvent, add).                    *)
(***************************************************************************)
THEOREM NoticedInvariance == Spec => [](RenameInv /\ AnnouncedInv /\ NoticedInv)
BY TypeInvariance, RecordsInvariance, InitHasNoticed, StepKeepsRenames, StepKeepsAnnounced,
   StepKeepsNoticed, PTL DEF Spec

(***************************************************************************)
(* Hence all of them are watched once all events are handled: what was     *)
(* announced, whatever walks break off, and what a walk saw and reached.   *)
(* Only a directory whose record stayed although its watch failed is not   *)
(* (handleEvent, add).                                                     *)
(***************************************************************************)
THEOREM NoticedAreWatched == Spec => []NoticedDirsWatched
<1>1. LifeInv /\ NoticedInv => NoticedDirsWatched
  <2> SUFFICES ASSUME LifeInv, NoticedInv, Settled, NEW d \in (noticed \cap dirs) \ lost
               PROVE  d \in kwatch
    BY DEF NoticedDirsWatched
  <2>1. ~fsClosed /\ ~Walking /\ ~Pending("create", d)
    BY DEF LifeInv, Settled, Free, Walking, Pending
  <2>. QED  BY <2>1 DEF NoticedInv, Tracked, Visited
<1>. QED  BY <1>1, RecordsInvariance, NoticedInvariance, PTL

-----------------------------------------------------------------------------
(* The last change of a file that was seen: the last event about it tells whether the *)
(* file exists, and without one that waits, what it holds was reported.               *)

About(f) == {i \in Places : EventAt(i).path = f}
LastAbout(f, i) == i \in About(f) /\ \A j \in About(f) : j <= i

EventInv ==
    \A f \in told :
        /\ \A i \in Places :
               LastAbout(f, i) => (EventAt(i).op \in {"create", "write"} <=> content[f] # 0)
        /\ About(f) = {} => reported[f] = content[f]

ToldInv == rpc \in {"idle", "register"} => told = {}

LEMMA StepKeepsTold ==
  ASSUME TypeInv, LifeInv, ToldInv, [Next]_vars
  PROVE  ToldInv'
<1>1. CASE FileSystem
  BY <1>1 DEF FileSystem, Mkdir, Rmdir, Write, Delete, Operate, Tell, ToldInv
<1>2. CASE TakeEvent \/ HandleStep
  <2>1. rpc' \notin {"idle", "register"}
    BY <1>2 DEF TakeEvent, HandleStep, HandleExcluded, HandleDirCreated, HandleDirRemoved,
       HandleFileChanged, HandleFileRemoved
  <2>. QED  BY <2>1 DEF ToldInv
<1>3. CASE OtherStep
  <2>1. told' = told
    BY <1>3, OtherPlaces
  <2>2. rpc' \in {"idle", "register"} => rpc \in {"idle", "register"}
    BY <1>3 DEF OtherStep, Next, WalkStep, Visit, Watch, WatchFails, SkipExcluded, WalkEnds,
       RunStart, RunStep, HandleStep, Register, Registered, SeeClose, SeeDone, Fail, FsnotifyError,
       CallbackReturns,
       CallbackBlocks, Api, Add, Remove, Ignore, Unignore, Close, CloseFsnotify, CancelContext, vars
  <2>. QED  BY <2>1, <2>2 DEF ToldInv
<1>. QED  BY <1>1, <1>2, <1>3 DEF OtherStep

\* An event about another path changes nothing for the file.
LEMMA FileSystemKeepsEvents ==
  ASSUME TypeInv, EventInv, FileSystem
  PROVE  EventInv'
<1>1. UNCHANGED <<rpc, ev, reported>>
  BY DEF FileSystem, Mkdir, Rmdir, Write, Delete, Operate
<1>2. ASSUME NEW e \in EventSet, Emit(e), NEW f \in told, e.path # f, content'[f] = content[f]
      PROVE  /\ \A i \in Places' :
                    LastAbout(f, i)' => (EventAt(i)'.op \in {"create", "write"} <=> content'[f] # 0)
             /\ About(f)' = {} => reported'[f] = content'[f]
  <2>1. CASE queue' = queue
    <3>1. Places' = Places /\ \A i \in Places : EventAt(i)' = EventAt(i)
      BY <1>1, <2>1 DEF Places, EventAt
    <3>2. About(f)' = About(f)
      BY <3>1 DEF About
    <3>. QED  BY <1>1, <1>2, <3>1, <3>2 DEF EventInv, LastAbout
  <2>2. CASE queue' = Append(queue, e)
    <3>1. /\ Places' = Places \cup {Len(queue) + 1} /\ Len(queue) + 1 \in Nat
          /\ \A i \in Places : EventAt(i)' = EventAt(i)
          /\ \A n \in Nat : n = Len(queue) + 1 => EventAt(n)' = e
      BY <1>1, <2>2, EmitPlaces, PlaceTypes
    <3>2. About(f)' = About(f)
      BY <1>2, <3>1 DEF About
    <3>. QED  BY <1>1, <1>2, <3>1, <3>2 DEF EventInv, LastAbout, About
  <2>. QED  BY <1>2, <2>1, <2>2 DEF Emit
<1>3. ASSUME NEW e \in EventSet, queue' = Append(queue, e), e.path \in Files,
             e.op \in {"create", "write"} <=> content'[e.path] # 0
      PROVE  /\ \A i \in Places' : LastAbout(e.path, i)' =>
                    (EventAt(i)'.op \in {"create", "write"} <=> content'[e.path] # 0)
             /\ About(e.path)' # {}
  <2>1. /\ Places' = Places \cup {Len(queue) + 1} /\ Len(queue) + 1 \in Nat
        /\ \A i \in Places : i < Len(queue) + 1
        /\ \A n \in Nat : n = Len(queue) + 1 => EventAt(n)' = e
    BY <1>1, <1>3, EmitPlaces, PlaceTypes
  <2>2. Len(queue) + 1 \in About(e.path)'
    BY <2>1 DEF About
  <2>3. ASSUME NEW i \in Places', LastAbout(e.path, i)' PROVE EventAt(i)' = e
    <3>1. Len(queue) + 1 <= i
      BY <2>2, <2>3 DEF LastAbout
    <3>2. i = Len(queue) + 1
      BY <2>1, <3>1, PlaceTypes
    <3>. QED  BY <2>1, <3>2
  <2>. QED  BY <1>3, <2>2, <2>3
<1>4. ASSUME NEW d \in Dirs, Mkdir(d) \/ Rmdir(d) PROVE EventInv'
  <2>1. PICK e \in EventSet : Emit(e) /\ e.path = d
    BY <1>4 DEF Mkdir, Rmdir, Event, EventSet, Ops, Paths
  <2>2. told' = told /\ content' = content /\ d \notin told
    BY <1>4, PathFacts DEF Mkdir, Rmdir, TypeInv, HistoryInv
  <2>. QED  BY <1>2, <2>1, <2>2 DEF EventInv
<1>5. ASSUME NEW f \in Files, NEW e \in EventSet, Emit(e), e.path = f, Tell(f),
             \A g \in Files : g # f => content'[g] = content[g],
             e.op \in {"create", "write"} <=> content'[f] # 0
      PROVE  EventInv'
  <2>1. \A g \in told' : g \in Files /\ (g = f \/ g \in told)
    BY <1>5 DEF Tell, TypeInv, HistoryInv
  <2>2. f \in told' => queue' = Append(queue, e)
    BY <1>5 DEF Tell, Emit
  <2>3. f \in told' => /\ \A i \in Places' : LastAbout(f, i)' =>
                              (EventAt(i)'.op \in {"create", "write"} <=> content'[f] # 0)
                       /\ About(f)' # {}
    BY <1>3, <1>5, <2>2
  <2>. QED  BY <1>2, <1>5, <2>1, <2>3 DEF EventInv
<1>6. content \in [Files -> Contents \cup {0}]
  BY DEF TypeInv, TreeInv
<1>7. ASSUME NEW f \in Files, NEW c \in Contents, Write(f, c) PROVE EventInv'
  <2>1. PICK e \in EventSet : Emit(e) /\ e.path = f /\ e.op \in {"create", "write"}
    BY <1>7 DEF Write, Event, EventSet, Ops, Paths
  <2>2. content' = [content EXCEPT ![f] = c] /\ c # 0 /\ Tell(f)
    BY <1>7, PathFacts DEF Write
  <2>. QED  BY <1>5, <1>6, <2>1, <2>2
<1>8. ASSUME NEW f \in Files, NEW op \in {"remove", "rename"}, Delete(f, op) PROVE EventInv'
  <2>1. PICK e \in EventSet : Emit(e) /\ e.path = f /\ e.op \notin {"create", "write"}
    BY <1>8 DEF Delete, Event, EventSet, Ops, Paths
  <2>2. content' = [content EXCEPT ![f] = 0] /\ Tell(f)
    BY <1>8 DEF Delete
  <2>. QED  BY <1>5, <1>6, <2>1, <2>2
<1>. QED  BY <1>4, <1>7, <1>8 DEF FileSystem

LEMMA TakeKeepsEvents ==
  ASSUME TypeInv, EventInv, TakeEvent
  PROVE  EventInv'
<1>1. UNCHANGED <<told, reported, content>>
  BY DEF TakeEvent, fsVars, historyVars
<1>2. /\ \A i \in Places : i - 1 \in Places' /\ EventAt(i - 1)' = EventAt(i)
      /\ \A i \in Places' : i + 1 \in Places /\ EventAt(i)' = EventAt(i + 1)
      /\ Places' \subseteq Nat /\ Places \subseteq Nat
  BY TakePlaces, PlaceTypes
<1>3. ASSUME NEW f PROVE /\ \A i \in About(f) : i - 1 \in About(f)'
                         /\ \A i \in About(f)' : i + 1 \in About(f)
  BY <1>2 DEF About
<1>4. ASSUME NEW f, NEW i \in Places', LastAbout(f, i)' PROVE LastAbout(f, i + 1)
  <2>1. i + 1 \in About(f)
    BY <1>3, <1>4 DEF LastAbout
  <2>2. ASSUME NEW j \in About(f) PROVE j <= i + 1
    <3>1. j - 1 <= i
      BY <1>3, <1>4, <2>2 DEF LastAbout
    <3>2. j \in Nat /\ i \in Nat
      BY <1>2, <2>2 DEF About
    <3>. QED  BY <3>1, <3>2
  <2>. QED  BY <2>1, <2>2 DEF LastAbout
<1>5. ASSUME NEW f, About(f)' = {} PROVE About(f) = {}
  BY <1>3, <1>5
<1>. QED  BY <1>1, <1>2, <1>4, <1>5 DEF EventInv

\* The event handled is no longer about the file; if it was the last one, what the file
\* holds is reported, or was.
LEMMA HandleKeepsEvents ==
  ASSUME TypeInv, SumInv, EventInv, HandleStep
  PROVE  EventInv'
<1>1. /\ UNCHANGED <<content, dirs, ev>> /\ told' \subseteq told
      /\ 0 \in Places /\ EventAt(0) = ev /\ Places' = Places \ {0}
      /\ Places \subseteq Nat /\ \A i \in Places' : EventAt(i)' = EventAt(i)
  BY HandlePlaces, PlaceTypes DEF HandleStep, HandleExcluded, HandleDirCreated, HandleDirRemoved,
     HandleFileChanged, HandleFileRemoved, fsVars, historyVars, EventAt
<1>2. ASSUME NEW f \in told', NEW i \in Places', LastAbout(f, i)'
      PROVE  EventAt(i)'.op \in {"create", "write"} <=> content'[f] # 0
  <2>1. LastAbout(f, i)
    BY <1>1, <1>2 DEF LastAbout, About
  <2>. QED  BY <1>1, <1>2, <2>1 DEF EventInv
<1>3. ASSUME NEW f \in told', About(f)' = {}, f # ev.path PROVE About(f) = {} /\ reported[f] = content'[f]
  <2>1. About(f) = {}
    BY <1>1, <1>3 DEF About
  <2>. QED  BY <1>1, <1>3, <2>1 DEF EventInv
<1>4. ASSUME NEW f \in told', About(f)' = {}, f = ev.path
      PROVE  ev.op \in {"create", "write"} <=> content[f] # 0
  <2>1. LastAbout(f, 0)
    BY <1>1, <1>4 DEF LastAbout, About
  <2>. QED  BY <1>1, <1>4, <2>1 DEF EventInv
<1>5. \A f \in told' : f \in Files /\ f \notin Dirs
  BY <1>1, PathFacts DEF TypeInv, HistoryInv
<1>6. ASSUME NEW f \in told', About(f)' = {} PROVE reported'[f] = content'[f]
  <2>1. CASE HandleExcluded
    BY <1>3, <1>6, <2>1 DEF HandleExcluded
  <2>2. CASE HandleDirCreated \/ HandleDirRemoved
    <3>1. ev.path \in Dirs /\ reported' = reported
      BY <2>2 DEF HandleDirCreated, HandleDirRemoved, historyVars, TypeInv, TreeInv, WatchInv
    <3>. QED  BY <1>3, <1>5, <1>6, <3>1
  <2>3. CASE HandleFileChanged
    <3> DEFINE readable == ev.path \in Files /\ Exists(ev.path)
    <3>1. /\ rpc' = IF readable /\ checksum[ev.path] # content[ev.path] THEN "callback" ELSE "loop"
          /\ reported' = [g \in Files |-> IF g = ev.path /\ rpc' = "callback" THEN content[g]
                                                                             ELSE reported[g]]
          /\ ev.op \in {"create", "write"}
      BY <2>3 DEF HandleFileChanged
    <3>2. f = ev.path => readable /\ content[f] # 0
      BY <1>4, <1>5, <1>6, <3>1 DEF Exists
    <3> HIDE DEF readable
    <3>3. CASE f # ev.path
      BY <1>3, <1>5, <1>6, <3>1, <3>3
    <3>4. CASE f = ev.path
      BY <1>1, <1>5, <3>1, <3>2, <3>4 DEF SumInv
    <3>. QED  BY <3>3, <3>4
  <2>4. CASE HandleFileRemoved
    <3>1. /\ reported' = [g \in Files |-> IF g = ev.path THEN 0 ELSE reported[g]]
          /\ ev.op \notin {"create", "write"}
      BY <2>4 DEF HandleFileRemoved
    <3>2. f = ev.path => content[f] = 0
      BY <1>4, <1>6, <3>1
    <3>. QED  BY <1>1, <1>3, <1>5, <1>6, <3>1, <3>2
  <2>. QED  BY <2>1, <2>2, <2>3, <2>4 DEF HandleStep
<1>. QED  BY <1>2, <1>6 DEF EventInv

LEMMA OtherKeepsEvents ==
  ASSUME TypeInv, LifeInv, ToldInv, EventInv, OtherStep
  PROVE  EventInv'
<1>1. /\ Places' = Places /\ \A i \in Places : EventAt(i)' = EventAt(i)
      /\ UNCHANGED <<content, told>>
  BY OtherPlaces
<1>2. \A f, i : About(f)' = About(f) /\ (LastAbout(f, i)' <=> LastAbout(f, i))
  BY <1>1 DEF About, LastAbout
<1>3. CASE reported' = reported
  BY <1>1, <1>2, <1>3 DEF EventInv
<1>4. CASE told = {}
  BY <1>1, <1>4 DEF EventInv
<1>5. reported' = reported \/ rpc = "register"
  BY DEF OtherStep, Next, WalkStep, Visit, Watch, WatchFails, SkipExcluded, WalkEnds, RunStart,
     RunStep, HandleStep, Register, Registered, SeeClose, SeeDone, Fail, FsnotifyError,
     CallbackReturns,
     CallbackBlocks, Api, Add, Remove, Ignore, Unignore, Close, CloseFsnotify, CancelContext, vars,
     historyVars
<1>. QED  BY <1>3, <1>4, <1>5 DEF ToldInv

(***************************************************************************)
(* Of a file whose last change fsnotify saw, either an event waits, the    *)
(* last one of which tells whether the file exists, or what the file holds *)
(* was reported: reading the file when the event is handled, and not when  *)
(* it was sent, loses nothing (handleEvent, Run).                          *)
(***************************************************************************)
THEOREM EventInvariance == Spec => [](ToldInv /\ EventInv)
<1>1. Init => ToldInv /\ EventInv
  BY DEF Init, ToldInv, EventInv
<1>2. TypeInv /\ LifeInv /\ SumInv /\ ToldInv /\ EventInv /\ [Next]_vars => (ToldInv /\ EventInv)'
  BY StepKeepsTold, FileSystemKeepsEvents, TakeKeepsEvents, HandleKeepsEvents, OtherKeepsEvents
     DEF OtherStep
<1>. QED  BY <1>1, <1>2, TypeInvariance, RecordsInvariance, SumInvariance, PTL DEF Spec

(***************************************************************************)
(* Hence the last change of a file is reported once all events are         *)
(* handled, although the registry drops events whose content it knows      *)
(* (handleEvent, filereg.Add).                                             *)
(***************************************************************************)
THEOREM ChangesAreReported == Spec => []ChangesReported
<1>1. EventInv => ChangesReported
  <2> SUFFICES ASSUME EventInv, Settled, NEW f \in told PROVE reported[f] = content[f]
    BY DEF ChangesReported
  <2>1. Places = {}
    <3>1. Len(<<>>) = 0
      BY EmptySeq
    <3>. QED  BY <3>1 DEF Settled, Places
  <2>. QED  BY <2>1 DEF EventInv, About
<1>. QED  BY <1>1, EventInvariance, PTL
=============================================================================
