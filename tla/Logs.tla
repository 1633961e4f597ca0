-------------------------------- MODULE Logs --------------------------------
(***************************************************************************)
(* The rotating log writer of the daemons (internal/logutil/rotate.go, used *)
(* by TrafficLogger and the monitor) and `abox logs -f`, which follows the  *)
(* file with fsnotify (internal/logutil/tail.go).  The daemon holds a mutex *)
(* over a write, but the follower and a crash see every step of a rotation. *)
(*                                                                          *)
(* A log line is its number; a file is an inode, the sequence of its lines; *)
(* a line is one unit of size.  Path 0 is the log, path i its i-th backup.  *)
(***************************************************************************)
EXTENDS Naturals, Sequences, FiniteSets, SequencesExt

CONSTANTS
    MaxSize,     \* lines in a file before it is rotated
    MaxBackups,  \* rotated files kept
    MaxLines,    \* bound: lines logged
    MaxMishaps,  \* bound: failed calls and crashes
    LinkSets     \* the sets of paths that may have been replaced by symlinks

\* What the constants must be.
LogsAssumption ==
    /\ MaxSize \in Nat \ {0} /\ MaxBackups \in Nat \ {0}
    /\ MaxLines \in Nat /\ MaxMishaps \in Nat
    /\ LinkSets \subseteq SUBSET (0..MaxBackups)

VARIABLES
    links,    \* paths that are symlinks
    dir,      \* path -> inode, 0 when absent
    body,     \* the inodes: sequence of files
    wfile,    \* the writer's open inode, 0 for a nil file
    written,  \* the writer's count of bytes since the last rotation
    wstep,    \* where the writer is: off, idle, shift, open, write
    wback,    \* the loop variable of the backup shift
    lost,     \* lines whose Write returned an error
    logged,   \* lines handed to Write so far
    mishaps,  \* failed calls and crashes so far
    torn,     \* a rename failed, a line was cut short, or the log was truncated from outside
    ffile,    \* the follower's open inode, 0 for none
    fpos,     \* its offset
    fstep,    \* off, watching (the directory, before the open), following
    events,   \* the fsnotify events queued for path 0
    shown,    \* the lines printed
    behind    \* the follower handled a Create with a later rotation already begun, or
              \* read a line half written

logVars == <<links, dir, body, wfile, written, wstep, wback, lost, logged, mishaps,
             torn, ffile, fpos, fstep, events, shown, behind>>
writerVars == <<links, dir, body, wfile, written, wstep, wback, lost, logged, mishaps, torn>>
followerVars == <<ffile, fpos, fstep, shown, behind>>

Paths == 0..MaxBackups
Opt(i) == IF i = 0 THEN <<>> ELSE body[i]

LogsTypeOK ==
    /\ links \subseteq Paths
    /\ dir \in [Paths -> 0..Len(body)]
    /\ \A i \in 1..Len(body) : \A k \in 1..Len(body[i]) : body[i][k] \in 1..logged
    /\ wfile \in 0..Len(body) /\ written \in 0..MaxLines
    /\ wstep \in {"off", "idle", "shift", "open", "write"}
    /\ wback \in 0..MaxBackups
    /\ lost \subseteq 1..logged /\ logged \in 0..MaxLines /\ mishaps \in 0..MaxMishaps
    /\ torn \in BOOLEAN /\ behind \in BOOLEAN
    /\ ffile \in 0..Len(body) /\ fpos \in 0..MaxLines
    /\ fstep \in {"off", "watching", "following"}
    /\ \A k \in 1..Len(events) : events[k] \in {"create", "write"}
    /\ \A k \in 1..Len(shown) : shown[k] \in 1..logged

LogsInit ==
    /\ links \in LinkSets
    \* A symlinked path points at a file of its own.
    /\ body = [i \in 1..(MaxBackups + 1) |-> <<>>]
    /\ dir = [p \in Paths |-> IF p \in links THEN p + 1 ELSE 0]
    /\ wfile = 0 /\ written = 0 /\ wstep = "off" /\ wback = 0
    /\ lost = {} /\ logged = 0 /\ mishaps = 0 /\ torn = FALSE
    /\ ffile = 0 /\ fpos = 0 /\ fstep = "off" /\ events = <<>> /\ shown = <<>>
    /\ behind = FALSE

---------------------------------------------------------------------------
\* inotify drops an event equal to the last one queued.
Notify(e) ==
    events' = IF fstep = "off" \/ (events # <<>> /\ Last(events) = e) THEN events
              ELSE Append(events, e)

\* openFile: create the log if it is not there and open it for appending.
OpenFile ==
    IF dir[0] = 0
    THEN /\ body' = Append(body, <<>>)
         /\ dir' = [dir EXCEPT ![0] = Len(body) + 1]
         /\ wfile' = Len(body) + 1
         /\ Notify("create")
    ELSE /\ wfile' = dir[0]
         /\ UNCHANGED <<body, dir, events>>

\* NewRotateWriter, at the start of the daemon; the count is what the file holds.
NewRotateWriter ==
    /\ wstep = "off"
    /\ OpenFile
    /\ written' = Len(Opt(dir[0]))
    /\ wstep' = "idle"
    /\ UNCHANGED <<links, wback, lost, logged, mishaps, torn>>
    /\ UNCHANGED followerVars

\* Write, up to its decision: below MaxSize append at once; a file that was
\* truncated meanwhile only resets the count; a log that is a symlink refuses.
\* After a reopen that failed the file is nil and Stat fails: so does the Write.
WriteBegin ==
    /\ wstep = "idle" /\ logged < MaxLines
    /\ logged' = logged + 1
    /\ \/ /\ written < MaxSize
          /\ wstep' = "write" /\ UNCHANGED <<written, lost, wfile, wback>>
       \/ /\ written >= MaxSize /\ wfile # 0 /\ Len(Opt(wfile)) < MaxSize
          /\ written' = Len(body[wfile])
          /\ wstep' = "write" /\ UNCHANGED <<lost, wfile, wback>>
       \/ /\ written >= MaxSize /\ wfile # 0 /\ Len(Opt(wfile)) >= MaxSize /\ 0 \notin links
          /\ wfile' = 0 /\ wback' = MaxBackups - 1
          /\ wstep' = "shift" /\ UNCHANGED <<written, lost>>
       \/ /\ written >= MaxSize
          /\ (wfile = 0 \/ (Len(Opt(wfile)) >= MaxSize /\ 0 \in links))
          /\ lost' = lost \cup {logged'}
          /\ UNCHANGED <<written, wstep, wfile, wback>>
    /\ UNCHANGED <<links, dir, body, mishaps, torn, ffile, fpos, fstep, events, shown, behind>>

\* A rename that may fail; a missing source is not an error.
Rename(p, q) ==
    \/ /\ dir[p] # 0
       /\ dir' = [dir EXCEPT ![q] = dir[p], ![p] = 0]
       /\ UNCHANGED <<mishaps, torn>>
    \/ dir[p] = 0 /\ UNCHANGED <<dir, mishaps, torn>>
    \/ /\ dir[p] # 0 /\ mishaps < MaxMishaps
       /\ mishaps' = mishaps + 1 /\ torn' = TRUE /\ UNCHANGED dir

\* One turn of maybeRotate's loop: path.i to path.i+1, links left alone.
ShiftBackup ==
    /\ wstep = "shift" /\ wback > 0
    /\ IF wback \in links \/ wback + 1 \in links THEN UNCHANGED <<dir, mishaps, torn>>
       ELSE Rename(wback, wback + 1)
    /\ wback' = wback - 1
    /\ UNCHANGED <<links, body, wfile, written, wstep, lost, logged, events>>
    /\ UNCHANGED followerVars

\* The log itself becomes path.1.
MoveCurrent ==
    /\ wstep = "shift" /\ wback = 0
    /\ IF 1 \in links THEN UNCHANGED <<dir, mishaps, torn>> ELSE Rename(0, 1)
    /\ wstep' = "open"
    /\ UNCHANGED <<links, body, wfile, written, wback, lost, logged, events>>
    /\ UNCHANGED followerVars

\* Reopen, and start the count at 0, whatever the file holds; when the reopen
\* fails the line is lost and the file nil.
Reopen ==
    /\ wstep = "open"
    /\ \/ /\ OpenFile /\ written' = 0 /\ wstep' = "write" /\ UNCHANGED <<lost, mishaps>>
       \/ /\ mishaps < MaxMishaps
          /\ mishaps' = mishaps + 1
          /\ wstep' = "idle" /\ lost' = lost \cup {logged}
          /\ UNCHANGED <<dir, body, wfile, written, events>>
    /\ UNCHANGED <<links, wback, logged, torn>>
    /\ UNCHANGED followerVars

\* file.Write, which may also fail, with nothing or a part of the line written.
WriteLine ==
    /\ wstep = "write"
    /\ \/ /\ body' = [body EXCEPT ![wfile] = Append(@, logged)]
          /\ written' = written + 1
          /\ Notify("write")
          /\ UNCHANGED <<lost, mishaps, torn>>
       \/ /\ mishaps < MaxMishaps /\ mishaps' = mishaps + 1
          /\ lost' = lost \cup {logged}
          /\ \/ UNCHANGED <<body, written, torn, events>>
             \/ /\ body' = [body EXCEPT ![wfile] = Append(@, logged)]
                /\ written' = written + 1 /\ torn' = TRUE
                /\ Notify("write")
    /\ wstep' = "idle"
    /\ UNCHANGED <<links, dir, wfile, wback, logged>>
    /\ UNCHANGED followerVars

\* The daemon is stopped (Close) or dies at any step; a line it was writing is lost.
WriterStops ==
    /\ wstep # "off" /\ mishaps < MaxMishaps
    /\ mishaps' = mishaps + 1
    /\ wstep' = "off" /\ wfile' = 0 /\ written' = 0 /\ wback' = 0
    /\ lost' = IF wstep = "idle" THEN lost ELSE lost \cup {logged}
    /\ UNCHANGED <<links, dir, body, logged, torn, events>>
    /\ UNCHANGED followerVars

\* Somebody truncates the log in place.
Truncate ==
    /\ dir[0] # 0 /\ mishaps < MaxMishaps /\ body[dir[0]] # <<>>
    /\ mishaps' = mishaps + 1 /\ torn' = TRUE
    /\ body' = [body EXCEPT ![dir[0]] = <<>>]
    /\ Notify("write")
    /\ UNCHANGED <<links, dir, wfile, written, wstep, wback, lost, logged>>
    /\ UNCHANGED followerVars

---------------------------------------------------------------------------
\* TailFollow: watch the directory first, then open at the end if the log exists.
Watch ==
    /\ fstep = "off"
    /\ fstep' = "watching"
    /\ UNCHANGED <<ffile, fpos, events, shown, behind>> /\ UNCHANGED writerVars

OpenOrWait ==
    /\ fstep = "watching"
    /\ fstep' = "following"
    /\ ffile' = dir[0] /\ fpos' = Len(Opt(dir[0]))
    /\ behind' = (behind \/ Contains(events, "create"))
    /\ UNCHANGED <<events, shown>> /\ UNCHANGED writerVars

\* MUTANT of HandleCreate: the new file is opened at its end.
HandleCreateAtEnd ==
    /\ fstep = "following" /\ events # <<>> /\ Head(events) = "create"
    /\ events' = Tail(events)
    /\ ffile' = dir[0] /\ fpos' = Len(Opt(dir[0]))
    /\ behind' = (behind \/ dir[0] = 0 \/ Contains(Tail(events), "create"))
    /\ UNCHANGED <<fstep, shown>> /\ UNCHANGED writerVars

\* handleFollowEvent, Create: close what is open and open the path afresh, from
\* its start; nothing is read until the next Write.
HandleCreate ==
    /\ fstep = "following" /\ events # <<>> /\ Head(events) = "create"
    /\ events' = Tail(events)
    /\ ffile' = dir[0] /\ fpos' = 0
    /\ behind' = (behind \/ dir[0] = 0 \/ Contains(Tail(events), "create"))
    /\ UNCHANGED <<fstep, shown>> /\ UNCHANGED writerVars

\* MUTANT of HandleWrite: every read starts where the file was opened.
HandleWriteFromOpen ==
    /\ fstep = "following" /\ events # <<>> /\ Head(events) = "write"
    /\ events' = Tail(events)
    /\ shown' = shown \o SubSeq(Opt(ffile), fpos + 1, Len(Opt(ffile)))
    /\ UNCHANGED <<ffile, fpos, fstep, behind>> /\ UNCHANGED writerVars

\* handleFollowEvent, Write, with readNewLines: rewind a file that shrank, then
\* print every whole line up to its end.  What it reads of a line that is just
\* being written is discarded at EOF: only the rest of the line is printed later.
HandleWrite ==
    /\ fstep = "following" /\ events # <<>> /\ Head(events) = "write"
    /\ events' = Tail(events)
    /\ LET f == Opt(ffile)
           from == IF Len(f) < fpos THEN 0 ELSE fpos IN
       /\ shown' = shown \o SubSeq(f, from + 1, Len(f))
       /\ fpos' = Len(f)
    /\ \/ UNCHANGED behind
       \/ wstep = "write" /\ ffile = wfile /\ ffile # 0 /\ behind' = TRUE
    /\ UNCHANGED <<ffile, fstep>> /\ UNCHANGED writerVars

LogsNext ==
    \/ NewRotateWriter \/ WriteBegin \/ ShiftBackup \/ MoveCurrent \/ Reopen
    \/ WriteLine \/ WriterStops \/ Truncate
    \/ Watch \/ OpenOrWait \/ HandleCreate \/ HandleWrite

\* The follower is one goroutine.
FollowStep == OpenOrWait \/ HandleCreate \/ HandleWrite

---------------------------------------------------------------------------
\* The lines that `abox logs` and its user can still read, oldest first.
Kept ==
    LET old == [k \in 1..MaxBackups |-> Opt(dir[MaxBackups + 1 - k])] IN
    FlattenSeq(old) \o Opt(dir[0])

Increasing(s) == \A i, j \in 1..Len(s) : i < j => s[i] < s[j]

\* The lines successfully written so far; the one in hand is not.
Durable == (1..logged) \ (lost \cup (IF wstep \in {"off", "idle"} THEN {} ELSE {logged}))

\* Reading the backups from the highest number down and then the log shows the
\* lines in the order they were logged, after any crash, failed rename or
\* symlinked backup in the middle of a rotation (maybeRotate).
OrderKept == Increasing(Kept)

\* As long as no rename or write failed half-way and nothing is a symlink, rotation drops lines
\* only from the old end: what is kept is every line written since the first
\* one kept, and at least MaxBackups full files of them (maybeRotate).
TailKept ==
    (~torn /\ links = {}) =>
        LET k == Kept IN
        /\ \A n \in Durable : (k # <<>> /\ n >= k[1]) => Contains(k, n)
        /\ \A n \in Durable : Cardinality({m \in Durable : m > n}) < MaxSize * MaxBackups
               => Contains(k, n)

\* Under the same condition the files never hold more than MaxBackups + 1 full ones.
DiskBounded ==
    (~torn /\ links = {}) => Len(Kept) <= MaxSize * (MaxBackups + 1)

\* A follower that handles each rotation before the next one begins, and reads no
\* line half written, prints every line once, in order, and skips none between two
\* it prints (TailFollow, "handles file creation,
\* writes, and log rotation/truncation gracefully").
FollowExact ==
    (~behind /\ ~torn /\ links = {}) =>
        /\ Increasing(shown)
        /\ \A n \in Durable :
               (shown # <<>> /\ shown[1] < n /\ n < Last(shown)) => Contains(shown, n)

\* A line written while the follower is attached is shown in the end, unless its
\* Write failed, the follower fell behind or the log was damaged (see torn).
WrittenWatched(n) == fstep = "following" /\ wstep = "write" /\ logged = n
ShownOrExcused(n) == Contains(shown, n) \/ n \in lost \/ behind \/ torn
FollowCatchesUp == \A n \in 1..MaxLines : WrittenWatched(n) ~> ShownOrExcused(n)

=============================================================================
