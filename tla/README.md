# Models of the programs of *Beginning Linux Programming*

The repository is a collection of learning material.  Its own code is the source
of "Linux程序设计（第2版）" (*Beginning Linux Programming*, 2nd edition): one
application that grows through the book, a CD catalogue, and many small programs
about processes, threads, IPC, files and kernel modules.  These modules specify
the parts of it in which several processes, or a process and the kernel, act on
shared state.  Paths below are relative to
`src/Linux程序设计(原书第2版含源码)/Linux程序设计(原书第2版)源码/`.

## 1. Inventory

| part | state it keeps | operations | who interacts with it |
|---|---|---|---|
| **Catalogue, named pipes** `chapter12/app`: `server.c`, `pipe_imp.c`, `clientif.c`, `cliserv.h` | `server_running`; the descriptors of the server pipe and of one client pipe; the pipes and their names in the file system | `server_starting` .. `server_ending`, `client_starting` .. `client_ending`, `process_command`, the ten calls of `clientif.c` | one server and any number of clients through FIFOs; signals |
| **Catalogue, search** `clientif.c`, `cd_dbm.c` (`search_cdc_entry` in both) | `work_file`, `entries_matching`; the cursor over the keys | first call and further calls of a search | the user's loop, the server's loop, other clients that add and delete |
| **Catalogue, menu and database** `app_ui.c`, `cd_dbm.c`, `chapter07/app` | the catalogue table, the track table; each user's current entry and track number | the menu's six choices; get, add, delete | several users, one call at a time |
| **Catalogue, message queues** `chapter13/app/ipc_imp.c` under the same `server.c`, `clientif.c` | two System V queues, the identifiers every process holds | as for the pipes | one queue for all clients' answers, sorted by pid |
| **Catalogue, flat files** `chapter02/app/cd_db`, `chapter06/app/curses.c`, `chapter18/cd_db.pl` | title and track file, temporary files; Perl's arrays | add, find, remove, update, with whole files rewritten | programs of three languages, one or several users, interrupts |
| **Catalogue, linked in** `chapter07/app`, `chapter17/cd_database`, `chapter20/app` | two tables per database; the rows of two lists in a window | the callbacks of the window, the pages of the CGI program, `-i` | processes with the same files open, and with files since unlinked |
| **schar** `chapter21/schar/schar.c` | the pool of bytes, counters, parameters, a kernel timer, a wait queue | open, release, read, write, poll, ioctl, timer, load, unload | processes, the timer interrupt |
| **radimo**, **iomap** `chapter21/radimo`, `chapter21/Iomapi` | a disk in the kernel's buffers, a media-change timer; a region of I/O memory | block requests, ioctl, open and release; set, get, clear, read, write | processes, the timer |
| **FIFO programs** `chapter12/server.c`, `client.c`; `fifo3.c`, `fifo4.c` | FIFOs | ask and answer in capitals; write and read ten megabytes | clients; producers and consumers |
| **System V IPC** `chapter13/sem1.c`; `shm1.c`, `shm2.c`; `msg1.c`, `msg2.c` | a semaphore; a flag in shared memory; a queue | P and V; hand a text over | two or more processes |
| **threads** `chapter11/thread*.c` | `work_area`, `time_to_exit`, a semaphore or a mutex; a counter | read a line, count it; create and join | two to six threads |
| **file locks** `chapter07/lock1.c` .. `lock5.c` | a lock file; locked regions | create and remove; `fcntl` | several processes |
| **sockets** `chapter14/server*.c`, `client*.c`, `select.c` | a set of descriptors | accept, read, answer, close | clients |
| Tk, Tcl, Java and HTML examples, examples of one library call each | none worth a model | | |

What is hard in them: blocking opens of both ends of a FIFO and the moment
between closing and reopening one; signals that arrive just before a blocking
call; a process that dies with a message for it under way; one pipe or queue
reused for all the answers of a client; loops of many calls that other users'
calls come between; a counter that survives an abandoned loop; copies to user
space that sleep between a test and the update it protects; a timer racing a
process that is about to sleep, or the unloading of its code.

What makes each part correct: a request is carried out at most once, is never
lost, and its answer reaches the call that made it (both transports); a search
shows each match once and all of them (search); the tracks of a CD have no gap,
and none survives its deletion (menu); no CD is lost that nobody removed, and
what one file says of another stays true (flat files); a window shows what is in
the tables, and the two tables stay a pair (linked in); the pool is what went in
less what went out, and no sleeper is forgotten (schar); what one process hands
to another arrives once, in order and whole, what a lock or count protects stays
whole, and who waits is served (the small programs).

`PROJECT.json` lists the parts in `components` and the places where they are
exposed, line by line, in `hazards`.

## 2. Modules

| module | models | checked by |
|---|---|---|
| `CdService` | the abstract service: a client makes one call at a time, the call is carried out at most once, and returns only then | refined by `CdPipe` and `IpcQueue` |
| `CdPipe`, `MCCdPipe` | server and clients over named pipes | `pipe_faults`, `pipe_live`, `CdPipeProof` |
| `IpcQueue`, `MCIpcQueue` | server and clients over message queues | `ipc_all`, `IpcQueueProof` |
| `CdSearch`, `MCCdSearch` | a search from the user's loop to the database cursor | `search_all`, `search_count`, `CdSearchProof` |
| `CdCatalog`, `MCCdCatalog` | the menu of several users over one database | `catalog_own`, `CdCatalogProof` |
| `CdFiles`, `MCCdFiles` | shell, curses and Perl over two text files | `files_all`, `CdFilesProof` |
| `CdLocal`, `MCCdLocal` | GNOME, CGI and `-i` over the database they are linked with | `local_all`, `CdLocalProof` |
| `Schar`, `MCSchar` | the character driver, its timer and its wait queue | `schar_lone`, `schar_all`, `schar_timer`, `ScharProof` |
| `FifoUpper`, `FifoBytes`, `SemLock`, `ShmHandoff`, `MsgTexts`, `MutexWork`, `SemWork`, `ManyThreads`, `FileLocks`, `SelectServer`, `Radimo`, `Iomap`, `CursesMenu`, `TurnTaking` | one small program each | `programs`, `ProgramsProof` |
| `MCPrograms` | one of the fourteen at a time, in one state space | `programs`, `ProgramsProof` |
| `CdPipeProof`, `IpcQueueProof`, `CdSearchProof`, `CdCatalogProof`, `CdFilesProof`, `CdLocalProof`, `ScharProof`, `ProgramsProof` | proofs | TLAPS |

Some modules hold definitions marked "Slip": an action as a plausible mistake
would have made it.  No specification uses them.  Each stands for the action
after it when one asks whether a property would notice the mistake (`mutants` in
`PROJECT.json`).

### CdPipe

`srv` is the line of `server.c` and `pipe_imp.c` the server is at, `cpc[c]` that
of client `c`.  One action is the code between two points where another process
can tell the difference: each blocking open, read and write, each close, unlink
and mkfifo is a step of its own.

| code | state and actions |
|---|---|
| `server_running` | `run`; `SignalFlag`, `SignalInterrupt` (`catch_signals`; `sa_flags = 0`, so a blocked call returns EINTR) |
| `/tmp/server_pipe` | `name`, and `fifo`, the requests in the pipe made last; `link[c]` says which pipe a client opened: the present one, or that of an earlier server |
| `server_starting` | `ServerUnlink`, `ServerMkfifo`, and the open that `ClientOpen` completes |
| `read_request_from_client` | `ServerRead`; `ServerEof`, `ServerClose`, `ServerReopen` and the second read; `ServerGiveUp` when that returns 0 too and `main` leaves its loop |
| `process_command` | `ServerOpenResp`, `ServerExec`, `ServerSendHit`, `ServerNoMore`, `ServerSendLast`; `ServerResend` after a send that a signal broke off |
| `server_ending` | `ServerEnding`, `ServerEnd` |
| `client_starting` | `ClientNoServer`, `ClientOpen`, `ClientMkfifo` |
| the calls of `clientif.c` | `ClientSend`, `ClientOpenResp`, `ClientRead`; a search reads on until the last response |
| `client_ending` | `ClientEnding` |
| the kernel | `ServerSigpipe`, `ClientSigpipe` (no handler for SIGPIPE), `ClientCrash`, `ServerCrash` |

Of a message only what identifies it is kept: client, number of the request, and
for a response its position and whether it ends the answer.  Requests are
shorter than `PIPE_BUF`, so reads and writes are whole messages.  An open of a
FIFO blocks for the other end, and a pipe loses its content when its last end is
closed.  Bounds: `MaxReq` requests per client, `MaxHits` matches per search,
`PipeCap` responses in a pipe, `MaxStarts` starts of the server.  The
environment's `Faults` are signals, crashes of either side, and users who leave
without a request (`client -i`).  `CHECK_DEADLOCK FALSE`: a server without
clients waits for one, which is no fault.

`CdService` has three variables: the phase of each client, the number of its
calls, the number carried out.  The refinement maps a client's pc to its phase
(`PhaseOf`), `req` to calls and `served`, set by `ServerExec`, to those carried
out.

### IpcQueue

The same server and clients; `ipc_imp.c` replaces the pipes by two queues.

| code | state and actions |
|---|---|
| the queues of `SERVER_MQUEUE`, `CLIENT_MQUEUE` | `sq`, `cq`: the identifier behind each key, or none; `requests`, `responses`: what is in them |
| `serv_qid`, `cli_qid` of a client | `serv_qid[c]`, `cli_qid[c]`, which may name a queue that has been removed |
| `server_starting` | `ServerGetServQueue`, `ServerGetCliQueue`: each gets the queue there is or makes one |
| `read_request_from_client`, `process_command`, `send_resp_to_client` | `ServerRead`, `ServerExec`, `ServerSendHit`, `ServerSendLast`, `ServerResend` |
| `server_ending` | `ServerEnding` and `ServerEnd`, one `IPC_RMID` each, in the order of the code |
| `client_starting` | `ClientGetServQueue`, `ClientGetCliQueue` (without `IPC_CREAT`) |
| `send_mess_to_server`, `read_resp_from_server` | `ClientSend`; `ClientRead`, the first message of the client's pid; `ClientFails` when the queue is gone |
| the kernel | `ClientCrash`, `ServerCrash` (queues stay), `SignalFlag`, `SignalInterrupt` |

Two clients of the instance share a pid, one after the other.  `heir[c]` records
that messages for the dead one were there when `c` got its pid: what such a
process reads is not promised to anyone, and the refinement leaves it out.

### CdSearch

The client's first call empties `work_file`, sends the request and writes every
match to it; each call then reads one entry and counts `entries_matching` down.
`Cursor` is `dbm_firstkey` and `dbm_nextkey` in any order.  The exchange of
messages, which `CdPipe` models, is one step here, and the server takes no other
request while it scans.  A search text is the set of names it occurs in, so the
empty text is the set of all names.  Users add and delete entries at any time
between requests and abandon searches.  Bound: a search starts only while
`entries_matching <= MaxMatching`, because abandoned searches let it grow.

### CdCatalog

`pc[u]` is the loop of `app_ui.c` a user is in, `cur[u]` the current entry, `t[u]`
the track number.  Each get, add or delete is one step, and users interleave
between any two.  `NamesOf` gives the names a user works on: disjoint for two
users who keep apart.  `Quit` ends the program and starts it again.  Bound:
`MaxTracks`. `Kill` ends a user's program anywhere; `broken`
remembers the CDs whose tracks it was deleting then.  Their gap stays, and the
properties except those CDs and no others.

### CdFiles

`disk` maps the files that exist, the two of the catalogue and the temporary ones,
to the bags of their lines: no program depends on their order.  `prog[u]`
and `step[u]` are what a user runs and where it is.  A line is a catalogue number and
a track number (0 in a title).  The three programs share one set of actions
where they do the same: `Add`, `AddRefused`, `FindCd`, `EnterTrack`, `Remove`,
`Update`, then for each file `Copy` (all lines but those of the CD, to a temporary
file), and either `Rename` or, in curses.c and when `mv` copies to another file
system, `Unlink` and `Fill`.  A file that is missing makes curses die (`CopyDies`),
and Perl (`PerlDies`).  Perl has `PerlRead`, `PerlFilter` on its arrays, and
`PerlOpen` and `PerlWrite` (`tidy_up`), also from its SIGINT handler
(`InterruptPerl`).  `Kill` and `InterruptShell`, whose trap removes the temporary
file, stop a program at any step.

The programs find a CD's lines by its number, each in its own way (`Hits`): curses.c
with `strncmp` over the length of the current number (`BeginsWith`), the scripts with
the number inside a regular expression, `grep "^${cdcatnum},"` and `/^$cdcatnum,/`
(`GrepFinds`, `PerlFinds`).  What an expression finds is a parameter, any relation
between lines and numbers; for one that is ill-formed `grep -v` prints nothing, so it
counts as finding all lines, and Perl dies (`BadPerl`, `PerlPatternDies`).

History variables state what the properties except: `owed` are the CDs confirmed
and never removed; `razed` those whose title was found, too, when another CD was
removed; `spoiled` says that two programs ran at once or that one was stopped
where lines exist in memory or in a temporary file only, or that Perl died of a bad
pattern with titles it had not written.

### CdLocal

`proc[p]` is a program: the files it has open, the rows of its two lists, the
selected CD and track, and the call of `access.c` it is in.  A file that is
unlinked lives on for those who have it open, so files are numbered.
`database_initialize` is `Initialize`, `Unlink`, `Opened` and `Open`, which another
process can come between.  `Find` is one scan of `search_cdc_entry`; at the empty
name it finds the same entry again and again, until that entry is gone (`SpinEnds`).  The CGI program is `Request`,
`Found`, `ReadTrack`.  `torn` and `crossed` are histories like those above: deletions
broken off by a crash, and two `database_initialize` that overlapped.

### Schar

A process in the driver runs until it sleeps, in `interruptible_sleep_on` or on a page
fault in `copy_to_user` and `copy_from_user`: the kernel is a uniprocessor one of that
time.  Only the timer interrupts it, between any two instructions.  Where that can be
noticed the code is split: between a reader's test of the pool and what it does then,
sleep or take what there is (`sleepy`, and `drowsy` after a tick), and between
`count = schar_pool` and `schar_pool = 0` (`zeroing`, and `late` after a tick that
filled the pool).  In either gap there is at most one tick, since the timer is set for a
later one.  The C variables are longs compared as unsigned: here numbers modulo
`Modulus`, of which the upper half is negative.  Bounds: `MaxPool` for writes, the sets
`Sizes`, `PoolMins`, `Incs`.  `filled`, `given` and `wiped` count what the timer added,
what readers got, and what a tick added just before the pool was set to 0; they are
there for `PoolAccounted` only.

### The small programs

| module | code | what it keeps |
|---|---|---|
| `FifoUpper` | `chapter12/server.c`, `client.c` | the server's FIFO; each client's FIFO, opened anew by both sides for each answer; a client that reads 0 passes its answer over |
| `FifoBytes` | `fifo3.c`, `fifo4.c` | any number of producers and consumers of one FIFO; the check for the FIFO and its making are two steps; `late`: a producer came between a consumer's last read and its close |
| `SemLock` | `sem1.c` | the semaphore, what `SEM_UNDO` will take back from each process, kills; `barged`: the value was set while somebody was inside |
| `ShmHandoff` | `shm1.c`, `shm2.c` | the flag and the text; a text being copied is read torn |
| `MsgTexts` | `msg1.c`, `msg2.c` | the queue, its removal at the first `end`, a second one made by who comes later |
| `MutexWork` | `thread5.c` | mutex, `work_area`, `time_to_exit`; both sides poll |
| `SemWork` | `thread4a.c`, `thread4.c` | semaphore and area, which main may be filling while the thread compares |
| `ManyThreads` | `thread9.c`, `thread9a.c` | the counter whose address, or value, the threads are given |
| `FileLocks` | `lock2.c`, `lock3.c`, `lock5.c` | the lock file; the parts of the file each process has locked for reading or writing |
| `SelectServer` | `server5.c`, `client3.c` | `readfds`, `testfds`, descriptors that are reused, the bytes on each connection |
| `Radimo` | `radimo.c` | the blocks with data, use counts, the media-change timer |
| `CursesMenu` | the menus and windows of `curses.c` | the highlight, which outlives the menu it was made for; the pad sized by one reading of tracks.cdb and filled by a second; the window that tracks are entered in |
| `TurnTaking` | `thread3.c` | `run_now`, by which two threads take turns without a lock |
| `Iomap` | `iomap.c` | base, size and mapping of one device, or the NULL of an `ioremap` that refused; `copy_from_user` and `ioremap` may sleep; `spoilt`: two set the device up at once, or a copy faulted or had a base of 0 |

`MCPrograms` chooses one of them in its initial states and lets only that one
step; the state space is the sum of theirs, not the product.

## 3. Runs

| run | instance | states | shows |
|---|---|---|---|
| `pipe_faults` | 2 clients, 2 requests each, 3 matches, pipe of 2, 2 starts, all faults | 1 305 398 | `TypeOK`, the inductive invariant `IInv`, `RequestAccounted`, `AnswerInOrder`, `StopsForAReason`, and that `CdPipe` implements `CdService` |
| `pipe_live` | 3 clients, 1 request, 2 matches, pipe of 1, no faults | 74 892 | `CallsReturn`, `ClientsEnter` |
| `search_all` | 3 names, one of them empty, 3 texts | 4 584 | `TypeOK`, `EachMatchOnce`, `NoMoreMeansAll`, `SearchReturns` |
| `search_count` | 3 names | | violation of `ReadFindsEntry` |
| `catalog_own` | 2 users on a name each, 3 tracks, kills at any step | 492 804 | `TypeOK`, `NoGap`, `DeletesAllTracks`, `ListsAllTracks` |
| `schar_lone` | 1 blocking reader, 1 writer, longs modulo 8 | 113 090 | `TypeOK`, `SleeperHasWaker`, `PolledDataStays`, `SleeperWakes` |
| `schar_all` | a blocking reader that also writes, a non-blocking one, faulting copies, modulo 4 | 3 459 532 | `NothingLeftBehind`, `PoolAccounted` |
| `schar_timer` | 1 reader | | violation of `ReaderServed` |
| `ipc_all` | 3 clients, two of which have the same pid one after the other, 2 requests of the first, 1 match, queues of 2, 2 faults | 661 181 | `TypeOK`, `QueuesPaired`, `OwnAnswers`, `CallsReturn`, and that `IpcQueue` implements `CdService` |
| `files_all` | 2 users, the numbers `C.*` and `C.*(`, 4 actions, 2 programs, 1 kill or interrupt | 674 826 | `TypeOK`, `NothingLost`, `TracksHaveTitle`, `KindsKept` |
| `local_all` | the GNOME program and one more of any kind, 2 names and the empty one, 2 tracks, 2 databases, 5 actions | 634 738 | `TypeOK`, `SameFiles`, `RowsAreTracks`, `NoOrphanTracks`, `Returns` |
| `programs` | the fourteen small programs, 2 or 3 processes each | 85 339 | `ProgramTypes`, `HandedOver`, `Protected`, `Served` |

Each property of `programs` is a conjunction of named ones, one per module: what
`HandedOver` says of `server5.c`, say, is `SelectServer!ReadyStaysReady`.  Where the
program really loses something - the semaphore set again, blocks written to a FIFO
that is about to be closed, a device set up twice - the model lets it happen, a history
variable (`barged`, `late`, `spoilt`) remembers it, and the property promises the rest.

Why the bounds are enough.  Two requests make one pipe serve two answers; more
matches than the pipe holds make the server block in the middle of an answer; a
second start leaves clients of the first behind.  The third client of
`pipe_live` matters: it is the one that can arrive while the server is between
close and reopen after two others.  For safety the proofs remove the bounds.  In
`search_all` three names give a match before, after and beside the empty one, and
`MaxMatching` 6 allows counts left by several abandoned searches.  Three tracks
are two more than a loop that starts at 1 needs to leave a gap.  Modulo 8 (4 in
`schar_all`) two readers of size 2 or 3 take the pool through zero and the
counters wrap several times.  In `schar_all` the counters of a run with two
readers fill most of the space, hence the smaller modulus.

`ipc_all`: a queue of two messages holds two responses of one answer, whose order
matters, and then makes every send block behind them;
two faults allow a client and then the server to die, and the two clients with one
pid make an heir.  Four identifiers suffice for two generations of two queues.
`files_all`: one number begins with the other, so that curses' comparison matters; as a
regular expression the first finds the lines of both, and the second is one that grep
understands otherwise (it finds the lines of its own, read literally) and that kills Perl;
four actions are enough to add two CDs, then remove one or update it; one break
at any of the steps in between.  `local_all`: two actions select a CD and delete
it, the others let the second program replace the database or change the tracks
meanwhile.  `programs`: three requests of a FIFO client put two answers into one
pipe; three processes and two turns let one of `sem1.c` be killed inside while two
wait; four texts and lines let one come before the start, one be overwritten, one
be printed and one be "end"; a box of two lines and up to five tracks let the list
scroll and stop at both ends; four polls each let both sides of `thread3.c` come twice; five connections reuse two descriptors twice; the
three lockers hold, wait for and die with a region each.

**Fairness.**  `CdPipe!FairSpec`: weak fairness of the server, and of each client
inside a call; the scheduler runs a process that is not blocked.  Nothing obliges
a user to start, ask or leave, or an administrator to restart the server, so
`ClientsEnter` says that a waiting client gets in without anyone's help.  It and
`CallsReturn` are checked without faults: with a user who leaves at once the
server may end (`ServerGiveUp`), and whoever waits then waits for ever.
`CdSearch!FairSpec`: the server goes on with a request it has taken.
`Schar!FairSpec`: a timer that is set fires, and a runnable process runs.
`IpcQueue!FairSpec` is that of `CdPipe`; `CallsReturn` holds in behaviours in which
nobody is killed, since a dead client's answers may fill the one queue for ever.
`CdLocal!FairSpec`: a program inside a callback or a page goes on; the user is free.
`MCPrograms!FairSpec`: the same for each process, and strong fairness of the two
sides of `thread5.c`, each of which sleeps for a second with the mutex free.  It leaves
out the steps in which `fgets` returns (`MutexWork!ReadLine`, `SemWork!TypeLine`), and
those of shm2.c and msg2.c in which a text is entered: nobody has to type.  So what
`Served` says of thread5.c and thread4a.c is that main always gets back to wait for the
user, every line typed so far taken, or has joined the thread (`LineIsTaken`, `PostsTaken`).
`CHECK_DEADLOCK FALSE` in `ipc_all`, `files_all`, `local_all` and `programs`: programs
end, users stop, and a server waits for clients.

**Violations** show where the code does something else than its comments say.
- `search_count`: `clientif.c:294` says "The previous checks guarantee that a
  matching entry exists."  They test a count that an abandoned search leaves
  behind.
- `schar_timer`: `schar.c:415` sets the timer when "we have a reader".  Once the pool
  is at its minimum the handler stops it, and no read starts it again.

Other behaviour of this kind is part of the models, and the hazards name most of it:

- a client that opens the pipe and leaves without a request (`client -i`) makes the
  second read of `read_request_from_client` return 0 as well, and ends the server,
  although `pipe_imp.c:66-70` speaks of a server re-initialized for the next client
  (`CdPipe!ServerGiveUp`; `StopsForAReason` says that, killed clients apart, nothing
  else does);
- `server_ending` of `pipe_imp.c` closes before it unlinks; a signal just before a
  blocking call only sets the flag;
- the entry just deleted stays current in the menu program, and choice 4 adds tracks
  for it, although `app_ui.c:325-326` says "We never allow tracks for a non-existent
  catalog entry to exist.";
- an entry with the empty name makes the scan of `search_cdc_entry` spin (why
  `SearchReturns` and `Returns` have their exception);
- answers for a client that died stay in the message queue, where they can block the
  server for ever, or reach a later process with the same pid;
- curses.c compares catalogue numbers over the length of the one removed, so removing
  CD1 removes CD12; all users of curses.c share one temporary file;
- the shell and Perl programs take the catalogue number for a regular expression
  (`cd_db:252,288,290`, `cd_db.pl:224,250,251`): a number with a `.` or `*` removes other
  CDs, an ill-formed one makes `grep` print nothing, so that the whole file is lost, and
  ends Perl before it has written what was added;
- the shell program's addition that is not confirmed goes on to remove the records
  with the number just typed;
- two `database_initialize` that overlap can leave processes with the entries of one
  database and the tracks of another, without notice;
- `client.c` takes a read of 0 for its answer and goes on; the server may then die of
  SIGPIPE or wait in its open;
- shm1.c clears the flag before it tests the text for "end";
- two processes can both pass the test of IOMAP_SET; a size of 0 passes its test of the
  alignment (`iomap.c:84`), and what `ioremap` returns is not tested (`iomap.c:44`), so a
  device can be set up with a NULL pointer and no mapping (`Iomap!SetMap`,
  `BadAccess`);
- two readers of schar can take the same bytes; a tick between `schar.c:334` and `335`
  adds bytes that are never read.

## 4. Proofs

All proofs hold for any clients, users, processes and names, any values of the
bounds that satisfy the assumption of the module (`ConstantsAssumption`,
`TextsAssumption`, `CatalogAssumption`, `FilesAssumption`, `LocalAssumption`,
`ScharAssumption`, and one per small program, from `SemAssumption` to
`BytesAssumption`), and any choice of
faults.  The assumptions do little more than type the constants.

| theorem | module | states |
|---|---|---|
| `TypeCorrect` | `CdPipeProof` | `Spec => []TypeOK` |
| `AnswersInOrder` | `CdPipeProof` | `Spec => []AnswerInOrder` |
| `InductiveInvariant` | `CdPipeProof` | `Spec => []IInv` |
| `RequestsAccounted` | `CdPipeProof` | `Spec => []RequestAccounted` |
| `TransportRefinesService` | `CdPipeProof` | `Spec => ServiceSpec` |
| `ServerStops` | `CdPipeProof` | `Spec => []StopsForAReason` |
| `QueueTypes` | `IpcQueueProof` | `Spec => []TypeOK` |
| `ClientsCanHear` | `IpcQueueProof` | `Spec => []QueuesPaired` |
| `AnswersAreOwn` | `IpcQueueProof` | `Spec => []OwnAnswers` |
| `QueuesRefineService` | `IpcQueueProof` | `Spec => ServiceSpec` |
| `SearchTypes` | `CdSearchProof` | `Spec => []TypeOK` |
| `MatchesShownOnce` | `CdSearchProof` | `Spec => []EachMatchOnce` |
| `EndMeansAll` | `CdSearchProof` | `Spec => []NoMoreMeansAll` |
| `CatalogTypes` | `CdCatalogProof` | `Spec => []TypeOK` |
| `TracksHaveNoGap` | `CdCatalogProof` | `Spec => []NoGap` |
| `DeletionComplete` | `CdCatalogProof` | `Spec => DeletesAllTracks` |
| `ListingComplete` | `CdCatalogProof` | `Spec => ListsAllTracks` |
| `FilesTypes` | `CdFilesProof` | `Spec => []TypeOK` |
| `NoCdLost` | `CdFilesProof` | `Spec => []NothingLost` |
| `KindsStay` | `CdFilesProof` | `Spec => []KindsKept` |
| `TracksNotOrphaned` | `CdFilesProof` | `Spec => []TracksHaveTitle` |
| `LocalTypes` | `CdLocalProof` | `Spec => []TypeOK` |
| `FilesPaired` | `CdLocalProof` | `Spec => []SameFiles` |
| `RowsShowTracks` | `CdLocalProof` | `Spec => []RowsAreTracks` |
| `NoTracksLeft` | `CdLocalProof` | `Spec => []NoOrphanTracks` |
| `ScharTypes` | `ScharProof` | `Spec => []TypeOK` |
| `PoolIsAccounted` | `ScharProof` | `Spec => []PoolAccounted` |
| `UnloadsCleanly` | `ScharProof` | `Spec => []NothingLeftBehind` |
| `LoneSleeperHasWaker` | `ScharProof` | `Spec => [](NoWrap => SleeperHasWaker)` |
| `LonePollHolds` | `ScharProof` | `Spec => [](NoWrap => PolledDataStays)` |
| `TypesKept` | `ProgramsProof` | `Spec => []ProgramTypes` |
| `ArrivesInOrder` | `ProgramsProof` | `Spec => []HandedOver` |
| `StaysWhole` | `ProgramsProof` | `Spec => []Protected` |

**CdPipe.**  Neither property is inductive.  That the next response in a pipe is the
right one depends on what the server still has to send (`idx`, in `WorkInv`); that
it belongs to the client's current request depends on the request in the server's
hands being that one, hence on the one in the server pipe being that one
(`FifoInv`), and on an old answer being read to its end before the next request
(`ClientInv`).  `Core`, their conjunction, is inductive together with `TypeOK`.  Its
central notion is `Pending(r)`: `r` is the latest request of its client and not yet
carried out, and a client that still waits for it has an empty pipe.  `killed`
counts as expecting an answer, since the request of a client that died is still
served.  `PlaceInv` adds that the request of a waiting client is somewhere; its two
other conjuncts are what the steps need: no client is attached while the server
blocks in an open, and a broken send comes from a signal.  `Core` then says that
the request is nowhere else, which gives `RequestsAccounted`.

The proof of each step has one lemma per action.  Steps that leave the parts alone
go through one lemma (`QuietStep`, `QuietPlaceStep`), and so do clients without a
request (`MoveStep`, `ClientMovePlace`).  For the refinement, `ServerExec` is
`Perform` (it needs `Pending(cur)`), `ClientSend` is `Ask`, the last `ClientRead` is
`Return` (it needs that a response in the pipe means the request was carried
out), the ways out are `Leave`, `ClientMkfifo` is `Enter`, and all others stutter.

`ServerStops` is about every choice of faults.  The server leaves its loop without a
signal only when the first read after a reopening finds no writer.  `Stays` says when
that read finds one: between the two reads somebody has the pipe open who has not yet
asked, or a request is in the pipe, or a client of this pipe is a `Deserter`, one that
was killed or left without having asked.  The first two cannot become false but by
turning into the third, since a client whose request the server has not read waits.

**IpcQueue.**  The same service, but all clients share two queues that outlive the
processes.  `Core` has two halves.  `PidInv`: what is under way to the pid of a
living client that inherited nothing is its own, which holds because a process has
its pid alone (`AloneInv`) and whoever starts over leftovers is an heir.  `OwnInv`:
such a client's latest request is in the queue, in the server's hands, or carried
out, and in one of these only (`RequestOk`, `WorkOk`); while the server still works
on it no response in the queue ends the answer, and nothing follows the one that
does (`ResponseOk`); so a client that returns leaves nothing behind (`CallOk`), and
its next request meets no old response.  For the order of the responses (`AnswersAreOwn`)
`OrderInv` adds what links queue, client and server: nothing was read while the request
is not carried out (`Unanswered`), the responses in the queue go on from the last one
read (`InOrder`), and `idx` goes on from them (`Continues`); and what is under way to a
client it still waits for in the present queue (`Reaches`), so that neither a removal
of the queues nor a failed call can leave responses behind.  `ClientsCanHear` rests on `HeldInv`: the
queue of responses is removed only when there is no queue of requests, and a new
queue gets an identifier that nobody holds.

**CdSearch.**  During the scan, `work_file` and the matching keys not yet visited are
together the matches and have none in common (`ScanInv`); after it, what was shown
and what is in the file (`ReadInv`).  Both need that `entries_matching` is never less
than what the file holds: abandoned searches make it too large, never too small.

**CdCatalog.**  `CatalogInv` says, for users who keep to their own names (`Apart`) and
CDs whose deletion was not killed (`broken`), how far each loop has come
(`LoopsInv`): a loop that deletes has split the tracks into those below its counter
and those from it on, each without a gap (`Split`), one that adds or lists has all
below its counter (`Upto`).  Where the next number is missing, nothing is behind it,
which makes "stop at the first number not found" correct.

**CdFiles.**  The properties speak of moments when no program runs; what holds in
between is where the lines are meanwhile.  `KeptBy(u)` says it for titles: in
title.cdb, except between the unlink of a file and the return of its copy, when the
temporary file has them, and in Perl's arrays from the reading to the writing; and
what a removal leaves out is no longer owed.  It needs that a user who has not
been joined by another is alone, and `Control`, which program is at which step and
with a current CD.  `TitledBy(u)` says which tracks have a title while curses removes
the titles first and the tracks after.  `Kinds` is the one part that holds for
programs that run at once: every file, array and temporary file holds titles only or
tracks only, since without curses a temporary file is its owner's.

**CdLocal.**  `Types` includes that a program past its opening has both files.
`Opens`: a pair of files is the one the names lead to or that of a program (`Paired`);
pairs match one to one, because a `database_initialize` that nobody overlaps unlinks
both names before it makes the first new file (`OpenedSoFar`).  `Edited`:
what a program knows of its CD's tracks in each line of its callbacks (`Knows`),
and that the tracks of a CD have no gap unless somebody is taking them out (`NoGap`);
the two support each other, since counting stops at the first gap, and adding goes
to the row after the last.  `Entered`: tracks are those of a CD in the catalogue of
the same pair (`Catalogued`), which needs that a frame that is not shaded shows a CD
that exists (`ActiveCd`).

**Schar.**  `ScharInv` is for any modulus: where each process can be (`PlaceInv`), what
is armed or open while the module is not loaded (`ModuleInv`), and the account of the
pool.  The two theorems about a lone reader assume `NoWrap`: twice `MaxPool` below the
modulus, and no sum out of its width, which the instance of `schar_lone` satisfies, and
so do any sizes small against a 32-bit long.  Without it they are false, since a pool
above half the modulus counts as negative.  `ReaderInv` follows the reader from its
test of the pool to its sleep: between the two only the timer can run, and if it adds
something it stays armed.

**The small programs.**  `ProgramsInv` is the conjunction of fourteen invariants, one
per program, each inductive by itself; `OneRuns` says that a step of one program leaves
the variables of the others alone.  What had to be added to the properties:

- `sem1.c` (`SemInv`): unless the value was set while a process was inside (`barged`), the
  value and the processes inside add up to at most one, and the undo entries say who is
  inside (`SemSum`).  There is always a number for a new semaphore, by the pigeonhole principle (`NumberUnused`).
- `server.c` (`FifoInv`): the requests of a client, read or not, follow each other and the
  answers already in its pipe (`RequestsFollow`); until a crash, a read of 0 or the end of
  the server a client has one request or answer under way (`OneUnderWay`).
- `msg1.c` (`MsgInv`): which queue each process knows (`QueueNumbers`), and that its
  senders' texts not yet printed are exactly those in it (`TextsQueued`).
- `thread5.c` (`MutexInv`): what was counted, the line in the work area and the lines read
  agree at each line of the two sides (`AreaAndCount`).
- `server5.c` (`SelectInv`): a descriptor belongs to one visitor (`OneConnection`), what is
  in it is that visitor's (`OwnBytes`), and what the loop still has to visit is still ready
  (`LoopOver`).  `LeastOf`, that a set of numbers with a member has a least one, is
  by well-founded induction over the numbers.
- `fifo3.c` (`BytesInv`): while no producer opened the FIFO between a last read and the close
  after it, whoever writes has somebody who reads (`EndsMeet`), so no block is thrown away.
- The others are their properties with the place of each process and what it holds there.

Some properties are stated so that they can be proved as well as checked: `LinesCounted`,
`TextsAccounted` and `OwnAnswers` by positions instead of filtered sequences, and the blocks of
`BytesArrive` as the size of a set (`BlocksOf`) instead of a fold, since what a fold
computes needs an induction over its argument.

Only model-checked: every liveness property (`CallsReturn`, `ClientsEnter` and the
other properties of section 3 that say something must happen), since liveness under
fairness is out of the provers' reach.

## 5. Plan

1. `server4.c` (a process per client) beside `SelectServer`; the cancellation of
   `thread7.c`; `schar`'s mmap and proc entry.

## 6. Not modelled

- Failures of `mkfifo`, `msgget`, `open`, `tmpfile` or `malloc` for lack of resources,
  and `database_initialize` on a client's request to the server.
- A second server on the same pipe name: the new one unlinks the name, and the
  old one is then a server without new clients.
- Database errors, and what is stored in an entry beyond its key.
- `mmap`, the proc entry and the ioctls of schar that only report a value; kernels
  with more than one processor.
- The layout of the windows, but for what `CursesMenu` says of menus, list and box,
  and of the HTML pages, and the decoding
  of a CGI query: only what they read and change is in `CdFiles` and `CdLocal`.
- The examples of one library call, makefiles and data files, Tcl, Tk and Java: no
  shared state, or none worth a model.
