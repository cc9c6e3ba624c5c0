# Verification of the blog repository

The repository is a personal blog with the shell scripts that publish it and the
sample programs of its courses. There are no tests. This directory holds TLA+
modules for the scripts and programs that have state worth reasoning about, the TLC
configurations that check them, and proofs for the TLA+ proof system.

Paths are those under `src/`: the scripts are in `src/src/blog-web`, the courses in
`src/course`. `PROJECT.json` maps every definition to the lines it models.

## 1. Inventory

### HTML builder: `create-html.sh`, `course.sh`, `common-lib.sh` 57-213, `array.sh`

*State*: the checkouts of the articles and of the pictures, the two fixed directories
`/tmp/blog-src-tmp` and `/tmp/blog-html-tmp`, and the sites. *Operations*: empty the
two directories, copy the documents, put the common header before those of a course,
strip private text, make `sign.html`, render page by page, copy the style sheet and the
pictures, hand everything to nginx, then `rm` and `mv` into the site. *Interaction*:
called by the restart loop, by `push-github.sh` and by hand, which share both
directories and know nothing of each other. *Hard*: two builds at once; a pull between
two commands that read the checkout; a kill between the `rm` and the `mv`; what a killed
build leaves behind. *Correct when* every site comes from one build, and is down only
in the `rm` and `mv` at the end.

### Restart loop: `restart.sh`, `do-restart.sh`, `reset-push-git.sh`

*State*: for each repository gitee's master, `origin/master` and HEAD; `is_restart`, which
lives only in the process; the nginx configuration on the disk and the one nginx runs; the
site. *Operations*: every 90 seconds fetch, compare, pull; if anything has changed, write the
configuration again, build, restart nginx. In the local network the checkouts are left
alone and everything is restarted every round. *Hard*: fetches and pulls cut off by `timeout`,
runs killed half way, reboots, a `reset --hard` beside the loop. *Correct when* a loop that
sleeps has left the site and nginx at the checked-out commit, and a commit pushed to gitee is
some time later seen by visitors.

### Repository synchronisation: `check-gitee.sh`, `common-lib.sh` 442-553

*State*: each repository's directory, uncommitted changes, branch, and the three ideas of
master (local, `origin/master`, gitee); four lists that are printed. *Operations*: status,
fetch, decide from `git branch -a --contains` between pull, push and nothing, put the repository
in a list. *Hard*: other machines push between the fetch, the comparison and the pull or
push; git fails and nobody looks. *Correct when* no repository is dropped, none is called ok
wrongly, and nothing is ever merged.

### Comment stripping: `common-lib.sh` 215-297, `create-full-src.sh`

*State*: a document. *Operations*: six passes of sed and perl over it, one after the other.
*Hard*: markers that are missing or misplaced; the order of the passes; the outputs go through
different passes. *Correct when* no private line is published, whatever the markers,
and everything else is when the markers are well-formed.

### mptcp echo: `course/kernel/src/mptcp`

*State*: descriptors, two `fd_set`s, one `data` byte shared by all clients, the queues of each
connection. *Operations*: `select`, then for every ready descriptor accept, or close, or read,
sleep and write. *Hard*: clients killed at any point, one byte for all of them across a
sleep, a write to a client that has gone. *Correct when* nobody alive is
dropped, everyone gets the successor of his own byte, and the server stays up.

### Kernel socket pair: `course/kernel/src/kernel-socket`

*State*: two kernel modules, the thread of each, the sockets and the connections. *Operations*:
load, unload with `kthread_stop`, and the threads' chains of socket calls with `goto` to release.
*Hard*: unloading while the thread waits in a call that `kthread_stop` does not end, calls that
fail, a client loaded again while the server still serves the last one. *Correct when* no thread
runs in a module that is gone, every path releases its sockets, and unloading ends.

### Sample programs: `course/algorithm/src`

*State*: an array, a heap, the tables of a dynamic program with the calls that have not returned, the nodes
of a hash table. *Operations*: heap sort, merge sort, quick sort with a random pivot, the C library's
`qsort` with a comparison; a priority queue (build, push, pop); cut-rod bottom-up and memoized; adding, finding,
deleting, and freeing all nodes of a uthash table. *Hard*: a heap is repaired along one path only; sentinels
that elements may equal; a recursion whose first call includes the middle; a difference of two ints that
overflows; a memo that marks "not computed" by a sign; freeing while iterating. *Correct when*
what comes out is a sorted permutation, the maximum of what is held, the optimum; no node is lost or used
after it is freed.

### Probe modules: `src/kernel/kprobe-scsi.c`, `course/kernel/src/kprobe/kretprobe_example.c`, `src/smb/kretprobe_smb.c`

*State*: which probes are planted, the expected data, the open file; per call a stamp in an instance.
*Operations*: load with calls that fail, unload, handlers that run beside whatever the kernel does. *Hard*: a
load that fails half way, unloading while handlers run, ranges of sectors in another order than on the disk,
more calls than instances. *Correct when* no handler runs without its module and data, differences are
reported exactly where there are some, and the time printed is that of the call that returns.

### The rest

| Component | State and operations | Correct when | Status |
|---|---|---|---|
| nginx redirections, `create-nginx-404.sh` | lines of paths become rewrite rules in the configuration | every old path leads to its new one | when and from what it is made: RestartLoop; the parsing: planned |
| publication to github.io, `push-github.sh`, `comm_generate_index` | remotes removed and added, forced push, recursive index | a failed fetch loses no history; every page is indexed | planned |
| sources for other platforms, `create-full-src.sh`, `create-csdn-src-for-header.sh`, `common-lib.sh` 299-383, 565-629 | header levels, splitting by header | headings keep their nesting, the parts make up the document | what is stripped: Strip; the headers: planned |
| sign updater, `update-common-src.sh` | ranges replaced in every article | only the marked range changes | planned with the headers |
| maintainer mail script | lists without repetition | nobody twice, nobody missing | planned, if room is left |
| build parameters file, `common-lib.sh` 655-685 | a file in /tmp | | not modelled: it is read only in another repository |
| `task_struct.c` | none: a struct of the kernel, copied and annotated | | not modelled |
| process samples, other probe and test modules, other shell scripts, kernel patches, articles | one system call each, printing, straight-line wrappers, text | | not modelled |

`PROJECT.json` lists the components with their files, and under `hazards` the lines where
something can go wrong that a test would hardly reach.

## 2. Modules

| Module | Models | Built on |
|---|---|---|
| `Website` | what a visitor is promised: all pages of one edition, or down | |
| `CreateHtml` | the builder, command by command, with several callers and crashes | implements `Website` |
| `RestartLoop` | the polling loop and the restart | uses `Website` for the build |
| `GitSync` | `check-gitee.sh` while others push | |
| `Strip` | the deletion of private and unfinished text and of comments | |
| `MptcpEcho` | the select loop with its clients and what the kernel keeps for them | |
| `KernelSocket` | both kernel modules with their threads | |
| `Arrays`, `Heap` | swapping, the helpers of a heap, and what sorting means | |
| `MaxQueue` | what a priority queue promises: the largest of what is held | |
| `PriorityQueue` | `priority_queue.c` under any sequence of calls | `Heap`; implements `MaxQueue` |
| `HeapSort`, `MergeSort`, `QuickSort`, `ClibQsort` | the four sorting programs | `Heap`, `Arrays` |
| `CutRod` | both cut-rod programs | |
| `Uthash` | the three uthash programs | |
| `ScsiProbe` | `kprobe-scsi.c` beside scsi commands | |
| `KretprobeState`, `Kretprobe` | both kretprobe modules beside the calls they time | |
| `Programs` | one of the small programs above, chosen at the start | all of them |
| `CreateHtml_proofs`, `GitSync_proofs`, `RestartLoop_proofs`, `MptcpEcho_proofs`, `KernelSocket_proofs`, `Strip_proofs` | theorems about the module of that name | |
| `Sorting_proofs` | theorems about the priority queue and the four sorting programs | `Programs` |
| `Programs_proofs` | theorems about the other small programs, and about all of them | `Sorting_proofs` |
| `MC...` | constants for TLC | |

**Website, CreateHtml and RestartLoop.** The builder is modelled in full once. A directory is a
function from file names to contents, so a missing file is outside its domain; a content
says which commit it came from and what was done to it (header, stripping, links, signature,
owner), so two pages of different builds differ. `pc[b]` is the next command of caller `b`,
`todo[b]` the rest of the loop it is in. `Overlap` says whether anything outside the scripts keeps
builds, and updates of the checkout, apart. The style sheet, `picture/` and `godot/` are an item each, with
a `cp` of its own; `Directories` are the directories among the items, which `mv` moves whole, in the order of
the names, and refuses to move over one that is not empty. `CreateHtml` is shown to implement `Website`, and
`RestartLoop` then uses `Website`'s `TakeDown` and `BringUp` where the loop calls
`create-html.sh`: the two are composed through the abstract specification. What that
abstraction assumes, one build at a time, `RestartLoop` keeps in mind: if the checkouts have
changed since the restart began, the site may come up `Mixed`.

**GitSync.** A branch is the set of its commits; "contains" is inclusion, and diverged branches
are two sets neither of which includes the other. `LocalContains` models what the grep for
the asterisk does: the local branch counts only while it is the one checked out. That the grep would also
take a branch `master-x` for master is left out: the repositories have no such branch. A pull that fails
may have fetched before, and moved `origin/master`.

**Strip.** A line is the kind of line it is, and what is left of the document is a function from
where the lines stood in it. `DeleteRanges` is sed's range with its two peculiarities: the end is
looked for from the next line on, and a range that does not end runs to the end of the file. It
goes through the lines once, with `open` telling whether a range is open behind each.

**MptcpEcho.** One run of the client program is a client. The kernel's part (queues, the end of a
connection behind the data, the reset that makes a second write fatal) is modelled as the
programs can notice it. `FdSetSize` is a constant, and `EchoAssumption` keeps the clients below it.

**KernelSocket.** `thread[m]` is the next call of the thread, `"dead"` when it has returned by
itself: then `kthread_stop` may find the task gone (`"oops"`). A message is only "there"
or "not there". Whether the client's `kernel_sendmsg` can succeed depends on a field that nobody
initialises (`sends`), chosen when the client is loaded. `kernel_accept` may fail at once, but nothing makes it
(`WaitsToAccept`), so fairness does not count on it.

**The small programs.** An array is a function on `0..n-1`. A recursive function that comes back to its caller with
work to do (`mergesort`, `quiksort`, `memoized_cut_rod_aux`) keeps its calls in a sequence, the next one first; one that
ends in its recursive call (`max_heapify`) is a step per level. What a read beyond an array would give is any
value (`Read` of `MergeSort`, `ExpectBuf` of `ScsiProbe`). `PriorityQueue` leaves out calls that the code leaves to
its callers, a pop from an empty queue and a push to a full one; `main` makes none. In `CutRod`, `MinusInfinity` stands
for `INT_MIN`: a constant that is less than any money (`RodAssumption`). `ClibQsort` lets an int
go from `-Half` to `Half - 1`, so that a difference overflows soon, and lets the library do anything with a comparison that is no order. `Uthash` takes the table,
which is not in the repository, to be a list of nodes, but keeps `malloc` and `free`: `memory` is what is allocated.

**ScsiProbe.** Everything is counted in sectors, and a right sector holds its own position in the file, so that
an offset that is wrong by one is seen. `mod` is the next step of `kprobe_init` or `kprobe_exit`; `lost` remembers what
a load that failed half way left behind, a probe whose code is gone among it (then a command is fatal, `oops`).
A command goes through issue, dispatch and completion, and stops in each handler that is planted.

**Kretprobe.** The kernel's part, giving out instances, is external; `holds[t]` is the instance of the call thread `t`
is in, `since[t]` when that call began, which the module does not know and its output is compared with.

A command is compared with the file from its first sector on, so `WithinFile` says of which commands a
report can be right: those to the disk sda for sectors that follow one another in the file, within a range or from
one into the next.

**Programs** runs one of these at a time: they share no state. Programs that work on an array share its variables.
It extends `PriorityQueue` and `KretprobeState`, whose properties are the ones that are also proved, and instantiates the others.
Elements, lengths, prices and ranges of sectors are constants, with a length of their own for the rods; what the modules assume of
them is put together in `ProgramsAssumption`, so that TLC evaluates it all. `MCPrograms` gives them values.

## 3. Runs

States are distinct states found by TLC; each passing run takes at most a minute or so.

| Run | Bounds | States | Shows |
|---|---|---|---|
| `create_html_serial` | 2 callers for 2 sites, 3 documents of which each commit has 2, 1 commit of articles and 1 of pictures | 132,662 | builds that take turns, each killed anywhere: `SiteFromOneBuild`, `SiteUp`, `ImplementsWebsite` |
| `create_html_overlap` | the same, `Overlap` | | finding: `SiteUp` |
| `restart_loop` | 1 commit in each of 3 repositories, 2 accidents (kill, reboot, reset) | 101,799 | `QuietMeansCurrent`, `Published`, `LanRepairs` |
| `restart_github` | no accident | | finding: `PushedToGithub` |
| `git_sync` | 2 repositories in every initial state, 1 own commit, 2 of others | 66,968 | `EveryRepoListed`, `OkMeansInStep`, `NeverMerges`, `Ends` |
| `git_sync_settled` | the same | | finding: `OkMeansSettled` |
| `strip` | every document of up to 5 lines of 10 kinds | 2,333,331 | `NoBlockLeaks`, `PublishedExactly`, `NoMarkerLeft` |
| `mptcp_echo` | 3 clients, 2 values of a char | 173,120 | `NobodyDropped`, `OneInFlight`, `ServerUp`, `Answered`, `Reaped` |
| `kernel_socket` | each module loaded up to 3 times | 111,921 | `CodeStays`, `ServerReleases`, `TakeTurns`, `ServerUnloads`, `ClientUnloads` |
| `kernel_socket_stop` | loaded once | | finding: `StopsLiveTask` |
| `programs` | arrays of 4 elements of 4 values (3 of 8 for `qsort`), a queue of up to 6 from any array, rods of up to 4 with prices of both signs, 4 nodes, 1 scsi command over 7 sectors with a file of 4 in 3 ranges, 4 threads with 2 instances | 258,636 | `HeapOrder`, `ImplementsQueue`, `SortsIntoOrder`, `QuickSortEnds`, `RodsOptimal`, `TableHoldsLive`, `FindsWhatIsThere`, `ProbeHasCode`, `ReportsOnlyWrongData`, `TimesOwnCall` |
| `quick_sort_equal` | 3 elements of 2 values | | finding: `Ends` |

Why the bounds are enough. *Builder*: the callers differ in everything the script looks at
(address, path, owner); one document is dropped, one added and one kept by the commit, one
lies outside the courses and one of the others is exempt from the header; the pictures change
alone. A third caller could only repeat what the second does to the shared directories.
*Loop*: the repositories differ in what follows from a change of them, and two accidents make
one possible while the other is being repaired. *Sync*: the walk has a first and a next
repository, which is all it remembers; two foreign commits allow one before the fetch and one after
it. *Strip*: the property needs a begin, something hidden, an end, and a misplaced marker of
another kind. *Echo*: a client can come while a second goes and a third waits, so a descriptor
is given out again while others are in the scan. *Sockets*: a second client finds the server
with its only connection used up, a third finds the backlog not empty. *Programs*: four elements give a merge
of two halves that each were merged, and partitions with an empty and a full side; `INT_MAX` is among the
elements; a heap of six has three levels, the last of them not full. The file has a range of
two sectors that lies behind the others on the disk, and two of one that follow each other there too, with foreign
sectors around them; a command may cross from one range into the next, and beyond their ends. Three threads want two instances.

What the runs leave out. `create_html_serial` has neither two builds at once nor an update of a checkout during a build, so
it does not meet a site of mixed commits, nor an `mv` that finds a directory where it moves one; `create_html_overlap` has both,
and ends at its finding. `restart_loop` excuses with `missed` the two ways in which the loop really goes blind, a kill after
the pull and a reset outside the loop: its properties say that there is no third. In the same way `OkMeansInStep` excuses a pull or
push that failed (finding 3 is about those), `ServerUnloads` and `ClientUnloads` the wait in `kernel_accept` and that of a client that is
never accepted, which do not end, `SortsIntoOrder` two `INT_MAX` in a merge and differences that overflow, and `ProbeHasCode` what
follows a load that failed at its second probe. `PROJECT.json` notes it at each of these hazards.

### Fairness

`restart_loop`: the loop goes on (`while true` in a terminal), and a fetch and a pull of the
articles succeed now and then if they are tried for ever (strong fairness: the network is not down
each time). No commit, edit, kill or reset needs to happen. `git_sync`: the script takes its next
step; every git command ends. `mptcp_echo`: the server goes on, and so does a client with an answer to read;
clients need not connect, write or die. `kernel_socket`: the kernel runs both threads and whoever
waits in `kthread_stop`; nobody has to load or unload. `QuickSort` and the quick sort of `programs`: the program goes
on, and `rand()` draws every pivot again and again (strong fairness of each `Pick`). The other runs
check safety only.

`CHECK_DEADLOCK FALSE` is set where a system may stop: a script that has ended, a document that is
done, a server that nobody asks, a thread in a call that nothing ends.

### Findings

1. **`create_html_overlap`** `create-html.sh:3` says the temporary directory keeps the site accessible
   during a build. Two builds share it: one removes it while the other fills it or moves
   it, and the site is left without its pages.
2. **`restart_github`** `restart.sh:38` says a public server pushes to github. The machines whose
   `is_github` is true return before the push; the push is never reached.
3. **`git_sync_settled`** `check-gitee.sh:16` prints `ok_repos` as all settled; a pull or push that failed
   puts its repository there too.
4. **`kernel_socket_stop`** `course/kernel/process.md:273` quotes the rule for `kthread_stop` on a
   thread that may exit by itself; both modules break it on their error paths.
5. **`quick_sort_equal`** `quick-sort.c:71` hands the middle to its first call once more. If all elements of a
   range are equal, `<=` in line 50 moves them all to the left, the middle is the end, and the call gets its own range
   again: for ever, though `course/algorithm/sort.md:3` gives O(n lg n). With different elements it ends
   (`QuickSortEnds`), because some pivot drawn later is not the largest.

Seen while modelling, and not checked: the files for CSDN (`CopyCsdn` of `Strip`) keep unfinished text, because they are made from
the checkout; a comparison that overflows is no order, so `clib-qsort.c` promises nothing for elements half the
range of an int apart (`Near`); two elements equal to `INT_MAX` may take a merge off the end of `l_array`, which
is why `SortsIntoOrder` excludes them; `kprobe-scsi.c` leaves its first probe planted when the second cannot be registered,
which is why `ProbeHasCode` excludes what follows; it compares three characters of the disk's name (line 163), so it takes `sdaa`
for `sda` and reports data there that are right, and likewise those of a command that leaves the file or goes on elsewhere in it, which is why
`ReportsOnlyWrongData` is about neither (`WithinFile`).

## 4. Proofs

**CreateHtml_proofs**, for any callers, sites, documents, commits and lists of documents, from
`ConstantsAssumption` (paths and lists name things that exist; every site has a caller; what is copied or
made besides the documents is four different items; the directories that `mv` moves share none).

- `TypeCorrect`: the types, overlapping builds included.
- `SerialSiteFromOneBuild`, `SerialSiteUp`: the two invariants when builds take turns. They are not
  inductive: a move into the site is right only because of what is in the temporary directory. `IInv`
  adds that one caller runs at a time (`SoleBuilder`) and, for each command, exactly what the
  two directories and the site hold when it is next (`SrcTmpReady`, `HtmlTmpReady`, `SiteReady`).
- `SerialRefinement`: the builder implements `Website`. Two facts carry it: a site that misses a page shows
  no edition (`PartShowsNone`), so the moves of `mv` stutter until the last one; and the full
  site names its edition (`EditionInFiles`), so what that last move shows is the current one.

**GitSync_proofs**, for any repositories, any order that names none twice, and any commits.

- `TypeCorrect`, `NoRepoForgotten`, `OkWasInStep`: from `IInv`, which adds to them that every listed
  repository has been checked, that ok ones are there and clean, and what `is_repo_clean` means while a
  repository is examined (`ListsAreTrue`). Because the script comes to no repository twice, a later
  step changes nothing that a list says (`CurrentIsNew`).
- `NothingMerged`: the action property `NeverMerges`. `origin/master` never runs ahead of gitee, so what
  contained the local branch at the comparison still does at the pull (`PullFastForwards`).

**RestartLoop_proofs**, for any repositories and any number of commits, from `LoopAssumption`.

- `TypeCorrect`: the types, wherever fetches, pulls and runs are cut off.
- `SleepsWhenCurrent`: `QuietMeansCurrent`. `IInv` adds that the checkouts are where they were when the restart began, or
  ahead (`SeenIsBehind`); what each step of the restart has brought up to date, unless they have moved (`RestartSoFar`); and
  that as long as nothing is known to have changed all is as it was (`UndecidedMeansCurrent`).

**MptcpEcho_proofs**, for any finite number of clients, any chars and any descriptors beyond them (`EchoAssumption`).

- `TypeCorrect`, `EveryClientKept`, `ByteInOnePlace`, `ServerStaysUp`: the types and three invariants. `IInv` adds that a client has
  at most one connection, waiting or with a descriptor (`OnePlace`); that what `select` has found ready stays so until the scan
  comes to it, because only the server reads, accepts and closes (`ScanIsCurrent`); and that a client that is gone has left at
  most one byte, and none after the write that is answered with a reset (`GoneLeavesOne`).

**KernelSocket_proofs**, for any number of loads.

- `TypeCorrect`, `NoThreadOutlivesItsModule`, `EveryPathReleases`, `MessagesAlternate`. `IInv` adds what a thread that has not made
  its sockets has (`ThreadsBegin`), that a connection is made once, accepted once at most and left alone when the server has closed
  it (`MadeOnce`), and that only a client that waits in `kernel_recvmsg` has something under way (`OneUnderWay`).

**Strip_proofs**, for documents of any length, from `StripAssumption`. `OpenRange` says, without the recursion of `DeleteRanges`,
when a range is open behind a line: when a line before it opened it, and none after that one closed it. If that were wrong
somewhere, there would be a first line where it is, and the step of the recursion at that line refutes it.

- `TypeCorrect`, `NothingPrivateLeaks`, `NoMarkerPublished`. A command sees only what the ones before it have left, so
  `LeftForSite` says for each command, whatever markers the document has, which lines of it are left: those outside
  the blocks that are stripped (`Shown`), of these the ones outside unfinished parts (`Finished`), of these the
  ones outside comments of several lines (`Uncommented`).
- `PublishesExactly`: in a document whose blocks nest, a block lies inside one of another kind with both of its ends or with
  neither (`SameSide`), so a command leaves later blocks whole (`Whole`), and the next command finds the same lines inside as
  it would in the whole document (`SeenAsWhole`).

**Sorting_proofs**. The priority queue, for any elements, any capacity and any sequence of calls:

- `HeapKept`: `HeapOrder`. It does not hold during a call, so `IInv` says what does: while an element goes down
  (`OrderDown`), all from `root` on are in order except below `node`, and the children of `node` are no larger than its parent; while it
  goes up (`OrderUp`), all except `node` itself, with the same about its children. `Parent` is used through three
  facts only, and `LargestOfThree` says what `max_heapify` compares.
- `TypeCorrect` (of `PriorityQueue`): every index stays in the array.
- `RefinesMaxQueue`: the queue implements `MaxQueue`. A level of a repair swaps two elements, which keeps how often each
  is held (`SwapKeepsCount`, by a bijection between the places), so repairs stutter; a push adds one to one count. That a pop takes
  the largest needs that the root is (`RootIsLargest`): the first place that held more than the root would have a parent that is
  earlier and holds no less. That is how induction over the heap is done here, since the provers cannot instantiate an induction
  theorem: among the counterexamples take the smallest.

The sorting programs, for arrays of any length and any elements. Each is shown to leave a rearrangement of its
input, because each step is one (`RearrangedBy`, `SwapRearranges`), and in order:

- `HeapSortSorts`: what has left the heap is in order and no smaller than what is still in it (`OrderedBehind`); the heap is one
  but for the element that goes down (`HeapBut`), with the lemmas about the queue.
- `QuickSortSorts`: the ranges that are still to be sorted lie apart (`RangesApart`), two elements that are not in one of them
  together are in order (`OrderedApart`), and a partition has the small ones in front so far (`Parted`). It is shown for
  any pivots, and says nothing of whether the program ends.
- `MergeSortSorts`: the calls that wait nest (`Nested`); the array together with what is not yet merged from the
  copies is a rearrangement (`Whole`), its merged part in order and not above the rest (`MergedSoFar`), and what earlier calls
  sorted stays so (`OrderedSoFar`). While `INT_MAX` occurs once at most (`OneInfinity`), a sentinel is taken only when
  both halves have come to their end. `MergeSortAssumption` says that `INT_MAX` is the largest element.
- `QsortSorts`: if no two elements are half the range of an int apart, no difference wraps (`WrapsNothing`), so both comparisons
  are orders, and the library sorts.
- `EverySortSorts`: `SortsIntoOrder`, from the four.

**Programs_proofs**, from `ProgramsAssumption`, which says of the parameters only what the programs take for granted: that `INT_MAX` is
the largest element and `MinusInfinity` less than any money for the longest rod, that the ranges of sectors are not empty and share
no sector, and the like. What a recursive function computes for every number is shown as above, by the
smallest number for which it would be wrong (`SmallestNumber`, `StepByStep`, `Recursion`).

- `ProbesKeepTheirCode`: `ProbeHasCode`, for any ranges, files and commands. `IInv` of `ScsiProbe` says which probes each step of
  loading and unloading finds planted (`PlantedAt`), that a command stands in a handler only if it is that of a planted probe
  (`HandlersPlanted`), and from when to when the data stay (`DataStay`).
- `ReportsAreRight`: `ReportsOnlyWrongData`, for a file of any ranges and the commands of `WithinFile`. `IInv` also says that data that are there are complete
  unless a load fell short (`DataComplete`), and that a command is wrong only where it is in the file (`WrongWithin`). What the
  ranges before a sector hold is where it stands in the concatenation of all ranges, which is what the file is
  (`Flattened` and the lemmas behind it), so each comparison is of a sector with itself.
- `TableLinksWhatIsLive`: `TableHoldsLive`, for any addresses. `IteratesFromHead` says that the iteration that frees stands on the
  first node and has saved the second.
- `FoundWhileThere`: the action property `FindsWhatIsThere`. `NodesHoldKeys` says that there is one node for each key that has been
  added and not been deleted, `InLoop` that no loop leaves its array of keys.
- `OwnCallTimed`: `TimesOwnCall`, for any threads and any `maxactive`. `StampOfCall` adds that an instance belongs to one call that
  is under way and holds the time at which that call was entered; when the module is not loaded no call holds one.
- `RodTypes`: the calls of `memoized_cut_rod_aux` are no deeper than the rod is long plus one. `CallsNest` says that
  each is for a shorter rod than its caller, which is inside its loop.
- `RodsCutBest`: `RodsOptimal`, for rods of any length and any prices, from `RodAssumption`. The best of all ways to cut is
  the best last piece with the best of what it leaves (`BestLastPiece`), because a way to cut a rod is one for
  what its last piece leaves, and that piece (`AddPiece`, `TakePiece`). With that, `OptimalInv` says what both programs
  have on the way: a call has the most of the pieces it has tried (`TriedSoFar`) and waits for the one for what its
  piece leaves (`CallsWait`), and the bottom-up program has filled `profits` up to `i` (`FilledSoFar`).
- `ProgramsTypeCorrect`: `ProgramsTypeOK`, from the invariants above.

Only model-checked: all liveness (`Published`, `LanRepairs`, `Ends`, `Answered`, `Reaped`, `ServerUnloads`,
`ClientUnloads`, `QuickSortEnds`), which TLAPS does not reach. Every invariant, every action property and both refinements
that a passing run checks are proved.

## 5. Not modelled

The contents of articles, what pandoc and nginx do with them, and the wording of output. In the
builder, a file that is read while another build writes it: commands are atomic, and the loop over the pages and
the `mv` are split at each page. `private-blog`, whose scripts are not here: the loop only marks which
commit its pages were made from. The results of `socket`, `bind` and `listen` in the echo server, which
the program does not look at. Descriptors at or beyond `FD_SETSIZE`, where the program is undefined.
A pop from an empty priority queue and a push to a full one, which the code leaves to its callers. A `malloc` that
fails in the user programs. That `kprobe-scsi.c` allocates with `GFP_KERNEL` inside a probe's handler, which the
kernel may punish. Of the probe modules, those that only print, sleep or crash (`kprobe_example.c`,
`kprobe-df-long-time.c`, `crash-test.c`, `debug-drop-bio.c`): they keep no state. `fork.c`, `pthread.c` and `nice.c`, one system call each.
`task_struct.c`, a quarter of the C code of the repository, is a struct with comments. The vendored
`create-debian.sh` and the kernel patches.

## 6. Plan

Done: `Website`, `CreateHtml`, `RestartLoop`, `GitSync`, `Strip`, `MptcpEcho`, `KernelSocket`, the sample programs and
the probe modules, each with its proofs. Next, in this order:

1. `PushGithub`: the remotes and the forced push when a fetch fails, with `comm_generate_index` over a tree.
2. `Headers`: `comm_add_or_sub_header`, the splitting by header and `update-common-src.sh` over documents
   as in `Strip`; the redirections of `create-nginx-404.sh`.
