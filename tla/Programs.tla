------------------------------ MODULE Programs ------------------------------
(***************************************************************************)
(* The small programs: those of the algorithm course, and two kernel       *)
(* modules with probes. One of them runs; the others, which share nothing  *)
(* with it, do not. Programs that work on an array use the same variables  *)
(* for it, and so do those with a heap. Init, Next and TypeOK are those of *)
(* PriorityQueue.                                                          *)
(***************************************************************************)
EXTENDS PriorityQueue, KretprobeState

CONSTANTS
  Element,         \* of the arrays of heap, merge and quick sort
  Length,          \* of those arrays
  Half,            \* one more than INT_MAX, in clib-qsort.c
  QsortLength,     \* of the array of clib-qsort.c
  Price,           \* of a piece of rod
  RodLength,       \* of the longest rod
  MinusInfinity,   \* INT_MIN, in the cut-rod programs
  Address,         \* that malloc may return
  NULL,
  Cmd,             \* scsi commands
  Sector,          \* of the disks
  sec_range_arr    \* where the file of kprobe-scsi.c lies

VARIABLES
  program,
  input, array, phase, heap_size, todo, copies, next, cursor,
  price_array, len, method, profits, calls, i, ret,
  keys, memory, head_table, test, at, el, tmp_table, found,
  mod, file, expect, planted, lost, cmd, oops

HS == INSTANCE HeapSort
MS == INSTANCE MergeSort
QS == INSTANCE QuickSort
CQ == INSTANCE ClibQsort WITH Element <- -Half..Half - 1, Length <- QsortLength
CR == INSTANCE CutRod WITH Length <- RodLength
UT == INSTANCE Uthash
SP == INSTANCE ScsiProbe
KR == INSTANCE Kretprobe

ASSUME ProgramsAssumption ==
  /\ HS!HeapSortAssumption
  /\ MS!MergeSortAssumption
  /\ QS!QuickSortAssumption
  /\ CQ!QsortAssumption
  /\ CR!RodAssumption
  /\ UT!UthashAssumption
  /\ SP!ScsiAssumption

arrays == <<input, array>>
merging == <<copies, next>>
rod == <<price_array, len, method, profits, calls, i, ret>>
table == <<keys, memory, head_table, test, at, el, tmp_table, found>>
scsi == <<mod, file, expect, planted, lost, cmd, oops>>
probes == <<scsi, retVars>>
algorithms == <<queueVars, arrays, phase, heap_size, todo, merging, cursor,
                rod, table>>

vars == <<program, algorithms, probes>>

QueueOff ==
  /\ heap = [s \in Slot |-> 0]
  /\ size = 0
  /\ call = "off"
  /\ returned = 0

SiftOff == root = 0 /\ node = 0
ArraysOff == input = <<>> /\ array = <<>>
PhaseOff == phase = "off"
HeapOff == heap_size = 0
TodoOff == todo = <<>>
MergeOff == copies = <<>> /\ next = <<>>
CursorOff == cursor = <<>>

RodOff ==
  /\ price_array = <<>>
  /\ len = 0
  /\ method = "off"
  /\ profits = <<>>
  /\ calls = <<>>
  /\ i = 0
  /\ ret = 0

TableOff ==
  /\ keys = <<>>
  /\ memory = <<>>
  /\ head_table = <<>>
  /\ test = 1
  /\ at = 1
  /\ el = NULL
  /\ tmp_table = NULL
  /\ found = <<>>

RunsQueue ==
  /\ program = "priority_queue" /\ Init
  /\ ArraysOff /\ PhaseOff /\ HeapOff /\ TodoOff /\ MergeOff /\ CursorOff
  /\ RodOff /\ TableOff

RunsHeapSort ==
  /\ program = "heap-sort" /\ HS!Init
  /\ QueueOff /\ TodoOff /\ MergeOff /\ CursorOff /\ RodOff /\ TableOff

RunsMergeSort ==
  /\ program = "merge-sort" /\ MS!Init
  /\ QueueOff /\ SiftOff /\ PhaseOff /\ HeapOff /\ CursorOff /\ RodOff /\ TableOff

RunsQuickSort ==
  /\ program = "quick-sort" /\ QS!Init
  /\ QueueOff /\ SiftOff /\ PhaseOff /\ HeapOff /\ MergeOff /\ RodOff /\ TableOff

RunsQsort ==
  /\ program = "clib-qsort" /\ CQ!Init
  /\ QueueOff /\ SiftOff /\ HeapOff /\ TodoOff /\ MergeOff /\ CursorOff
  /\ RodOff /\ TableOff

RunsCutRod ==
  /\ program = "cut-rod" /\ CR!Init
  /\ QueueOff /\ SiftOff /\ ArraysOff /\ PhaseOff /\ HeapOff /\ TodoOff /\ MergeOff
  /\ CursorOff /\ TableOff

RunsUthash ==
  /\ program = "uthash" /\ UT!Init
  /\ QueueOff /\ SiftOff /\ ArraysOff /\ PhaseOff /\ HeapOff /\ TodoOff /\ MergeOff
  /\ CursorOff /\ RodOff

RunsAlgorithm ==
  /\ SP!Init /\ KR!Init
  /\ \/ RunsQueue \/ RunsHeapSort \/ RunsMergeSort \/ RunsQuickSort
     \/ RunsQsort \/ RunsCutRod \/ RunsUthash

RunsProbe ==
  /\ program \in {"kprobe-scsi", "kretprobe"} /\ SP!Init /\ KR!Init
  /\ QueueOff /\ SiftOff /\ ArraysOff /\ PhaseOff /\ HeapOff /\ TodoOff
  /\ MergeOff /\ CursorOff /\ RodOff /\ TableOff

ProgramsInit == RunsAlgorithm \/ RunsProbe

QueueStep ==
  /\ program = "priority_queue" /\ Next
  /\ UNCHANGED <<program, probes, arrays, phase, heap_size, todo, merging, cursor,
                 rod, table>>

HeapSortStep ==
  /\ program = "heap-sort" /\ HS!Next
  /\ UNCHANGED <<program, probes, heap, size, call, returned, todo, merging, cursor,
                 rod, table>>

MergeSortStep ==
  /\ program = "merge-sort" /\ MS!Next
  /\ UNCHANGED <<program, probes, queueVars, phase, heap_size, cursor,
                 rod, table>>

QuickSortStep ==
  /\ program = "quick-sort" /\ QS!Next
  /\ UNCHANGED <<program, probes, queueVars, phase, heap_size, merging,
                 rod, table>>

QsortStep ==
  /\ program = "clib-qsort" /\ CQ!Next
  /\ UNCHANGED <<program, probes, queueVars, heap_size, todo, merging, cursor,
                 rod, table>>

CutRodStep ==
  /\ program = "cut-rod" /\ CR!Next
  /\ UNCHANGED <<program, probes, queueVars, arrays, phase, heap_size, todo, merging,
                 cursor, table>>

UthashStep ==
  /\ program = "uthash" /\ UT!Next
  /\ UNCHANGED <<program, probes, queueVars, arrays, phase, heap_size, todo, merging,
                 cursor, rod>>

ScsiStep ==
  /\ program = "kprobe-scsi" /\ SP!Next
  /\ UNCHANGED <<program, algorithms, retVars>>

RetStep ==
  /\ program = "kretprobe" /\ KR!Next
  /\ UNCHANGED <<program, algorithms, scsi>>

ProgramsNext ==
  \/ QueueStep \/ HeapSortStep \/ MergeSortStep \/ QuickSortStep
  \/ QsortStep \/ CutRodStep \/ UthashStep \/ ScsiStep \/ RetStep

\* Quick sort's own, for the steps of quick sort.
QuickSortFairness ==
  /\ WF_vars(QuickSortStep)
  /\ \A p \in 0..Length - 1 : SF_vars(QuickSortStep /\ QS!Pick(p))

ProgramsSpec == ProgramsInit /\ [][ProgramsNext]_vars /\ QuickSortFairness

-----------------------------------------------------------------------------

(* The program that runs keeps its variables within their ranges; merge    *)
(* sort's reading index stays inside the copy of the right half, and the   *)
(* probe's buffer holds no more than the file has.                         *)
ProgramsTypeOK ==
  /\ program = "priority_queue" => TypeOK
  /\ program = "heap-sort" => HS!TypeOK
  /\ program = "merge-sort" => MS!TypeOK
  /\ program = "quick-sort" => QS!TypeOK
  /\ program = "clib-qsort" => CQ!TypeOK
  /\ program = "cut-rod" => CR!TypeOK
  /\ program = "uthash" => UT!TypeOK
  /\ SP!TypeOK
  /\ KR!TypeOK

(* Whichever program sorts, the array ends up in order and holds what it   *)
(* held; merge sort unless INT_MAX occurs twice, qsort unless a difference *)
(* overflows.                                                              *)
SortsIntoOrder ==
  /\ program = "heap-sort" => HS!Sorts
  /\ program = "merge-sort" => MS!Sorts
  /\ program = "quick-sort" => QS!Sorts
  /\ program = "clib-qsort" => CQ!Sorts

(* quick-sort.c comes to its end when all elements are different, although *)
(* a call may hand the whole of its range to the next one.                 *)
QuickSortEnds == program = "quick-sort" /\ QS!Different => <>(todo = <<>>)

(* Both cut-rod programs print the most money there is for the rod, and    *)
(* keep no wrong profit on the way.                                        *)
RodsOptimal == program = "cut-rod" => CR!Optimal

(* The uthash programs lose no node, use none after free, and leave none   *)
(* behind.                                                                 *)
TableHoldsLive == UT!HoldsLive

(* The uthash programs find a key exactly as long as it is in the table.   *)
FindsWhatIsThere == UT!FindsWhatIsThere

(* The handlers of kprobe-scsi.c run only while their module, its data and *)
(* its file are there, unless an earlier load failed half way.             *)
ProbeHasCode == SP!ProbeHasCode

(* check_scsi_data reports a difference if and only if the data are wrong, *)
(* of the sectors of sda that follow one another in the file, once it has  *)
(* been read in full. Not of the disk "sdaa", which it takes for sda, and  *)
(* not of a command that leaves the file or goes on elsewhere in it: there *)
(* it reports data that are right.                                         *)
ReportsOnlyWrongData == SP!ReportsOnlyWrongData
=============================================================================
