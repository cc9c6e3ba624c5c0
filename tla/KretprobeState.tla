--------------------------- MODULE KretprobeState ---------------------------
(* The parameters and the state of Kretprobe, and what it promises.        *)
EXTENDS Naturals, FiniteSets

CONSTANTS
  Thread,          \* that call the function
  Kernel,          \* those of them that have no mm
  Instance,        \* as many as maxactive
  MaxClock,        \* bound on ktime_get()
  MaxMissed,       \* bound on nmissed
  None

ASSUME KretprobeAssumption ==
  /\ Kernel \subseteq Thread
  /\ IsFiniteSet(Instance)
  /\ MaxClock \in Nat
  /\ MaxMissed \in Nat \ {0}
  /\ None \notin Instance

VARIABLES
  loaded,
  clock,
  since,       \* since[t]: when t entered the function it is in
  holds,       \* holds[t]: the instance of the call t is in, or None
  entry_stamp, \* of each instance
  nmissed,
  untimed,     \* the calls that were entered since the load, need an instance
               \* and got none
  printed      \* the last delta printed, and the time the call took

retVars == <<loaded, clock, since, holds, entry_stamp, nmissed, untimed, printed>>

(* What is printed is the time of that very call, however calls overlap    *)
(* and instances are used again; kernel threads are never timed and take   *)
(* no instance from others; and nmissed, printed at the end, tells whether *)
(* maxactive was too low (kretprobe_example.c:123).                        *)
TimesOwnCall ==
  /\ printed[1] = printed[2]
  /\ \A t \in Kernel : holds[t] = None
  /\ untimed # {} => nmissed > 0
=============================================================================
