----------------------------- MODULE Kretprobe ------------------------------
(***************************************************************************)
(* kretprobe_example.c, and kretprobe_smb.c, which does the same with      *)
(* another function: the time from each call of a function to its return   *)
(* is printed. The kernel has maxactive instances, gives one to a call     *)
(* that is entered while the probe is planted, and takes it back when the  *)
(* call returns or the entry handler declines it.                          *)
(***************************************************************************)
EXTENDS KretprobeState

Init ==
  /\ loaded = FALSE
  /\ clock = 0
  /\ since = [t \in {} |-> 0]
  /\ holds = [t \in Thread |-> None]
  /\ entry_stamp = [n \in Instance |-> 0]
  /\ nmissed = 0
  /\ untimed = {}
  /\ printed = <<0, 0>>

\* register_kretprobe; when it fails, nothing changes.
Load ==
  /\ ~loaded
  /\ loaded' = TRUE
  /\ entry_stamp' = [n \in Instance |-> 0]
  /\ nmissed' = 0
  /\ untimed' = {}
  /\ UNCHANGED <<clock, since, holds, printed>>

\* unregister_kretprobe: calls that are under way return unseen.
Unload ==
  /\ loaded
  /\ loaded' = FALSE
  /\ holds' = [t \in Thread |-> None]
  /\ UNCHANGED <<clock, since, entry_stamp, nmissed, untimed, printed>>

Tick ==
  /\ clock < MaxClock
  /\ clock' = clock + 1
  /\ UNCHANGED <<loaded, since, holds, entry_stamp, nmissed, untimed, printed>>

Free == Instance \ {holds[t] : t \in Thread}

\* Mutation: one stamp for all instances.
EntryShared(t, n) ==
  IF t \in Kernel
    THEN UNCHANGED <<holds, entry_stamp>>
    ELSE /\ holds' = [holds EXCEPT ![t] = n]
         /\ entry_stamp' = [m \in Instance |-> clock]

\* entry_handler: kernel threads are skipped.
EntryHandler(t, n) ==
  IF t \in Kernel
    THEN UNCHANGED <<holds, entry_stamp>>
    ELSE /\ holds' = [holds EXCEPT ![t] = n]
         /\ entry_stamp' = [entry_stamp EXCEPT ![n] = clock]

Enter(t) ==
  /\ t \notin DOMAIN since
  /\ since' = [u \in DOMAIN since \cup {t} |-> IF u = t THEN clock ELSE since[u]]
  /\ IF ~loaded
       THEN UNCHANGED <<holds, entry_stamp, nmissed, untimed>>
       ELSE IF Free = {}
         THEN /\ nmissed < MaxMissed
              /\ nmissed' = nmissed + 1
              /\ untimed' = untimed \cup ({t} \ Kernel)
              /\ UNCHANGED <<holds, entry_stamp>>
         ELSE /\ \E n \in Free : EntryHandler(t, n)
              /\ UNCHANGED <<nmissed, untimed>>
  /\ UNCHANGED <<loaded, clock, printed>>

\* ret_handler
RetHandler(t) ==
  printed' = <<clock - entry_stamp[holds[t]], clock - since[t]>>

Return(t) ==
  /\ t \in DOMAIN since
  /\ IF holds[t] # None THEN RetHandler(t) ELSE UNCHANGED printed
  /\ holds' = [holds EXCEPT ![t] = None]
  /\ since' = [u \in DOMAIN since \ {t} |-> since[u]]
  /\ UNCHANGED <<loaded, clock, entry_stamp, nmissed, untimed>>

Next ==
  \/ Load \/ Unload \/ Tick
  \/ \E t \in Thread : Enter(t) \/ Return(t)

-----------------------------------------------------------------------------

TypeOK ==
  /\ holds \in [Thread -> Instance \cup {None}]
  /\ DOMAIN since \subseteq Thread
  /\ nmissed \in 0..MaxMissed

(* What makes it inductive: an instance belongs to one call, which is      *)
(* under way, and its stamp is the time that call was entered.             *)
StampOfCall ==
  /\ ~loaded => \A t \in Thread : holds[t] = None
  /\ \A t \in Thread : holds[t] # None =>
       t \in DOMAIN since /\ entry_stamp[holds[t]] = since[t]
  /\ \A t, u \in Thread : holds[t] = holds[u] /\ holds[t] # None => t = u

IInv == TypeOK /\ DOMAIN entry_stamp = Instance /\ TimesOwnCall /\ StampOfCall
=============================================================================
