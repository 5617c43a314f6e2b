----------------------------- MODULE MCUptimeStats -----------------------------
(* Two instances of UptimeStats for TLC, side by side: `overlapping` says which of them a
   behaviour is about; the variables of the other stand still.  The module extended here has
   one recorder and one reader, time passes and the process crashes.  `Overlap` has two
   recorders within a minute, calculators used while they are loaded, statistics cleared. *)
EXTENDS UptimeStats

CONSTANT push

VARIABLES
  overlapping,
  oClock, oList, oHeap, oRows, oBeats, oJob, oClear, oEra, oCrashes, oCounted, oRecent, oFailed

overlapVars == <<oClock, oList, oHeap, oRows, oBeats, oJob, oClear, oEra, oCrashes, oCounted,
                 oRecent, oFailed>>

\* Two minutes, two hours, two days are remembered.
LimitTwo == [g \in Grains |-> 2]

\* Lists with room for a key that they hold twice.
Overlap ==
  INSTANCE UptimeStats WITH
    Recorders <- Recorders \cup {push}, Readers <- {}, Limit <- [g \in Grains |-> 3],
    Hasty <- TRUE, Clearing <- TRUE, MaxClock <- 0, MaxBeats <- 2, MaxCrashes <- 0,
    clock <- oClock, list <- oList, heap <- oHeap, rows <- oRows, beats <- oBeats, job <- oJob,
    clear <- oClear, era <- oEra, crashes <- oCrashes, counted <- oCounted, recent <- oRecent,
    failed <- oFailed

ASSUME InstanceAssumption == StatsAssumption /\ InTurn /\ Overlap!StatsAssumption

MCInit == overlapping \in BOOLEAN /\ Init /\ Overlap!Init

MCNext ==
  /\ UNCHANGED overlapping
  /\ \/ ~overlapping /\ Next /\ UNCHANGED overlapVars
     \/ overlapping /\ Overlap!Next /\ UNCHANGED vars

MCSpec == MCInit /\ [][MCNext]_<<overlapping, vars, overlapVars>>

\* The calculators are interchangeable.
CalcSymmetry == Permutations(Calcs)

-----------------------------------------------------------------------------
\* However calculators, requests and clearing overlap, no heartbeat is counted twice
\* (UptimeStats!NothingCountedTwice).
OverlapCountsOnce == Overlap!NothingCountedTwice
===============================================================================
