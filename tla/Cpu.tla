-------------------------------- MODULE Cpu --------------------------------
(***************************************************************************)
(* What the process core promises to the code that blocks and wakes: one   *)
(* CPU, a set of runnable processes, and a current process.  Which         *)
(* runnable process is chosen next is left open, so that what is built on  *)
(* this machine holds for every scheduling policy.                         *)
(***************************************************************************)
CONSTANTS Proc, Boot

VARIABLES runnable, current

cpuVars == <<runnable, current>>

CpuInit == runnable = {Boot} /\ current = Boot

\* One step of the kernel: some processes become runnable; the current process,
\* and no other, may stop being runnable; the CPU stays where it is or goes to
\* a process that is runnable once the step is over.
CpuStep ==
    \E woken \in SUBSET Proc, stops \in SUBSET {current} :
        /\ runnable' = (runnable \ stops) \union woken
        /\ \/ current' = current
           \/ current' \in runnable'

CpuSpec == CpuInit /\ [][CpuStep]_cpuVars
=============================================================================
