------------------------------ MODULE AtMostOnce ------------------------------
(***************************************************************************)
(* What the durable service promises of each governed operation, whatever    *)
(* the number of workers, crashes and store failures: it is performed at     *)
(* most once, its decision request gets at most one final answer, and the    *)
(* answer does not lie about it.                                             *)
(***************************************************************************)
EXTENDS Naturals

CONSTANTS
    Operations,
    Undecided    \* no final answer yet

VARIABLES
    runs,        \* runs[o]: how often o was performed
    verdict      \* verdict[o]: the final answer to the request for o

vars == <<runs, verdict>>

Verdicts == {"executed", "refused", "escalated", "uncertain"}

AtMostOnceInit ==
    /\ runs = [o \in Operations |-> 0]
    /\ verdict = [o \in Operations |-> Undecided]

\* Only an operation that is not decided, or that awaits its approvers, starts.
Run(o) ==
    /\ runs[o] = 0
    /\ verdict[o] \in {Undecided, "escalated"}
    /\ runs' = [runs EXCEPT ![o] = 1]
    /\ UNCHANGED verdict

Decide(o, v) ==
    /\ verdict[o] = Undecided
    /\ v = "executed" => runs[o] = 1
    /\ v = "refused" => runs[o] = 0
    /\ verdict' = [verdict EXCEPT ![o] = v]
    /\ UNCHANGED runs

AtMostOnceNext ==
    \E o \in Operations : Run(o) \/ \E v \in Verdicts : Decide(o, v)

AtMostOnceSpec == AtMostOnceInit /\ [][AtMostOnceNext]_vars
=============================================================================
