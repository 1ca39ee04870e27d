------------------------------ MODULE Broadcast ------------------------------
(***************************************************************************)
(* What the tensor-parallel control channel promises: rank 0 announces     *)
(* calls one at a time and every worker executes each of them exactly      *)
(* once, in the order of the announcements.  There is no shared memory and *)
(* no event here.  Module TPChannel is shown to implement it.              *)
(***************************************************************************)
EXTENDS Integers, Sequences

CONSTANTS
    Workers,    \* the ranks above 0
    Calls       \* method names with their arguments

VARIABLES
    log,        \* the calls announced so far
    executed    \* executed[w]: the calls worker w has executed

bcVars == <<log, executed>>

BcInit ==
    /\ log = <<>>
    /\ executed = [w \in Workers |-> <<>>]

Announce(c) ==
    \* No worker is still behind: only one call is outstanding.
    /\ \A w \in Workers : Len(executed[w]) = Len(log)
    /\ log' = Append(log, c)
    /\ UNCHANGED executed

Execute(w) ==
    /\ Len(executed[w]) < Len(log)
    /\ executed' = [executed EXCEPT ![w] = Append(@, log[Len(@) + 1])]
    /\ UNCHANGED log

BcNext ==
    \/ \E c \in Calls : Announce(c)
    \/ \E w \in Workers : Execute(w)

BcSpec == BcInit /\ [][BcNext]_bcVars
=============================================================================
