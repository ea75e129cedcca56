-------------------------------- MODULE MCSump --------------------------------
(* The registry and the load statistics of sump for model checking.  They  *)
(* share no state: part names the one that moves, the other keeps one of   *)
(* its initial states.                                                     *)
EXTENDS MCSumpRegistry, SumpBalance

VARIABLE part

sumpVars == <<part, vars, balanceVars>>

SumpInit ==
    /\ part \in {"registry", "balance"}
    /\ Init /\ BalanceInit
    /\ part = "balance" \/ policy = CHOOSE p \in Policies : TRUE

SumpNext ==
    \/ part = "registry" /\ Next /\ UNCHANGED <<part, balanceVars>>
    \/ part = "balance" /\ BalanceNext /\ UNCHANGED <<part, vars>>

SumpSpec == SumpInit /\ [][SumpNext]_sumpVars

(* The types of both parts, explained in their modules. *)
SumpTypeOK == TypeOK /\ BalanceTypeOK
===============================================================================
