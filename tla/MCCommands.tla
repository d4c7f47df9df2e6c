----------------------------- MODULE MCCommands -----------------------------
(***************************************************************************)
(* The commands of the command line that change something outside the     *)
(* process: wallet withdraw (Withdraw), against the chain, and init and    *)
(* config generate (Setup), against the files.  The two touch nothing in   *)
(* common, so command says which of them is given; the other stays as it   *)
(* begins.                                                                 *)
(***************************************************************************)
EXTENDS Withdraw, Setup

VARIABLE command

MCInit ==
  /\ command \in {"withdraw", "setup"}
  /\ WithdrawInit /\ SetupInit
  /\ command = "setup" => src = [status |-> "active", balance |-> 1, lt |-> 1, seqno |-> 0]

MCNext ==
  \/ command = "withdraw" /\ WithdrawNext /\ UNCHANGED <<command, setupVars>>
  \/ command = "setup" /\ SetupNext /\ UNCHANGED <<command, withdrawVars>>

MCSpec == MCInit /\ [][MCNext]_<<command, withdrawVars, setupVars>> /\ WithdrawFairness
=============================================================================
