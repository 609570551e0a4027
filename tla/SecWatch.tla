------------------------------ MODULE SecWatch -----------------------------
(***************************************************************************)
(* The three things watched at the SEC, as one check looks at them in      *)
(* turn: an investment firm's Form ADV and a company's Form D notices      *)
(* (Forms), and the funds named after a contractor (Funds).  They share no *)
(* row, so a behaviour has one of them as its subject.                     *)
(***************************************************************************)
EXTENDS Forms, Funds

SecInit ==
    /\ Init /\ FundsInit
    /\ subject # "funds" => watch = NoWatch
    /\ subject = "funds" => adv = None

SecNext ==
    \/ Next /\ UNCHANGED fundsVars
    \/ subject = "funds" /\ FundsNext /\ UNCHANGED vars

SecSpec == SecInit /\ [][SecNext]_<<vars, fundsVars>>

\* The rows of all three are well formed.
SecTypeOK == TypeOK /\ FundsTypeOK

=============================================================================
