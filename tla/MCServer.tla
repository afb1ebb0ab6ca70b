------------------------------ MODULE MCServer ------------------------------
(* The payments side of the server on small instances: payments under      *)
(* fairness, the life of the process, and Bakong's answers.  The three     *)
(* share no variable: a behaviour is of one of them, picked with the       *)
(* initial state, and the others stand still where nothing is due of them. *)
EXTENDS MCPayments, ServerLife, BakongGateway
CONSTANTS q1, q2, c1, c2, w1

VARIABLE part

PaymentsAtRest ==
    /\ now = MaxTime /\ subscription = None /\ failures = 0
    /\ payment = [p \in Payments |-> None] /\ shown = [p \in Payments |-> {}]
    /\ credit = [p \in Payments |-> None] /\ bank = [p \in Payments |-> None]
    /\ checkout = [u \in Users |-> None] /\ check = [c \in Checks |-> None]

MCInit ==
    \/ part = "payments" /\ Init /\ ServerInit /\ GatewayInit /\ ~sandbox
    \/ part = "server" /\ PaymentsAtRest /\ ServerInit /\ GatewayInit /\ ~sandbox
    \/ part = "bakong" /\ PaymentsAtRest /\ ServerInit /\ GatewayInit

MCNext ==
    \/ part = "payments" /\ Next /\ UNCHANGED <<part, serverVars, gatewayVars>>
    \/ part = "server" /\ ServerNext /\ UNCHANGED <<part, vars, gatewayVars>>
    \/ part = "bakong" /\ GatewayNext /\ UNCHANGED <<part, vars, serverVars>>

\* At rest nothing that fairness asks for is enabled.
MCSpec == MCInit /\ [][MCNext]_<<part, vars, serverVars, gatewayVars>>
                 /\ Fairness /\ ServerFairness
=============================================================================
