--------------------------- MODULE CommandService ---------------------------
(***************************************************************************)
(* What an EduDevice object promises its program: it takes one command at  *)
(* a time and answers it once, with the reply that is due to it.  Nothing  *)
(* is answered that was not taken, and nothing taken is given up.          *)
(***************************************************************************)
CONSTANTS
    Request,        \* commands
    Reply           \* the reply due to each, a function on Request

VARIABLE outstanding    \* taken and not yet answered

ServiceInit == outstanding = {}

Take(req) ==
    /\ outstanding = {}
    /\ outstanding' = {req}

Answer(reply) ==
    \E req \in outstanding :
        /\ reply = Reply[req]
        /\ outstanding' = outstanding \ {req}

ServiceNext == \E req \in Request : Take(req) \/ Answer(Reply[req])

ServiceSpec == ServiceInit /\ [][ServiceNext]_outstanding
=============================================================================
