--------------------------- MODULE MCConnections ---------------------------
(* Instances of Connections for TLC. *)
EXTENDS Connections

CONSTANTS c1, c2, c3

Conns == {c1, c2, c3}
Fds == {7, 8}
Loops == {0, 1}

\* A server that runs; one with as many clients as descriptors and more; one that
\* is shut down in good order; one that is shut down whatever goes on.
Running == [clients |-> {c1, c2}, fds |-> Fds, loops |-> 2,
            slow |-> FALSE, fails |-> TRUE, idles |-> TRUE,
            stops |-> FALSE, prompt |-> FALSE, quiet |-> FALSE]
Crowded == [Running EXCEPT !.clients = Conns, !.fds = {7}, !.loops = 1,
                           !.slow = TRUE, !.idles = FALSE]
Orderly == [Running EXCEPT !.loops = 1,
                           !.stops = TRUE, !.prompt = TRUE, !.quiet = TRUE]
Hasty == [Running EXCEPT !.fds = {7}, !.loops = 1, !.slow = TRUE, !.idles = FALSE,
                         !.stops = TRUE]
All == {Running, Crowded, Orderly, Hasty}

Lasting == {[Running EXCEPT !.clients = Conns, !.fails = FALSE, !.idles = FALSE]}
=============================================================================
