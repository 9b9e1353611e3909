---------------------------- MODULE MCResponder ----------------------------
EXTENDS Responder

\* The routes of tests/socket.c (two dynamic, two static), and one more entry
\* for a path that is already taken.
MCRoutes == <<
    [path |-> "/fib", method |-> {"GET"}, filepath |-> NoFile],
    [path |-> "/simple/fib", method |-> {"GET"}, filepath |-> "fib.html"],
    [path |-> "/gccpic", method |-> {"GET"}, filepath |-> "gccegg-65.png"],
    [path |-> "/fib", method |-> {"GET", "POST"}, filepath |-> NoFile] >>

MCFileSz == [f \in {"fib.html", "gccegg-65.png"} |-> IF f = "fib.html" THEN 2 ELSE 3]
=============================================================================
