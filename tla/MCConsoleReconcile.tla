------------------------- MODULE MCConsoleReconcile -------------------------
\* Instances of ConsoleReconcile for TLC.
EXTENDS ConsoleReconcile, TLC

CONSTANTS c1, c2

NewSpec(conn, inline, network) ==
    [conn |-> conn, inline |-> inline, network |-> network, bare |-> FALSE, restart |-> FALSE,
     rev |-> [p \in Parts |-> 0]]

New(s, named) == [spec |-> s, was |-> NoSpec, taken |-> named]
Deployed(s, was) == [spec |-> s, was |-> was, taken |-> FALSE]

\* A new console with a local database and a password, a new one with a remote database, one
\* whose spec is not valid and one whose name is in use.
Fresh == New(NewSpec(Default, TRUE, TRUE), FALSE)
FreshRemote == New(NewSpec(Remote, FALSE, TRUE), FALSE)
Invalid == New(NewSpec(Remote, FALSE, FALSE), FALSE)
Named == New(NewSpec(Remote, FALSE, TRUE), TRUE)

\* Deployed consoles, with a local and with a remote database; one that has just been asked to
\* restart, one whose configuration has just been edited and one for which both is the case.
OnLocal == NewSpec(1, FALSE, TRUE)
OnRemote == NewSpec(Remote, FALSE, TRUE)
LocalDB == Deployed(OnLocal, OnLocal)
RemoteDB == Deployed(OnRemote, OnRemote)
Asked == Deployed([OnRemote EXCEPT !.restart = TRUE], OnRemote)
Edited == Deployed(Revise(OnLocal, {"deployer", "console"}), OnLocal)
Both == Deployed([Revise(OnRemote, {"deployer", "console"}) EXCEPT !.restart = TRUE], OnRemote)

MCStarts ==
    {[con |-> c1 :> Fresh, events |-> 1],
     [con |-> c1 :> Invalid, events |-> 2],
     [con |-> c1 :> Named, events |-> 1],
     [con |-> c1 :> LocalDB, events |-> 2],
     [con |-> c1 :> Both, events |-> 1],
     [con |-> c1 :> LocalDB @@ c2 :> RemoteDB, events |-> 1],
     [con |-> c1 :> FreshRemote @@ c2 :> Asked, events |-> 0],
     [con |-> c1 :> Invalid @@ c2 :> Asked, events |-> 0],
     [con |-> c1 :> Edited @@ c2 :> Asked, events |-> 0]}
=============================================================================
