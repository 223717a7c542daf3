------------------------------ MODULE Startup ------------------------------
(***************************************************************************)
(* The server from its first listener to its end (src/src/main.rs and the  *)
(* accept loops of src/src/server.rs).  main binds the listeners one after *)
(* the other and starts serving each as soon as it is bound; a listener    *)
(* that cannot be bound ends main, and with it the runtime and every task. *)
(***************************************************************************)
EXTENDS CrushServer

CONSTANT Listeners      \* the protocols with an address, in the order of main

ASSUME ListenersAssumption ==
    /\ Listeners \in Seq({"pg", "mysql", "redis"})
    /\ Listeners # <<>> /\ Listeners[1] = "pg"

VARIABLES
    main,       \* "binding", "serving", or "ended" once main has returned
    next,       \* the listener of Listeners that main binds next
    open        \* the protocols with an accept loop

startupVars == <<main, next, open>>
allVars == <<vars, startupVars>>

StartupInit ==
    /\ Init
    /\ main = "binding"
    /\ next = 1
    /\ open = {}

\* Mutant: a listener that cannot be bound is skipped.
MutBindSkips ==
    /\ main = "binding"
    /\ open' \in {open, open \cup {Listeners[next]}}
    /\ next' = next + 1
    /\ main' = IF next = Len(Listeners) THEN "serving" ELSE "binding"
    /\ UNCHANGED vars

\* TcpListener::bind, then tokio::spawn(server::run(..)); its error leaves main.
Bind ==
    /\ main = "binding"
    /\ \/ /\ open' = open \cup {Listeners[next]}
          /\ next' = next + 1
          /\ main' = IF next = Len(Listeners) THEN "serving" ELSE "binding"
       \/ /\ main' = "ended"
          /\ UNCHANGED <<next, open>>
    /\ UNCHANGED vars

\* Dropping the runtime drops its tasks one at a time, wherever they wait: an
\* accept loop with its listener, a connection with its socket and its permit.
DropLoop(p) ==
    /\ main = "ended" /\ p \in open
    /\ open' = open \ {p}
    /\ UNCHANGED <<vars, main, next>>

DropTask(c) ==
    /\ main = "ended" /\ pc[c] # "closed"
    /\ Close(c)
    /\ UNCHANGED startupVars

\* Connections live as in CrushServer, but only an accept loop opens them.
Serve(c) ==
    /\ Run(c) \/ Peer(c)
    /\ pc[c] = "closed" => Proto[c] \in open
    /\ UNCHANGED startupVars

\* The process has exited.
Gone ==
    /\ main = "ended" /\ open = {} /\ \A c \in Conns : pc[c] = "closed"
    /\ UNCHANGED allVars

StartupNext ==
    \/ Bind \/ Gone
    \/ \E p \in open : DropLoop(p)
    \/ \E c \in Conns : DropTask(c) \/ Serve(c)

StartupSpec == StartupInit /\ [][StartupNext]_allVars

\* main is polled, and the drop of the runtime goes on until nothing is left.
FairStartup ==
    /\ StartupSpec
    /\ WF_allVars(Bind)
    /\ \A p \in {"pg", "mysql", "redis"} : WF_allVars(DropLoop(p))
    /\ \A c \in Conns : WF_allVars(DropTask(c))
----------------------------------------------------------------------------
StartupTypeOK ==
    /\ TypeOK
    /\ main \in {"binding", "serving", "ended"}
    /\ next \in 1 .. Len(Listeners) + 1
    /\ open \subseteq {Listeners[i] : i \in DOMAIN Listeners}

\* Clients are served before the last listener is bound; if it then cannot be
\* bound they are all dropped, streams included, and no listener is left
\* behind: in the end the server serves every protocol it was asked to serve,
\* or nothing (the ? of TcpListener::bind in main).
AllOrNothing ==
    \/ <>[](main = "serving" /\ open = {Listeners[i] : i \in DOMAIN Listeners})
    \/ <>[](open = {} /\ slots = Permits /\ \A c \in Conns : pc[c] = "closed")
=============================================================================
