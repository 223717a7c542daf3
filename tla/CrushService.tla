---------------------------- MODULE CrushService ----------------------------
(***************************************************************************)
(* What the server promises, with no sockets, buffers, chunks or           *)
(* semaphore: every connection answers one command at a time, statement by *)
(* statement and in order; a statement that is unsafe is crushed unless    *)
(* Permits other connections are being crushed, and only then; nothing     *)
(* else is ever crushed; and a connection may be dropped at any time.      *)
(* CrushServer is the detailed specification that implements this one.     *)
(***************************************************************************)
EXTENDS Naturals, Sequences, FiniteSets

CONSTANTS
    Conns,                \* connections
    Stmts,                \* statements a client may send
    Permits,              \* crush streams allowed at the same time
    MaxRows,              \* rows of a complete crush stream
    Commands,             \* Commands[c]: what c may send, sequences of statements
    MustCrush,            \* the statements that are crushed whenever a slot is free
    RowCounts,            \* RowCounts[s]: the row counts an ordinary answer to s may have
    Injected              \* the answers that a fault may put in place of a command's

VARIABLES
    session,    \* session[c]: "closed", "ready" or "busy"
    todo,       \* todo[c]: the statements of the current command not yet answered
    answers,    \* answers[c]: the answers already produced for the current command
    crushing    \* the connections that are being crushed

vars == <<session, todo, answers, crushing>>

Init ==
    /\ session = [c \in Conns |-> "closed"]
    /\ todo = [c \in Conns |-> <<>>]
    /\ answers = [c \in Conns |-> <<>>]
    /\ crushing = {}

Open(c) ==
    /\ session[c] = "closed"
    /\ session' = [session EXCEPT ![c] = "ready"]
    /\ UNCHANGED <<todo, answers, crushing>>

Take(c) ==
    /\ session[c] = "ready"
    /\ \E cmd \in Commands[c] :
          todo' = [todo EXCEPT ![c] = cmd]
    /\ session' = [session EXCEPT ![c] = "busy"]
    /\ answers' = [answers EXCEPT ![c] = <<>>]
    /\ UNCHANGED crushing

\* The next statement of c is consumed and answered with rows rows.
Answered(c, kind, rows) ==
    /\ answers' = [answers EXCEPT ![c] =
                      Append(@, [stmt |-> Head(todo[c]), kind |-> kind, rows |-> rows])]
    /\ todo' = [todo EXCEPT ![c] = Tail(@)]
    /\ UNCHANGED session

BeginCrush(c) ==
    /\ session[c] = "busy" /\ todo[c] # <<>> /\ c \notin crushing
    /\ Head(todo[c]) \in MustCrush
    /\ Cardinality(crushing) < Permits
    /\ crushing' = crushing \cup {c}
    /\ UNCHANGED <<session, todo, answers>>

EndCrush(c) ==
    /\ c \in crushing
    /\ Answered(c, "crush", MaxRows)
    /\ crushing' = crushing \ {c}

AnswerPlainly(c) ==
    /\ session[c] = "busy" /\ todo[c] # <<>> /\ c \notin crushing
    /\ \E rows \in RowCounts[Head(todo[c])] :
          \/ /\ Head(todo[c]) \notin MustCrush
             /\ Answered(c, "ordinary", rows)
          \/ /\ Head(todo[c]) \in MustCrush
             /\ Cardinality(crushing) = Permits
             /\ Answered(c, "capacity", rows)
    /\ UNCHANGED crushing

\* An injected fault replaces the answer to the whole command.
Fault(c) ==
    /\ session[c] = "busy" /\ answers[c] = <<>> /\ c \notin crushing
    /\ todo' = [todo EXCEPT ![c] = <<>>]
    /\ \E error \in Injected :
          answers' = [answers EXCEPT ![c] = <<error>>]
    /\ UNCHANGED <<session, crushing>>

Deliver(c) ==
    /\ session[c] = "busy" /\ todo[c] = <<>>
    /\ session' = [session EXCEPT ![c] = "ready"]
    /\ UNCHANGED <<todo, answers, crushing>>

Drop(c) ==
    /\ session[c] # "closed"
    /\ session' = [session EXCEPT ![c] = "closed"]
    /\ todo' = [todo EXCEPT ![c] = <<>>]
    /\ answers' = [answers EXCEPT ![c] = <<>>]
    /\ crushing' = crushing \ {c}

Next ==
    \E c \in Conns :
        \/ Open(c) \/ Take(c)
        \/ BeginCrush(c) \/ EndCrush(c) \/ AnswerPlainly(c) \/ Fault(c)
        \/ Deliver(c) \/ Drop(c)

Spec == Init /\ [][Next]_vars
=============================================================================
