--------------------------- MODULE CommandDelivery ---------------------------
(***************************************************************************)
(* What the bridge promises of device commands, without its threads: taken *)
(* in order, each one is passed on at once, refused, or made to wait; those*)
(* that wait are passed on strictly in the order they came, each once; and *)
(* only the oldest may be discarded, or the next to it while the oldest is *)
(* being passed on.                                                        *)
(***************************************************************************)
EXTENDS Naturals, Sequences

CONSTANT Cmd

VARIABLES
    taken,      \* how many commands were taken
    waiting,    \* the commands that wait
    trying,     \* the oldest of them is being passed on
    sent, dropped, failed   \* the fates of the others

vars == <<taken, waiting, trying, sent, dropped, failed>>

Init ==
    /\ taken = 0
    /\ waiting = << >> /\ trying = FALSE
    /\ sent = {} /\ dropped = {} /\ failed = {}

Take ==
    /\ taken + 1 \in Cmd
    /\ taken' = taken + 1
    /\ UNCHANGED <<waiting, trying, sent, dropped, failed>>

\* The command just taken, of which nothing has become yet.
New(c) ==
    /\ c = taken
    /\ c \notin sent \cup dropped \cup failed
    /\ \A i \in 1..Len(waiting) : waiting[i] # c

PassOn(c) ==
    /\ New(c)
    /\ sent' = sent \cup {c}
    /\ UNCHANGED <<taken, waiting, trying, dropped, failed>>

Refuse(c) ==
    /\ New(c)
    /\ failed' = failed \cup {c}
    /\ UNCHANGED <<taken, waiting, trying, sent, dropped>>

Wait(c) ==
    /\ New(c)
    /\ waiting' = Append(waiting, c)
    /\ UNCHANGED <<taken, trying, sent, dropped, failed>>

\* The oldest waiting command is tried; it is passed on, or waits on.
Try ==
    /\ ~trying /\ waiting # << >>
    /\ trying' = TRUE
    /\ UNCHANGED <<taken, waiting, sent, dropped, failed>>

Deliver ==
    /\ trying
    /\ trying' = FALSE
    /\ sent' = sent \cup {Head(waiting)}
    /\ waiting' = Tail(waiting)
    /\ UNCHANGED <<taken, dropped, failed>>

GiveUp ==
    /\ trying
    /\ trying' = FALSE
    /\ UNCHANGED <<taken, waiting, sent, dropped, failed>>

Discard ==
    LET i == IF trying THEN 2 ELSE 1
    IN  /\ i <= Len(waiting)
        /\ dropped' = dropped \cup {waiting[i]}
        /\ waiting' = [j \in 1 .. Len(waiting) - 1 |-> waiting[IF j < i THEN j ELSE j + 1]]
        /\ UNCHANGED <<taken, trying, sent, failed>>

Next ==
    \/ Take \/ Try \/ Deliver \/ GiveUp \/ Discard
    \/ \E c \in Cmd : PassOn(c) \/ Refuse(c) \/ Wait(c)

Spec == Init /\ [][Next]_vars
=============================================================================
