------------------------------- MODULE Relay -------------------------------
(***************************************************************************)
(* What the MQTT task promises to those who fill OutQueue: the packets are *)
(* taken one after the other, and each is written out, once for every      *)
(* topic it is meant for, before the next one is taken.                    *)
(***************************************************************************)
EXTENDS Naturals, Sequences

CONSTANT MaxPackets

VARIABLES
    current,    \* the number of the packet being written out
    todo,       \* the topics it has still to be written to
    written     \* what has been written out: <<packet number, topic>>

vars == <<current, todo, written>>

Init == current = 0 /\ todo = {} /\ written = <<>>

Take ==
    /\ todo = {}
    /\ current < MaxPackets
    /\ current' = current + 1
    /\ todo' \in {{"main"}, {"main", "gps"}}
    /\ UNCHANGED written

Write(t) ==
    /\ t \in todo
    /\ todo' = todo \ {t}
    /\ written' = Append(written, <<current, t>>)
    /\ UNCHANGED current

Next == Take \/ \E t \in {"main", "gps"} : Write(t)

Spec == Init /\ [][Next]_vars
=============================================================================
