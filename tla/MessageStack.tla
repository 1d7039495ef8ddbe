---------------------------- MODULE MessageStack ----------------------------
(***************************************************************************)
(* What the SD card store promises to the card task: a last-in first-out   *)
(* stack of messages that survives power loss.  stack_utils.h states it as *)
(* "stack data structure in a FAT filesystem for storing data on an SD     *)
(* card, while outgoing connection is unavailable".                        *)
(*                                                                         *)
(* The store never invents a message, but once it is empty a pop may still *)
(* hand out a Blank record: after a power loss the code's depth counter    *)
(* over-counts (see FileStack).  PopBlank says that this is the only       *)
(* liberty it takes: never while a real message is stored.                 *)
(***************************************************************************)
EXTENDS Sequences, Naturals

CONSTANTS Record,   \* the messages that can be stored
          Blank     \* the all-zero record

VARIABLES stack,    \* the stored messages, oldest first
          popped    \* what the last pop returned

vars == <<stack, popped>>

Init == stack = <<>> /\ popped = <<>>

Push(r) == /\ stack' = Append(stack, r)
           /\ UNCHANGED popped

Pop == /\ stack # <<>>
       /\ popped' = stack[Len(stack)]
       /\ stack' = SubSeq(stack, 1, Len(stack) - 1)

PopBlank == /\ stack = <<>>
            /\ popped' = Blank
            /\ UNCHANGED stack

Next == (\E r \in Record : Push(r)) \/ Pop \/ PopBlank

Spec == Init /\ [][Next]_vars
=============================================================================
