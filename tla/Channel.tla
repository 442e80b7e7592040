------------------------------- MODULE Channel -------------------------------
(***************************************************************************)
(* What a control, request or data stream promises, whatever the transport *)
(* does with its bytes: what was sent comes out in order, nothing else     *)
(* does, and an end that is reported as clean comes after all of it.       *)
(***************************************************************************)
EXTENDS Sequences, Naturals

VARIABLES
    sent,    \* what the sender has put in, in order
    taken,   \* what the receiver has taken out
    ended    \* "open", "clean" or "broken"

vars == <<sent, taken, ended>>

Init == sent = <<>> /\ taken = <<>> /\ ended = "open"

Send ==
    /\ sent' # <<>>
    /\ sent' = Append(sent, sent'[Len(sent')])
    /\ UNCHANGED <<taken, ended>>

Take ==
    /\ ended = "open"
    /\ Len(taken) < Len(sent)
    /\ taken' = Append(taken, sent[Len(taken) + 1])
    /\ UNCHANGED <<sent, ended>>

Finish ==
    /\ ended = "open"
    /\ taken = sent
    /\ ended' = "clean"
    /\ UNCHANGED <<sent, taken>>

Break ==
    /\ ended = "open"
    /\ ended' = "broken"
    /\ UNCHANGED <<sent, taken>>

Next == Send \/ Take \/ Finish \/ Break

Spec == Init /\ [][Next]_vars
=============================================================================
