---------------------------- MODULE OutputStream ----------------------------
(***************************************************************************)
(* What the output actor promises to its consumers: one growing byte       *)
(* stream, and for every consumer a position that only moves by being told *)
(* the next bytes themselves or, explicitly, that they are lost.  A loss is *)
(* followed by a complete repaint before anything else, and the end of the *)
(* stream is announced only to a consumer that was told all of it.         *)
(***************************************************************************)
EXTENDS Integers

CONSTANT Consumers

VARIABLES produced,  \* bytes of the stream so far
          sealed,    \* no byte will follow
          joined,    \* the consumers that have subscribed
          pos,       \* the stream position a consumer has been told up to
          owing,     \* a repaint of the current screen is still due
          told       \* what a consumer was told last: [what, from, to]

vars == <<produced, sealed, joined, pos, owing, told>>

Told == [what : {"nothing", "bytes", "gap", "repaint", "exit"}, from : Int, to : Int]

Init ==
    /\ produced = 0
    /\ sealed = FALSE
    /\ joined = {}
    /\ pos = [c \in Consumers |-> 0]
    /\ owing = [c \in Consumers |-> FALSE]
    /\ told = [c \in Consumers |-> [what |-> "nothing", from |-> 0, to |-> 0]]

Produce ==
    /\ ~sealed
    /\ produced' \in Nat /\ produced' > produced
    /\ UNCHANGED <<sealed, joined, pos, owing, told>>

Seal ==
    /\ ~sealed
    /\ sealed' = TRUE
    /\ UNCHANGED <<produced, joined, pos, owing, told>>

\* A consumer joins at a position already produced, with or without a repaint.
Join(c) ==
    /\ c \notin joined
    /\ joined' = joined \union {c}
    /\ \E at \in 0..produced : pos' = [pos EXCEPT ![c] = at]
    /\ \E repaint \in BOOLEAN : owing' = [owing EXCEPT ![c] = repaint]
    /\ UNCHANGED <<produced, sealed, told>>

Following(c) == c \in joined /\ told[c].what # "exit"

Tell(c, what, to) ==
    /\ told' = [told EXCEPT ![c] = [what |-> what, from |-> pos[c], to |-> to]]
    /\ pos'  = [pos EXCEPT ![c] = to]
    /\ UNCHANGED <<produced, sealed, joined>>

\* Bytes are the ones at the consumer's position.
TellBytes(c) ==
    /\ Following(c) /\ ~owing[c]
    /\ \E to \in pos[c]..produced : Tell(c, "bytes", to)
    /\ UNCHANGED owing

\* A loss is never empty and always owes a repaint.
TellGap(c) ==
    /\ Following(c)
    /\ \E to \in (pos[c] + 1)..produced : Tell(c, "gap", to)
    /\ owing' = [owing EXCEPT ![c] = TRUE]

TellRepaint(c) ==
    /\ Following(c) /\ owing[c]
    /\ Tell(c, "repaint", pos[c])
    /\ \E more \in BOOLEAN : owing' = [owing EXCEPT ![c] = more]

TellExit(c) ==
    /\ Following(c) /\ ~owing[c]
    /\ sealed /\ pos[c] = produced
    /\ Tell(c, "exit", pos[c])
    /\ UNCHANGED owing

Next ==
    \/ Produce \/ Seal
    \/ \E c \in Consumers :
          Join(c) \/ TellBytes(c) \/ TellGap(c) \/ TellRepaint(c) \/ TellExit(c)

Spec == Init /\ [][Next]_vars
=============================================================================
