------------------------------ MODULE ByteQueue ------------------------------
(***************************************************************************)
(* What Buffer promises: a byte queue each.  Bytes are added at the end,   *)
(* taken from the front, moved from one queue to the end of another in     *)
(* their order, or all dropped.                                            *)
(***************************************************************************)
EXTENDS Naturals, Sequences

CONSTANT Buffers

VARIABLE bytes    \* what each queue holds

Init == bytes = [b \in Buffers |-> <<>>]

\* bytes that are added stand behind those that were there
Add(b) ==
    /\ Len(bytes'[b]) >= Len(bytes[b])
    /\ SubSeq(bytes'[b], 1, Len(bytes[b])) = bytes[b]
    /\ \A other \in Buffers \ {b} : bytes'[other] = bytes[other]

Take(b, n) == bytes' = [bytes EXCEPT ![b] = SubSeq(@, n + 1, Len(@))]

Move(to, from) == bytes' = [bytes EXCEPT ![to] = @ \o bytes[from], ![from] = <<>>]

Next == \/ \E b \in Buffers : Add(b)
        \/ \E b \in Buffers : \E n \in 0..Len(bytes[b]) : Take(b, n)
        \/ \E to, from \in Buffers : Move(to, from)

Spec == Init /\ [][Next]_bytes
=============================================================================
