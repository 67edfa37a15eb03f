----------------------------- MODULE MCTlvRead -----------------------------
EXTENDS TlvRead

CONSTANTS A, B

MCPages == {A, B}

\* One page takes up to three packets, the other one or two.
Short(n) == UNION {[1..k -> 0..n] : k \in 1..2}
MCLayouts == {[p \in MCPages |-> IF p = A THEN a ELSE b] :
                a \in Short(3), b \in {<<1>>, <<2, 1>>}}
=============================================================================
