------------------------------ MODULE MCDpcPort ------------------------------
\* A command port over a few units of memory, DMEM smaller than RDRAM.
EXTENDS DpcPort

SmallLimit == [src \in Source |-> IF src = "Rdram" THEN 2 ELSE 1]
Either == BOOLEAN
=============================================================================
