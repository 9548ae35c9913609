----------------------------- MODULE MCExWriter -----------------------------
EXTENDS ExWriter

\* A plain file, a sparse one, and a second copy of the first one's name.
MCArchive == << [name |-> "a", at |-> <<0, 1, 2, 3, 4>>],
                [name |-> "b", at |-> <<0, 2, 3>>],
                [name |-> "a", at |-> <<0>>] >>
=============================================================================
