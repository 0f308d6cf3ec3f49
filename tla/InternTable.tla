---------------------------- MODULE InternTable ----------------------------
(***************************************************************************)
(* What the lookup tables of the dex IR promise to Builder and Reader: a   *)
(* string, prototype or method that was entered is found from then on, and *)
(* nothing else is.  HashTable implements this.                            *)
(***************************************************************************)
CONSTANT Key

VARIABLES
    interned,   \* what has been entered
    found       \* the answer of the last lookup

internVars == << interned, found >>

InternInit == interned = {} /\ found = FALSE

\* FindAsciiString, FindPrototype, FindMethod.
Look(k) ==
    /\ found' = (k \in interned)
    /\ UNCHANGED interned

\* GetAsciiString: look first, enter what was not found.
LookAndEnter(k) ==
    /\ found' = (k \in interned)
    /\ interned' = interned \cup {k}

InternNext == \E k \in Key : Look(k) \/ LookAndEnter(k)

InternSpec == InternInit /\ [][InternNext]_internVars
=============================================================================
