------------------------------ MODULE Account ------------------------------
(***************************************************************************)
(* What a compiled contract promises to those who send messages to it: it  *)
(* is constructed once; from then on its value changes by one call at a    *)
(* time; a call of a view or pure function leaves the value alone; an      *)
(* external message is applied at most once; and while a call waits for an *)
(* answer nothing else is applied.                                         *)
(***************************************************************************)
CONSTANTS ExtMsgs, Values

VARIABLES live,     \* the constructor has run
          value,    \* the state variables
          waiting,  \* a call waits for an answer
          applied   \* external messages that had an effect

vars == <<live, value, waiting, applied>>

Init == /\ live = FALSE
        /\ value \in Values
        /\ waiting = FALSE
        /\ applied = {}

ReadOnly(m) == m.fn \in {"view", "pure", "getter"}

\* An external message is applied; the constructor is a message of its own.
Construct(m) == /\ ~live /\ m.fn = "constructor" /\ m \notin applied
                /\ live' = TRUE /\ value' \in Values /\ waiting' \in BOOLEAN
                /\ applied' = applied \cup {m}
Apply(m) == /\ live /\ ~waiting /\ m.fn # "constructor" /\ m \notin applied
            /\ value' \in (IF ReadOnly(m) THEN {value} ELSE Values)
            /\ waiting' \in BOOLEAN
            /\ applied' = applied \cup {m} /\ UNCHANGED live
\* Another contract, or the network itself, calls; an answer continues the call that waits.
Created == /\ ~live /\ live' = TRUE /\ value' \in Values /\ waiting' \in BOOLEAN /\ UNCHANGED applied
Called == /\ live
          /\ value' \in Values /\ waiting' \in BOOLEAN
          /\ UNCHANGED <<live, applied>>

Next == (\E m \in ExtMsgs : Construct(m) \/ Apply(m)) \/ Created \/ Called
Spec == Init /\ [][Next]_vars
=============================================================================
