--------------------------- MODULE OneShotFuture ---------------------------
(***************************************************************************)
(* What a future promises: it is resolved once, by one of its producers,   *)
(* and every party that gets or awaits it is given that producer's value,  *)
(* after the resolution and once.                                          *)
(***************************************************************************)
CONSTANTS Producer, Party, None

VARIABLES
    value,  \* None, or the producer that resolved the future
    got     \* what each party was given so far

Init ==
    /\ value = None
    /\ got = [t \in Party |-> None]

Resolve(r) ==
    /\ value = None
    /\ value' = r
    /\ UNCHANGED got

Deliver(t) ==
    /\ value # None
    /\ got[t] = None
    /\ got' = [got EXCEPT ![t] = value]
    /\ UNCHANGED value

Next ==
    \/ \E r \in Producer : Resolve(r)
    \/ \E t \in Party : Deliver(t)

Spec == Init /\ [][Next]_<<value, got>>
=============================================================================
