---------------------------- MODULE DuelContract ----------------------------
(***************************************************************************)
(* What a 1v1 duel promises, with no transaction, row or socket in sight:  *)
(* who plays, who has handed in, and when the duel is decided.             *)
(***************************************************************************)
CONSTANTS
    People,    \* who may play
    Owner      \* who opens the duel

VARIABLES
    phase,     \* "none", "open", "live", "void" or "decided"
    players,   \* who has a place in the duel
    done       \* who has handed in

contract == <<phase, players, done>>

Init == phase = "none" /\ players = {} /\ done = {}

Open ==
    /\ phase = "none"
    /\ phase' = "open"
    /\ players' = {Owner}
    /\ UNCHANGED done

Enter(p) ==
    /\ phase = "open"
    /\ p # Owner
    /\ players = {Owner}
    /\ players' = players \cup {p}
    /\ UNCHANGED <<phase, done>>

Leave(p) ==
    /\ phase = "open"
    /\ p \in players \ {Owner}
    /\ players' = players \ {p}
    /\ UNCHANGED <<phase, done>>

Begin ==
    /\ phase = "open"
    /\ players # {Owner}
    /\ phase' = "live"
    /\ UNCHANGED <<players, done>>

Void ==
    /\ phase \in {"open", "live"}
    /\ phase' = "void"
    /\ UNCHANGED <<players, done>>

(***************************************************************************)
(* Handing in.  A hand-in that was under way when the duel was called off  *)
(* still counts; it may even be the last one, and decide the duel.         *)
(***************************************************************************)
HandIn(p) ==
    /\ phase \in {"live", "void"}
    /\ p \in players \ done
    /\ done' = done \cup {p}
    /\ UNCHANGED <<phase, players>>

Decide(p) ==
    /\ phase \in {"live", "void"}
    /\ p \in players
    /\ players \subseteq done \cup {p}
    /\ done' = done \cup {p}
    /\ phase' = "decided"
    /\ UNCHANGED players

Next ==
    \/ Open \/ Begin \/ Void
    \/ \E p \in People : Enter(p) \/ Leave(p) \/ HandIn(p) \/ Decide(p)

Spec == Init /\ [][Next]_contract
=============================================================================
