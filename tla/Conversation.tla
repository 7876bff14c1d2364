---------------------------- MODULE Conversation ----------------------------
(***************************************************************************)
(* What the harness may count on in an agent.Conversation                  *)
(* (golang/internal/agent/conversation.go), whoever is on the other end:   *)
(* a started turn is live until it ends, it ends once, and its completion  *)
(* is told at most once.  A completion may be lost on the way; that is why *)
(* the harness watches the turn as well.                                   *)
(***************************************************************************)

CONSTANT Turn

VARIABLES
  live,     \* turns that may still be steered and interrupted
  owing,    \* turns that ended and whose completion is on its way
  told      \* turns whose completion the harness has read

vars == <<live, owing, told>>

Init == live = {} /\ owing = {} /\ told = {}

\* An identifier is not used twice.
Start(t) ==
  /\ t \notin live \cup owing \cup told
  /\ live' = live \cup {t}
  /\ UNCHANGED <<owing, told>>

End(ts) ==
  /\ ts \subseteq live
  /\ live' = live \ ts
  /\ owing' = owing \cup ts
  /\ UNCHANGED told

Tell(t) ==
  /\ t \in owing
  /\ owing' = owing \ {t}
  /\ told' = told \cup {t}
  /\ UNCHANGED live

Lose(t) ==
  /\ t \in owing
  /\ owing' = owing \ {t}
  /\ UNCHANGED <<live, told>>

Next ==
  \/ \E t \in Turn : Start(t) \/ Tell(t) \/ Lose(t)
  \/ \E ts \in SUBSET live : End(ts)

Spec == Init /\ [][Next]_vars

=============================================================================
