----------------------------- MODULE FreshReads -----------------------------
(***************************************************************************)
(* What the dashboard endpoints promise, with no cache in sight: a read    *)
(* shows some state of the database that includes every write answered     *)
(* before the read began.  Which of the writes still under way it shows is *)
(* left open.  DashboardCache implements this.                             *)
(***************************************************************************)
EXTENDS FiniteSets

CONSTANTS Writes, Readers

VARIABLES
  committed,   \* the writes in the database
  acked,       \* those answered to their clients
  phase,       \* of a reader: "idle", "reading", "answered"
  must,        \* what the read has to show
  seen         \* what it showed

vars == <<committed, acked, phase, must, seen>>

Init ==
  /\ committed = {} /\ acked = {}
  /\ phase = [r \in Readers |-> "idle"]
  /\ must = [r \in Readers |-> {}]
  /\ seen = [r \in Readers |-> {}]

Commit(w) ==
  /\ w \notin committed
  /\ committed' = committed \cup {w}
  /\ UNCHANGED <<acked, phase, must, seen>>

Ack(w) ==
  /\ w \in committed \ acked
  /\ acked' = acked \cup {w}
  /\ UNCHANGED <<committed, phase, must, seen>>

Begin(r) ==
  /\ phase[r] = "idle"
  /\ phase' = [phase EXCEPT ![r] = "reading"]
  /\ must' = [must EXCEPT ![r] = acked]
  /\ UNCHANGED <<committed, acked, seen>>

Respond(r) ==
  /\ phase[r] = "reading"
  /\ phase' = [phase EXCEPT ![r] = "answered"]
  /\ \E S \in SUBSET committed :
       must[r] \subseteq S /\ seen' = [seen EXCEPT ![r] = S]
  /\ UNCHANGED <<committed, acked, must>>

End(r) ==
  /\ phase[r] = "answered"
  /\ phase' = [phase EXCEPT ![r] = "idle"]
  /\ must' = [must EXCEPT ![r] = {}]
  /\ seen' = [seen EXCEPT ![r] = {}]
  /\ UNCHANGED <<committed, acked>>

Next ==
  \/ \E w \in Writes : Commit(w) \/ Ack(w)
  \/ \E r \in Readers : Begin(r) \/ Respond(r) \/ End(r)

Spec == Init /\ [][Next]_vars
=============================================================================
