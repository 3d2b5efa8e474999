----------------------------- MODULE ExactReuse -----------------------------
(***************************************************************************)
(* What the gateway promises to the callers of one tool request, without   *)
(* leases, generations, tables or clocks.  A binding is a write-once cell: *)
(* one value may be published for it, every call answered from it gets     *)
(* that value, and quarantine closes it for good.                          *)
(***************************************************************************)
CONSTANTS Call, Binding, Content, None

VARIABLES
    phase,   \* of a binding: "none", "ready" or "quarantined"
    value,   \* the value published for a binding
    answer   \* the value a call was answered with by reuse

avars == <<phase, value, answer>>

AInit ==
    /\ phase = [b \in Binding |-> "none"]
    /\ value = [b \in Binding |-> None]
    /\ answer = [c \in Call |-> None]

APublish(b, v) ==
    /\ phase[b] = "none"
    /\ phase' = [phase EXCEPT ![b] = "ready"]
    /\ value' = [value EXCEPT ![b] = v]
    /\ UNCHANGED answer

AAnswer(c, b) ==
    /\ phase[b] = "ready"
    /\ answer[c] = None
    /\ answer' = [answer EXCEPT ![c] = value[b]]
    /\ UNCHANGED <<phase, value>>

AQuarantine(b) ==
    /\ phase[b] = "ready"
    /\ phase' = [phase EXCEPT ![b] = "quarantined"]
    /\ UNCHANGED <<value, answer>>

ANext ==
    \/ \E b \in Binding : AQuarantine(b) \/ \E v \in Content : APublish(b, v)
    \/ \E c \in Call, b \in Binding : AAnswer(c, b)

ASpec == AInit /\ [][ANext]_avars
=============================================================================
