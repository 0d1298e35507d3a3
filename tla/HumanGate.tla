----------------------------- MODULE HumanGate -----------------------------
(***************************************************************************)
(* What the service promises about human review, whatever runs inside it:  *)
(* an item is queued for a case and a call at a priority that never        *)
(* changes, at most one item per case and call is open at a time, and a    *)
(* person decides each item once, after the call's transcript is readable. *)
(***************************************************************************)
CONSTANTS Item, Topic, Channel, Priority, Verdict, Nil

VARIABLES
  item,     \* the queue: what each item is about and its verdict
  readable  \* the channels whose transcript is stored

gateVars == <<item, readable>>

Entry == [about : Topic, channel : Channel, priority : Priority,
          verdict : Verdict \cup {Nil}]

GateInit == /\ item = [i \in Item |-> Nil]
            /\ readable = {}

IsOpen(i) == item[i] # Nil /\ item[i].verdict = Nil

Enqueue(i) ==
  /\ item[i] = Nil
  /\ \E t \in Topic, c \in Channel, p \in Priority :
       /\ ~ \E j \in Item : IsOpen(j) /\ item[j].about = t
                                      /\ item[j].channel = c
       /\ item' = [item EXCEPT ![i] = [about |-> t, channel |-> c,
                                       priority |-> p, verdict |-> Nil]]
  /\ UNCHANGED readable

Publish(c) == /\ readable' = readable \cup {c}
              /\ UNCHANGED item

Rule(i) ==
  /\ IsOpen(i)
  /\ item[i].channel \in readable
  /\ \E d \in Verdict : item' = [item EXCEPT ![i].verdict = d]
  /\ UNCHANGED readable

GateNext == \/ \E i \in Item : Enqueue(i) \/ Rule(i)
            \/ \E c \in Channel : Publish(c)

GateSpec == GateInit /\ [][GateNext]_gateVars
=============================================================================
