------------------------------- MODULE IoSlot -------------------------------
(***************************************************************************)
(* The readiness state of one registered IO source                         *)
(* (agentdp-network/src/readiness.rs).  A slot holds the interest it is    *)
(* registered with, the readiness latched from the reactor, and one probe  *)
(* per direction: permission to try the operation once without having seen *)
(* an event, given when a direction is enabled.                            *)
(***************************************************************************)

Interests == {"Disabled", "Readable", "Writable", "ReadWrite"}

Reads(interest) == interest \in {"Readable", "ReadWrite"}
Writes(interest) == interest \in {"Writable", "ReadWrite"}

Slots == [interest : Interests, readable : BOOLEAN, writable : BOOLEAN,
          readProbe : BOOLEAN, writeProbe : BOOLEAN]

\* A source registered now; only a TCP stream also probes its read side.
Registered(interest, probesRead) ==
    [interest |-> interest, readable |-> FALSE, writable |-> FALSE,
     readProbe |-> probesRead /\ Reads(interest), writeProbe |-> Writes(interest)]

Cleared == Registered("Disabled", FALSE)

CanRead(slot) == Reads(slot.interest) /\ (slot.readable \/ slot.readProbe)
CanWrite(slot) == Writes(slot.interest) /\ (slot.writable \/ slot.writeProbe)

MarkReady(slot, readable, writable) ==
    [slot EXCEPT !.readable = @ \/ readable, !.writable = @ \/ writable]

ClearReadAfterWouldBlock(slot) ==
    [slot EXCEPT !.readable = FALSE, !.readProbe = FALSE]

ClearWriteAfterWouldBlock(slot) ==
    [slot EXCEPT !.writable = FALSE, !.writeProbe = FALSE]

\* Mutant: the probes are left as they are.
SetInterestKeepingProbes(slot, interest) == [slot EXCEPT !.interest = interest]

\* A direction that is enabled gets a probe, one that is disabled loses it, and
\* one that stays as it was keeps it.
SetInterest(slot, interest) ==
    [slot EXCEPT
       !.interest = interest,
       !.readProbe = Reads(interest) /\ (@ \/ ~Reads(slot.interest)),
       !.writeProbe = Writes(interest) /\ (@ \/ ~Writes(slot.interest))]
=============================================================================
