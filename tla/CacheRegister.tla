---------------------------- MODULE CacheRegister ----------------------------
(***************************************************************************)
(* What the content-addressed cache promises its callers, with no files,   *)
(* locks or transactions: one write-once cell per cache identity.  A cell  *)
(* is Absent, holds one payload, or is Broken because something outside    *)
(* the program damaged it.  CacheStore implements this specification, and  *)
(* Scheduler is built on its steps.                                        *)
(***************************************************************************)
EXTENDS Naturals

CONSTANTS
    Keys,      \* cache identities (each names one cache key)
    Payloads,  \* payload contents, identified by their SHA-256
    Absent,    \* no entry
    Broken     \* an entry that does not validate

ASSUME RegisterAssumption ==
    /\ Absent \notin Payloads
    /\ Broken \notin Payloads
    /\ Absent # Broken

VARIABLE value

Cells == Payloads \cup {Absent, Broken}

RegisterInit == value = [k \in Keys |-> Absent]

\* Only an empty cell can be written: completed entries are immutable.
Publish(k, p) ==
    /\ value[k] = Absent
    /\ value' = [value EXCEPT ![k] = p]

\* Only an entry that does not validate is moved to quarantine.
Quarantine(k) ==
    /\ value[k] = Broken
    /\ value' = [value EXCEPT ![k] = Absent]

\* The disk, or the fault suite, harms a published entry.
Damage(k) ==
    /\ value[k] \in Payloads
    /\ value' = [value EXCEPT ![k] = Broken]

RegisterNext ==
    \E k \in Keys :
        \/ \E p \in Payloads : Publish(k, p)
        \/ Quarantine(k)
        \/ Damage(k)

RegisterSpec == RegisterInit /\ [][RegisterNext]_value
=============================================================================
