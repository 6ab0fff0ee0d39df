-------------------------- MODULE HybridTimestamp --------------------------
(***************************************************************************)
(* Hybrid timestamps and the order in which LWWMap resolves two versions   *)
(* of a key.  A version ("item") is one key together with its LWWEntry:    *)
(* the value, the timestamp (physical nanoseconds and logical counter) and *)
(* the originating device.  Device identifiers are compared as strings by  *)
(* the code; here a device is its rank in that order, a natural number.    *)
(***************************************************************************)
EXTENDS Integers

\* The timestamp of a is before the timestamp of b: physical part first.
TsBefore(a, b) ==
    \/ a.physical < b.physical
    \/ /\ a.physical = b.physical
       /\ a.logical < b.logical

TsEqual(a, b) == a.physical = b.physical /\ a.logical = b.logical

\* The version new replaces local: larger timestamp, ties broken by device.
Newer(new, local) ==
    \/ TsBefore(local, new)
    \/ TsEqual(new, local) /\ new.device > local.device

\* The physical parts are further apart than the threshold.
Apart(a, b, threshold) ==
    \/ a.physical - b.physical > threshold
    \/ b.physical - a.physical > threshold
=============================================================================
