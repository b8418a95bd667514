---------------------------- MODULE ExtendedValue ----------------------------
(***************************************************************************)
(* ExtendedValue, src/src/extended_value.cpp: a counter of mod values that *)
(* comes in out of order is extended to 64 bits.                           *)
(*                                                                         *)
(* ev is the object: base, mRolloverValue; at, mRolloverTime; last,        *)
(* mLastValue, or -1 when there is none yet.                               *)
(***************************************************************************)
EXTENDS Integers

CONSTANT RolloverBack   \* mRolloverBack, 1000 ms: how long after a rollover a value
                        \* may still belong before it

NewExtendedValue == [base |-> 0, at |-> 0, last |-> -1]

Margin(mod) == (mod - 1) \div 4

\* Mutated: a late value of the lap before a rollover is given the new lap.
ExtendNeverBack(ev, src, now, mod) ==
    LET e == IF ev.base = 0 THEN [ev EXCEPT !.base = mod, !.at = now] ELSE ev
        rolled == e.last >= mod - 1 - Margin(mod) /\ src <= Margin(mod)
        ahead == [e EXCEPT !.base = @ + mod, !.at = now, !.last = src]
    IN IF e.last = -1 THEN [ev |-> [e EXCEPT !.last = src], value |-> e.base + src]
       ELSE IF rolled THEN [ev |-> ahead, value |-> ahead.base + src]
       ELSE [ev |-> [e EXCEPT !.last = src], value |-> e.base + src]

\* extend: what the object becomes, and the extended value.  The base is a
\* multiple of mod, so that the code's "|" adds.
extend(ev, src, now, mod) ==
    LET e == IF ev.base = 0 THEN [ev EXCEPT !.base = mod, !.at = now] ELSE ev
        rolled == e.last >= mod - 1 - Margin(mod) /\ src <= Margin(mod)
        back == /\ e.last <= Margin(mod) /\ src >= mod - 1 - Margin(mod)
                /\ now - e.at <= RolloverBack
        ahead == [e EXCEPT !.base = @ + mod, !.at = now, !.last = src]
    IN IF e.last = -1 THEN [ev |-> [e EXCEPT !.last = src], value |-> e.base + src]
       ELSE IF rolled THEN [ev |-> ahead, value |-> ahead.base + src]
       ELSE IF back THEN [ev |-> e, value |-> e.base - mod + src]
       ELSE [ev |-> [e EXCEPT !.last = src], value |-> e.base + src]
=============================================================================
