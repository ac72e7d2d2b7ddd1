---------------------------- MODULE MCVisitOrder ----------------------------
(***************************************************************************)
(* Modules of three functions. f may call g and h and g may call h, not at *)
(* all, in an unpredicated block or in one predicated with either width;   *)
(* the uses the other way, which make cycles, are not calls, and h may     *)
(* call itself.                                                            *)
(***************************************************************************)
EXTENDS VisitOrder

CONSTANTS f, g, h

MCFunctions == {f, g, h}

Call(F, G, w) == [caller |-> F, callee |-> G, width |-> w]

MCCalls ==
  {a \cup b \cup c \cup d :
     a \in {{}, {Call(f, g, 0)}, {Call(f, g, 2)}},
     b \in {{}, {Call(f, h, 0)}, {Call(f, h, 2)}, {Call(f, h, 2), Call(f, h, 4)}},
     c \in {{}, {Call(g, h, 0)}, {Call(g, h, 4)}},
     d \in {{}, {Call(h, h, 2)}}}

MCModules ==
  {[uses |-> back \cup {<<c.caller, c.callee>> : c \in calls}, calls |-> calls,
    escaped |-> escaped, noPred |-> noPred, simt |-> simt] :
     calls \in MCCalls, back \in SUBSET {<<g, f>>, <<h, g>>},
     escaped \in {{}, {g}}, noPred \in {{}, {g}}, simt \in {{}, {h}}}
=============================================================================
