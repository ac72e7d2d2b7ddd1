------------------------ MODULE SimdCFMachine_proofs ------------------------
(***************************************************************************)
(* Proofs about the mask representation of SIMD control flow, for every    *)
(* program, every set of channels and every call mask:                     *)
(*   TypeCorrect         type correctness                                  *)
(*   MaskPartitionHolds  no channel is lost, doubled or both on and off    *)
(*   MachineIsArch       the EM/RM model implements the PcIP model         *)
(***************************************************************************)
EXTENDS SimdCFMachine, TLAPS

(***************************************************************************)
(* SIMD control flow never leaves the sets the masks range over: EM and    *)
(* every RM stay sets of channels and ip stays a block or past the end.    *)
(***************************************************************************)
THEOREM TypeCorrect == Spec => []TypeOK
<1>1. Init => TypeOK
  <2> SUFFICES ASSUME NEW p \in Programs, NEW mask \in SUBSET Channels,
                      Start(p, mask)
               PROVE  TypeOK
    BY DEF Init
  <2> QED
    BY MachineAssumption DEF Start, TypeOK, ZeroRM, MaybeBlock
<1>2. TypeOK /\ [Next]_vars => TypeOK'
  <2> SUFFICES ASSUME TypeOK, [Next]_vars PROVE TypeOK'
    OBVIOUS
  <2> USE DEF TypeOK, MaybeBlock
  <2>0. ASSUME ip # NoBlock
        PROVE  /\ code[ip] \in Instructions
               /\ code[ip].op = "goto" => /\ code[ip].uip \in Blocks
                                          /\ code[ip].taken \in Blocks
    BY <2>0 DEF WellFormed
  <2>1. ASSUME NEW simdCond \in SUBSET Channels, Goto(simdCond)
        PROVE  TypeOK'
    BY <2>0, <2>1 DEF Goto, Running, Instructions, GotoEM, GotoRM, OneExtended
  <2>2. ASSUME Join PROVE TypeOK'
    BY <2>0, <2>2 DEF Join, Running, Instructions, JoinEM, JoinRM
  <2>3. ASSUME NEW taken \in BOOLEAN, Branch(taken) PROVE TypeOK'
    BY <2>0, <2>3 DEF Branch, Running, Instructions
  <2>4. ASSUME Jump PROVE TypeOK'
    BY <2>0, <2>4 DEF Jump, Running, Instructions
  <2>5. ASSUME Return PROVE TypeOK'
    BY <2>5 DEF Return
  <2>6. ASSUME UNCHANGED vars PROVE TypeOK'
    BY <2>6 DEF vars
  <2> QED
    BY <2>1, <2>2, <2>3, <2>4, <2>5, <2>6 DEF Next
<1> QED BY <1>1, <1>2, PTL DEF Spec

(***************************************************************************)
(* A goto moves channels from EM into one resume mask, a join moves a      *)
(* whole resume mask into EM: the split of the call mask stays a split.    *)
(***************************************************************************)
LEMMA GotoKeepsPartition ==
  ASSUME TypeOK, MaskPartition,
         NEW simdCond \in SUBSET Channels, Goto(simdCond)
  PROVE  MaskPartition'
<1> DEFINE u == code[ip].uip
           leaving == (EM \cap code[ip].lanes) \ simdCond
<1> USE DEF TypeOK
<1>1. u \in Blocks /\ code[ip].lanes \subseteq Channels
  BY DEF Goto, Running, WellFormed, Instructions, MaybeBlock
<1>2. simdCond \subseteq code[ip].lanes
  BY DEF Goto
<1>3. EM' = EM \ leaving
  BY <1>1, <1>2 DEF Goto, GotoEM, OneExtended
<1>4. /\ RM'[u] = RM[u] \cup leaving
      /\ \A b \in Blocks : b # u => RM'[b] = RM[b]
  BY <1>1 DEF Goto, GotoRM
<1>5. Disjoint'
  <2>1. ASSUME NEW b \in Blocks PROVE EM' \cap RM'[b] = {}
    BY <1>3, <1>4 DEF MaskPartition, Disjoint
  <2>2. ASSUME NEW b \in Blocks, NEW d \in Blocks, b # d
        PROVE  RM'[b] \cap RM'[d] = {}
    <3>1. RM[b] \cap RM[d] = {} /\ leaving \cap RM[b] = {} /\ leaving \cap RM[d] = {}
      BY <2>2 DEF MaskPartition, Disjoint
    <3> QED BY <2>2, <3>1, <1>4
  <2> QED BY <2>1, <2>2 DEF Disjoint
<1>6. Complete'
  <2>1. EM' \cup UNION {RM'[b] : b \in Blocks} = EM \cup UNION {RM[b] : b \in Blocks}
    BY <1>1, <1>3, <1>4
  <2> QED BY <2>1 DEF MaskPartition, Complete, Goto
<1> QED BY <1>5, <1>6 DEF MaskPartition

LEMMA JoinKeepsPartition ==
  ASSUME TypeOK, MaskPartition, Join
  PROVE  MaskPartition'
<1> USE DEF TypeOK
<1>1. ip \in Blocks
  BY DEF Join, Running, MaybeBlock
<1>2. EM' = EM \cup RM[ip]
  BY DEF Join, JoinEM
<1>3. RM'[ip] = {} /\ \A b \in Blocks : b # ip => RM'[b] = RM[b]
  BY <1>1 DEF Join, JoinRM
<1>4. Disjoint'
  BY <1>1, <1>2, <1>3 DEF MaskPartition, Disjoint
<1>5. Complete'
  <2>1. EM' \cup UNION {RM'[b] : b \in Blocks} = EM \cup UNION {RM[b] : b \in Blocks}
    BY <1>1, <1>2, <1>3
  <2> QED BY <2>1 DEF MaskPartition, Complete, Join
<1> QED BY <1>4, <1>5 DEF MaskPartition

(***************************************************************************)
(* Every channel of the call mask is at each moment either enabled or      *)
(* waiting at exactly one join.                                            *)
(***************************************************************************)
THEOREM MaskPartitionHolds == Spec => []MaskPartition
<1>1. Init => MaskPartition
  BY DEF Init, Start, ZeroRM, MaskPartition, Disjoint, Complete
<1>2. TypeOK /\ MaskPartition /\ [Next]_vars => MaskPartition'
  <2> SUFFICES ASSUME TypeOK, MaskPartition, [Next]_vars PROVE MaskPartition'
    OBVIOUS
  <2>1. ASSUME NEW simdCond \in SUBSET Channels, Goto(simdCond)
        PROVE  MaskPartition'
    BY <2>1, GotoKeepsPartition
  <2>2. ASSUME Join PROVE MaskPartition'
    BY <2>2, JoinKeepsPartition
  <2>3. ASSUME UNCHANGED <<EM, RM, callMask>> PROVE MaskPartition'
    BY <2>3 DEF MaskPartition, Disjoint, Complete
  <2>4. ASSUME NEW taken \in BOOLEAN, Branch(taken) PROVE MaskPartition'
    BY <2>3, <2>4 DEF Branch
  <2>5. ASSUME Jump PROVE MaskPartition'
    BY <2>3, <2>5 DEF Jump
  <2>6. ASSUME Return PROVE MaskPartition'
    BY <2>3, <2>6 DEF Return
  <2>7. ASSUME UNCHANGED vars PROVE MaskPartition'
    BY <2>3, <2>7 DEF vars
  <2> QED
    BY <2>1, <2>2, <2>4, <2>5, <2>6, <2>7 DEF Next
<1> QED BY <1>1, <1>2, TypeCorrect, PTL DEF Spec

-----------------------------------------------------------------------------
(***************************************************************************)
(* Where a channel waits, given where it is in the resume masks.           *)
(***************************************************************************)
LEMMA WaitsAtOne ==
  ASSUME NEW rm, NEW c, NEW b \in Blocks, c \in rm[b],
         \A d \in Blocks : c \in rm[d] => d = b
  PROVE  WaitsAt(rm, c) = b
<1>1. (CHOOSE d \in Blocks : c \in rm[d]) = b
  OBVIOUS
<1> QED BY <1>1 DEF WaitsAt

LEMMA WaitsAtNone ==
  ASSUME NEW rm, NEW c, \A b \in Blocks : c \notin rm[b]
  PROVE  WaitsAt(rm, c) = NoBlock
BY DEF WaitsAt

\* A channel the two functions place alike, at one join at most, waits alike.
LEMMA WaitsAtSame ==
  ASSUME NEW rm, NEW rn, NEW c,
         \A b \in Blocks : c \in rn[b] <=> c \in rm[b],
         \A b, d \in Blocks : c \in rm[b] /\ c \in rm[d] => b = d
  PROVE  WaitsAt(rn, c) = WaitsAt(rm, c)
<1>1. CASE \E b \in Blocks : c \in rm[b]
  <2>1. PICK b \in Blocks : c \in rm[b]
    BY <1>1
  <2>2. WaitsAt(rm, c) = b /\ WaitsAt(rn, c) = b
    BY <2>1, WaitsAtOne
  <2> QED BY <2>2
<1>2. CASE \A b \in Blocks : c \notin rm[b]
  BY <1>2, WaitsAtNone
<1> QED BY <1>1, <1>2

LEMMA OneJoinPerChannel ==
  ASSUME Disjoint
  PROVE  \A c : \A b, d \in Blocks : c \in RM[b] /\ c \in RM[d] => b = d
BY DEF Disjoint

(***************************************************************************)
(* The goto of the masks is the goto of the PcIPs: the channels taken out  *)
(* of EM are those that get the PcIP UIP.                                  *)
(***************************************************************************)
LEMMA GotoIsArchGoto ==
  ASSUME TypeOK, MaskPartition,
         NEW simdCond \in SUBSET Channels, Goto(simdCond)
  PROVE  Arch!Next
<1> DEFINE i == code[ip]
           leaving == (EM \cap i.lanes) \ simdCond
<1> USE DEF TypeOK
<1>1. i.uip \in Blocks /\ i.lanes \subseteq Channels
  BY DEF Goto, Running, WellFormed, Instructions, MaybeBlock
<1>2. simdCond \subseteq i.lanes
  BY DEF Goto
<1>3. EM' = EM \ leaving
  BY <1>1, <1>2 DEF Goto, GotoEM, OneExtended
<1>4. /\ RM'[i.uip] = RM[i.uip] \cup leaving
      /\ \A b \in Blocks : b # i.uip => RM'[b] = RM[b]
  BY <1>1 DEF Goto, GotoRM
<1>5. Disjoint /\ \A c : \A b, d \in Blocks : c \in RM[b] /\ c \in RM[d] => b = d
  BY OneJoinPerChannel DEF MaskPartition
<1>6. ASSUME NEW c \in leaving PROVE WaitsAt(RM', c) = i.uip
  <2>1. \A b \in Blocks : c \notin RM[b]
    BY <1>5, <1>6 DEF Disjoint
  <2>2. c \in RM'[i.uip] /\ \A b \in Blocks : c \in RM'[b] => b = i.uip
    BY <1>1, <1>4, <1>6, <2>1
  <2> HIDE DEF leaving
  <2> QED BY <1>1, <2>2, WaitsAtOne
<1>7. ASSUME NEW c \in Channels, c \notin leaving
      PROVE  WaitsAt(RM', c) = WaitsAt(RM, c)
  <2>1. \A b \in Blocks : c \in RM'[b] <=> c \in RM[b]
    BY <1>1, <1>4, <1>7
  <2>2. \A b, d \in Blocks : c \in RM[b] /\ c \in RM[d] => b = d
    BY <1>5
  <2> HIDE DEF leaving
  <2> QED BY <2>1, <2>2, WaitsAtSame
<1>8. PcIP' = [c \in Channels |-> IF c \in leaving THEN i.uip ELSE PcIP[c]]
  BY <1>6, <1>7 DEF PcIP
<1>9. ip' = IF EM' \cap i.lanes = {} THEN i.taken ELSE i.next
  BY DEF Goto, NoneEnabled
<1>10. leaving \subseteq EM \cap i.lanes /\ leaving \in SUBSET Channels
  BY <1>1
<1>11. Arch!Goto(leaving)
  <2>1. Arch!Running("goto") /\ UNCHANGED code
    BY DEF Goto, Running, Arch!Running
  <2> HIDE DEF leaving
  <2> QED BY <1>3, <1>8, <1>9, <1>10, <2>1 DEF Arch!Goto
<1> QED
  <2> HIDE DEF leaving
  <2> QED BY <1>10, <1>11 DEF Arch!Next

(***************************************************************************)
(* The join of the masks resumes exactly the channels whose PcIP is this   *)
(* join, and leaves every other PcIP alone.                                *)
(***************************************************************************)
LEMMA JoinIsArchJoin ==
  ASSUME TypeOK, MaskPartition, Join
  PROVE  Arch!Next
<1> DEFINE i == code[ip]
           resumed == {c \in Channels : PcIP[c] = ip}
<1> USE DEF TypeOK
<1>1. ip \in Blocks /\ ip # NoBlock
  BY DEF Join, Running, MaybeBlock
<1>2. EM' = EM \cup RM[ip]
  BY DEF Join, JoinEM
<1>3. RM'[ip] = {} /\ \A b \in Blocks : b # ip => RM'[b] = RM[b]
  BY <1>1 DEF Join, JoinRM
<1>4. \A c : \A b, d \in Blocks : c \in RM[b] /\ c \in RM[d] => b = d
  BY OneJoinPerChannel DEF MaskPartition
<1>5. resumed = RM[ip]
  <2>1. ASSUME NEW c \in RM[ip] PROVE WaitsAt(RM, c) = ip
    <3>1. \A d \in Blocks : c \in RM[d] => d = ip
      BY <1>1, <1>4
    <3> QED BY <1>1, <3>1, WaitsAtOne
  <2>2. ASSUME NEW c \in Channels, WaitsAt(RM, c) = ip PROVE c \in RM[ip]
    <3>1. PICK b \in Blocks : c \in RM[b]
      BY <1>1, <2>2, WaitsAtNone
    <3>2. \A d \in Blocks : c \in RM[d] => d = b
      BY <1>4, <3>1
    <3>3. WaitsAt(RM, c) = b
      BY <3>1, <3>2, WaitsAtOne
    <3> QED BY <2>2, <3>1, <3>3
  <2> QED BY <1>1, <2>1, <2>2 DEF PcIP
<1>6. ASSUME NEW c \in RM[ip] PROVE WaitsAt(RM', c) = NoBlock
  <2>1. \A b \in Blocks : c \notin RM'[b]
    BY <1>1, <1>3, <1>4
  <2> QED BY <2>1, WaitsAtNone
<1>7. ASSUME NEW c \in Channels, c \notin RM[ip]
      PROVE  WaitsAt(RM', c) = WaitsAt(RM, c)
  <2>1. \A b \in Blocks : c \in RM'[b] <=> c \in RM[b]
    BY <1>1, <1>3, <1>7
  <2>2. \A b, d \in Blocks : c \in RM[b] /\ c \in RM[d] => b = d
    BY <1>4
  <2> QED BY <2>1, <2>2, WaitsAtSame
<1>8. PcIP' = [c \in Channels |-> IF c \in RM[ip] THEN NoBlock ELSE PcIP[c]]
  BY <1>6, <1>7 DEF PcIP
<1>9. ip' = IF EM' \cap i.lanes = {} /\ i.taken # NoBlock THEN i.taken ELSE i.next
  BY DEF Join, NoneEnabled
<1>10. Arch!Running("join") /\ UNCHANGED code
  BY DEF Join, Running, Arch!Running
<1>11. Arch!Join
  BY <1>2, <1>5, <1>8, <1>9, <1>10 DEF Arch!Join
<1> QED BY <1>11 DEF Arch!Next

(***************************************************************************)
(* "This model is equivalent to the Architectural model": every behaviour  *)
(* of the execution and resume masks is one of the per-channel PcIPs.      *)
(***************************************************************************)
THEOREM MachineIsArch == Spec => ImplementsArch
<1>1. Init => Arch!Init
  <2> SUFFICES ASSUME NEW p \in Programs, NEW mask \in SUBSET Channels,
                      Start(p, mask)
               PROVE  Arch!Init
    BY DEF Init
  <2>1. \A c \in Channels : WaitsAt(RM, c) = NoBlock
    BY WaitsAtNone DEF Start, ZeroRM
  <2> QED BY <2>1, MachineAssumption DEF Start, Arch!Init, PcIP
<1>2. TypeOK /\ MaskPartition /\ [Next]_vars => [Arch!Next]_(Arch!vars)
  <2> SUFFICES ASSUME TypeOK, MaskPartition, [Next]_vars
               PROVE  [Arch!Next]_(Arch!vars)
    OBVIOUS
  <2>1. ASSUME NEW simdCond \in SUBSET Channels, Goto(simdCond)
        PROVE  Arch!Next
    BY <2>1, GotoIsArchGoto
  <2>2. ASSUME Join PROVE Arch!Next
    BY <2>2, JoinIsArchJoin
  <2>3. ASSUME UNCHANGED RM PROVE PcIP' = PcIP
    BY <2>3 DEF PcIP
  <2>4. ASSUME NEW taken \in BOOLEAN, Branch(taken) PROVE Arch!Next
    BY <2>3, <2>4 DEF Branch, Running, Arch!Next, Arch!Scalar, Arch!Running
  <2>5. ASSUME Jump PROVE Arch!Next
    BY <2>3, <2>5 DEF Jump, Running, Arch!Next, Arch!Scalar, Arch!Running
  <2>6. ASSUME Return PROVE Arch!Next
    BY <2>3, <2>6 DEF Return, Running, Arch!Next, Arch!Scalar, Arch!Running
  <2>7. ASSUME UNCHANGED vars PROVE UNCHANGED Arch!vars
    BY <2>3, <2>7 DEF vars, Arch!vars
  <2> QED
    BY <2>1, <2>2, <2>4, <2>5, <2>6, <2>7 DEF Next
<1> QED
  BY <1>1, <1>2, TypeCorrect, MaskPartitionHolds, PTL
     DEF Spec, ImplementsArch, Arch!Spec
=============================================================================
