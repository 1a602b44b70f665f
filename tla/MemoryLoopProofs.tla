-------------------------- MODULE MemoryLoopProofs --------------------------
(***************************************************************************)
(* Proofs about MemoryLoop for any reviews, batches, sessions and limits.   *)
(***************************************************************************)
EXTENDS MemoryLoop, FiniteSetTheorems, TLAPS

\* A verdict in the table is one that a person gave.
LabelsAreVerdicts == \A m \in Memories : accepted[m] # "null" => <<m, accepted[m]>> \in verdicts

Inv ==
    /\ TypeOK
    /\ LabelsAreVerdicts
    /\ BatchIsAtomic /\ OutcomesAreVerdicts /\ OnlyLateVerdictsAreOffered

\* The memories of a review are its numbered findings.
LEMMA MemoryFacts ==
    /\ \A r \in Reviews : {r} \X (1..Batch[r]) \subseteq Memories
    /\ \A m \in Memories : m[1] \in Reviews
  BY DEF Memories

LEMMA TypeStep ==
    ASSUME TypeOK, [Next]_vars
    PROVE  TypeOK'
<1> USE MemoryAssumption DEF TypeOK, vars, review, people, Goto, Verdicts
<1>1. ASSUME NEW r \in Reviews, Retrieve(r)
      PROVE  TypeOK'
  <2>1. PICK S \in SUBSET Labelled(Repo[r]) :
           prompt' = [prompt EXCEPT ![r] = {<<m, Outcome(m)>> : m \in S}]
    BY <1>1 DEF Retrieve
  <2>2. {<<m, Outcome(m)>> : m \in S} \in SUBSET (Memories \X Verdicts)
    BY DEF Labelled, Outcome
  <2> QED
    BY <1>1, <2>1, <2>2 DEF Retrieve
<1>2. ASSUME NEW r \in Reviews, Raise(r)
      PROVE  TypeOK'
  BY <1>2 DEF Raise
<1>3. ASSUME NEW r \in Reviews, Begin(r)
      PROVE  TypeOK'
  <2>1. Cardinality({q \in Reviews : started[q] > 0}) \in Nat
    BY FS_Subset, FS_CardinalityType
  <2> QED
    BY <1>3, <2>1 DEF Begin
<1>4. ASSUME NEW r \in Reviews, Insert(r)
      PROVE  TypeOK'
  BY <1>4 DEF Insert
<1>5. ASSUME NEW r \in Reviews, Commit(r)
      PROVE  TypeOK'
  <2>1. rows' \subseteq Memories
    BY <1>5, MemoryFacts DEF Commit
  <2> QED
    BY <1>5, <2>1 DEF Commit
<1>6. ASSUME NEW s \in Sessions, List(s)
      PROVE  TypeOK'
  BY <1>6 DEF List, Unlabelled
<1>7. ASSUME NEW s \in Sessions, Label(s)
      PROVE  TypeOK'
  BY <1>7 DEF Label, Come
<1>8. ASSUME NEW s \in Sessions, Skip(s) \/ Close(s)
      PROVE  TypeOK'
  BY <1>8 DEF Skip, Close, Come
<1>9. ASSUME UNCHANGED vars
      PROVE  TypeOK'
  BY <1>9
<1> QED
  BY <1>1, <1>2, <1>3, <1>4, <1>5, <1>6, <1>7, <1>8, <1>9 DEF Next

LEMMA LoopStep ==
    ASSUME Inv, [Next]_vars
    PROVE  Inv'
<1> DEFINE Good == /\ LabelsAreVerdicts /\ BatchIsAtomic
                   /\ OutcomesAreVerdicts /\ OnlyLateVerdictsAreOffered
<1> USE MemoryAssumption DEF vars, review, people, Goto, Verdicts
<1> USE DEF LabelsAreVerdicts, BatchIsAtomic, OutcomesAreVerdicts, OnlyLateVerdictsAreOffered
<1>0. TypeOK /\ TypeOK' /\ Good
  BY TypeStep DEF Inv
<1>1. ASSUME NEW r \in Reviews, Retrieve(r)
      PROVE  Good'
  <2>1. PICK S \in SUBSET Labelled(Repo[r]) :
           prompt' = [prompt EXCEPT ![r] = {<<m, Outcome(m)>> : m \in S}]
    BY <1>1 DEF Retrieve
  <2>2. \A m \in S : Outcome(m) = accepted[m] /\ <<m, accepted[m]>> \in verdicts
    BY <1>0 DEF Labelled, Outcome, TypeOK
  <2>3. {<<m, Outcome(m)>> : m \in S} \subseteq verdicts
    BY <2>2
  <2> QED
    BY <1>0, <1>1, <2>1, <2>3 DEF Retrieve, TypeOK
<1>2. ASSUME NEW r \in Reviews, Raise(r) \/ Begin(r) \/ Insert(r)
      PROVE  Good'
  BY <1>0, <1>2 DEF Raise, Begin, Insert
<1>3. ASSUME NEW r \in Reviews, Commit(r)
      PROVE  Good'
  <2>1. rows' = rows \cup {r} \X (1..Batch[r]) /\ UNCHANGED <<accepted, prompt, verdicts, unseen, todo>>
    BY <1>3 DEF Commit
  <2>2. BatchIsAtomic'
    <3> SUFFICES ASSUME NEW q \in Reviews
                 PROVE  (\A m \in rows' : m[1] # q) \/ {q} \X (1..Batch[q]) \subseteq rows'
      OBVIOUS
    <3>1. CASE q = r
      BY <2>1, <3>1
    <3>2. CASE q # r
      <4>1. \A m \in {r} \X (1..Batch[r]) : m[1] # q
        BY <3>2
      <4> QED
        BY <1>0, <2>1, <4>1
    <3> QED
      BY <3>1, <3>2
  <2> QED
    BY <1>0, <2>1, <2>2
<1>4. ASSUME NEW s \in Sessions, List(s)
      PROVE  Good'
  <2>1. PICK S \in SUBSET Unlabelled(s) : todo' = [todo EXCEPT ![s] = S]
    BY <1>4 DEF List
  <2>2. \A m \in S : accepted[m] = "null"
    BY DEF Unlabelled
  <2>3. /\ UNCHANGED <<rows, accepted, prompt, verdicts>>
        /\ \A t \in Sessions \ {s} : unseen'[t] = unseen[t] /\ todo'[t] = todo[t]
        /\ todo'[s] = S
    BY <1>0, <1>4, <2>1 DEF List, TypeOK
  <2> QED
    BY <1>0, <2>2, <2>3
\* The one step that changes a verdict shows it to every open session as unseen.
<1>5. ASSUME NEW s \in Sessions, Label(s)
      PROVE  Good'
  <2>1. PICK m \in todo[s], v \in Verdicts :
           /\ todo' = [todo EXCEPT ![s] = @ \ {m}]
           /\ accepted' = [accepted EXCEPT ![m] = v]
           /\ verdicts' = verdicts \cup {<<m, v>>}
           /\ unseen' = [t \in Sessions |-> unseen[t] \cup {m}]
    BY <1>5 DEF Label, Come
  <2>2. UNCHANGED <<rows, prompt>>
    BY <1>5 DEF Label
  <2>3. /\ accepted'[m] = v /\ \A n \in Memories \ {m} : accepted'[n] = accepted[n]
        /\ m \in Memories
        /\ \A t \in Sessions : todo'[t] \subseteq todo[t] /\ todo[t] \subseteq Memories
        /\ \A t \in Sessions : unseen'[t] = unseen[t] \cup {m}
    BY <1>0, <2>1 DEF TypeOK
  <2>4. LabelsAreVerdicts'
    BY <1>0, <2>1, <2>3
  <2>5. BatchIsAtomic' /\ OutcomesAreVerdicts'
    BY <1>0, <2>1, <2>2
  <2>6. OnlyLateVerdictsAreOffered'
    BY <1>0, <2>3
  <2> QED
    BY <2>4, <2>5, <2>6
<1>6. ASSUME NEW s \in Sessions, Skip(s) \/ Close(s)
      PROVE  Good'
  <2>1. /\ UNCHANGED <<rows, accepted, prompt, verdicts, unseen>>
        /\ \A t \in Sessions : todo'[t] \subseteq todo[t]
    BY <1>0, <1>6 DEF Skip, Close, Come, TypeOK
  <2> QED
    BY <1>0, <2>1
<1>7. ASSUME UNCHANGED vars
      PROVE  Good'
  BY <1>0, <1>7
<1> QED
  BY <1>0, <1>1, <1>2, <1>3, <1>4, <1>5, <1>6, <1>7 DEF Next, Inv

----------------------------------------------------------------------------
\* The memory loop keeps its invariant in every behaviour.
THEOREM Invariance == Spec => []Inv
<1>1. Init => Inv
  BY MemoryAssumption
     DEF Init, Inv, TypeOK, LabelsAreVerdicts, BatchIsAtomic, OutcomesAreVerdicts,
         OnlyLateVerdictsAreOffered
<1>2. Inv /\ [Next]_vars => Inv'
  BY LoopStep
<1> QED
  BY <1>1, <1>2, PTL DEF Spec

\* The tables and what reviews and sessions hold of them keep their shape: no row
\* is inserted past its batch (memory.py 85-121).
THEOREM TypeCorrect == Spec => []TypeOK
<1>1. Inv => TypeOK
  BY DEF Inv
<1> QED
  BY <1>1, Invariance, PTL

\* A review's findings become memories all together or not at all.
THEOREM AtomicBatches == Spec => []BatchIsAtomic
<1>1. Inv => BatchIsAtomic
  BY DEF Inv
<1> QED
  BY <1>1, Invariance, PTL

\* Every outcome in a prompt is a verdict that a person gave.
THEOREM PromptsQuoteVerdicts == Spec => []OutcomesAreVerdicts
<1>1. Inv => OutcomesAreVerdicts
  BY DEF Inv
<1> QED
  BY <1>1, Invariance, PTL

\* A session can only overwrite a verdict given after it listed its memories.
THEOREM OverwritesAreLate == Spec => []OnlyLateVerdictsAreOffered
<1>1. Inv => OnlyLateVerdictsAreOffered
  BY DEF Inv
<1> QED
  BY <1>1, Invariance, PTL
=============================================================================
