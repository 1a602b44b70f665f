-------------------------- MODULE ReviewDataProofs --------------------------
(***************************************************************************)
(* Proofs about ReviewData for any diffs, plans and findings: what a         *)
(* critique reads of a tool is so, whatever its containers do; a repaired    *)
(* diff needs no second repair; the workspace has what the diff shows; and   *)
(* the comment does not depend on the order of the findings.                *)
(***************************************************************************)
EXTENDS ReviewData, CountingFacts, SequenceTheorems

\* How the container of the current call ended, if it did.
Outcome == [rc |-> box.rc, out |-> box.out]

\* What the answers are made of: a container belongs to a sandboxed call that
\* is not answered yet, and it ends in one of the ways its tool ends.
BoxOK ==
    /\ box \in [is : {"none", "running", "ended"}, dirty : BOOLEAN,
                rc : Nat, out : {"none", "passed", "part", "all"}]
    /\ box.is # "none" => Len(answers) < Len(input.calls) /\ Call.tool \in Sandboxed
    /\ box.is = "ended" =>
          Outcome \in Finished(Call.tool, box.dirty) \cup Broken(Call.tool, box.dirty)

\* What AnswersAreTrue says of one answer, with or without a docker.
Evident(a, docker) ==
    /\ a.says = "clean" => ~a.dirty \/ (a.tool = "semgrep" /\ a.rc = 1)
    /\ a.says = "found" =>
          a.dirty /\ (a.out # "all" => (a.rc = 0 <=> a.tool = "ripgrep"))
    /\ a.says = "error" /\ a.tool \in Sandboxed /\ docker =>
          [rc |-> a.rc, out |-> a.out] \notin Finished(a.tool, a.dirty)

Answer == [tool : Tools, says : {"clean", "found", "note", "error", "timeout"},
           dirty : BOOLEAN, rc : Nat, out : {"none", "passed", "part", "all"}]

Evidence ==
    /\ answers \in Seq(Answer)
    /\ \A i \in 1..Len(answers) : Evident(answers[i], input.docker)

EvidenceInv == input \in Inputs /\ BoxOK /\ Evidence

----------------------------------------------------------------------------
(* Lemmas.                                                                 *)

\* The call under way is one of the plan's.
LEMMA CallIsPlanned ==
    ASSUME EvidenceInv, Len(answers) < Len(input.calls)
    PROVE  Len(answers) \in Nat /\ Call.tool \in Tools
<1>1. input.calls \in Seq([tool : Tools, argued : BOOLEAN])
  BY InputAssumption DEF EvidenceInv
<1>2. Len(answers) + 1 \in 1..Len(input.calls)
  BY <1>1 DEF EvidenceInv, Evidence
<1>3. input.calls[Len(answers) + 1] \in [tool : Tools, argued : BOOLEAN]
  BY <1>1, <1>2, ElementOfSeq
<1> QED
  BY <1>2, <1>3 DEF Call, EvidenceInv, Evidence

\* What a container that ended is said to have found is so.
LEMMA SaysTheTruth ==
    ASSUME NEW tool \in Sandboxed, NEW dirty \in BOOLEAN,
           NEW b \in [is : {"none", "running", "ended"}, dirty : BOOLEAN,
                      rc : Nat, out : {"none", "passed", "part", "all"}],
           b.dirty = dirty,
           [rc |-> b.rc, out |-> b.out] \in Finished(tool, dirty) \cup Broken(tool, dirty)
    PROVE  /\ Says(tool, b) \in {"clean", "found", "error"}
           /\ Says(tool, b) = "clean" => ~dirty \/ (tool = "semgrep" /\ b.rc = 1)
           /\ Says(tool, b) = "found" =>
                 dirty /\ (b.out # "all" => (b.rc = 0 <=> tool = "ripgrep"))
           /\ Says(tool, b) = "error" =>
                 [rc |-> b.rc, out |-> b.out] \notin Finished(tool, dirty)
<1>1. CASE tool = "ruff"
  BY <1>1 DEF Finished, Printed, Broken, Says, RuffSays
<1>2. CASE tool = "ripgrep"
  BY <1>2 DEF Finished, Printed, Broken, Says, RipgrepSays
<1>3. CASE tool = "semgrep"
  BY <1>3 DEF Finished, Printed, Broken, Says, SemgrepSays
<1> QED
  BY <1>1, <1>2, <1>3 DEF Sandboxed

\* An answer that is so keeps the evidence so.
LEMMA AnswerStep ==
    ASSUME EvidenceInv, Len(answers) < Len(input.calls),
           NEW says, NEW b, Answered(says, b), ToolResult(says, b) \in Answer,
           Evident(ToolResult(says, b), input.docker)
    PROVE  EvidenceInv'
<1>1. answers' \in Seq(Answer)
  BY DEF EvidenceInv, Evidence, Answered
<1>2. ASSUME NEW i \in 1..Len(answers') PROVE Evident(answers'[i], input.docker)
  <2>1. CASE i \in 1..Len(answers)
    BY <2>1 DEF EvidenceInv, Evidence, Answered
  <2>2. CASE i = Len(answers) + 1
    <3>1. answers'[i] = ToolResult(says, b)
      BY <2>2 DEF EvidenceInv, Evidence, Answered
    <3> QED
      BY <3>1
  <2> QED
    BY <1>2, <2>1, <2>2 DEF EvidenceInv, Evidence, Answered
<1>3. BoxOK'
  BY DEF Answered, BoxOK, NoBox, Box
<1>4. input' = input /\ input' \in Inputs
  BY DEF Answered, EvidenceInv
<1> QED
  BY <1>1, <1>2, <1>3, <1>4 DEF EvidenceInv, Evidence

----------------------------------------------------------------------------
(* The invariant.                                                          *)

LEMMA EvidenceStep ==
    ASSUME EvidenceInv, [DataNext]_vars
    PROVE  EvidenceInv'
<1>1. CASE Refuse
  <2>1. Len(answers) < Len(input.calls)
    BY <1>1 DEF Refuse, Calling
  <2>2. ToolResult("note", NoBox) \in Answer /\ Evident(ToolResult("note", NoBox), input.docker)
    BY <2>1, CallIsPlanned DEF ToolResult, NoBox, Box, Answer, Evident
  <2> QED
    BY <1>1, <2>1, <2>2, AnswerStep DEF Refuse
<1>2. CASE NoDocker
  <2>1. Len(answers) < Len(input.calls) /\ ~input.docker
    BY <1>2 DEF NoDocker, Calling
  <2>2. ToolResult("error", NoBox) \in Answer /\ Evident(ToolResult("error", NoBox), input.docker)
    BY <2>1, CallIsPlanned DEF ToolResult, NoBox, Box, Answer, Evident
  <2> QED
    BY <1>2, <2>1, <2>2, AnswerStep DEF NoDocker
<1>3. CASE StartContainer
  <2>1. PICK dirty \in BOOLEAN : box' = Box("running", dirty, 0, "none")
    BY <1>3 DEF StartContainer
  <2>2. BoxOK'
    BY <1>3, <2>1 DEF StartContainer, BoxOK, NoBox, Box, Calling, Call
  <2> QED
    BY <1>3, <2>2 DEF StartContainer, EvidenceInv, Evidence
<1>4. CASE ContainerEnds
  <2>1. Call.tool \in Sandboxed /\ Len(answers) < Len(input.calls) /\ box.dirty \in BOOLEAN
    BY <1>4 DEF ContainerEnds, EvidenceInv, BoxOK
  <2>2. PICK o \in Finished(Call.tool, box.dirty) \cup Broken(Call.tool, box.dirty) :
            box' = Box("ended", box.dirty, o.rc, o.out)
    BY <1>4 DEF ContainerEnds
  <2>3. o = [rc |-> o.rc, out |-> o.out] /\ o.rc \in Nat /\ o.out \in {"none", "passed", "part", "all"}
    <3>1. CASE o \in Broken(Call.tool, box.dirty)
      BY <3>1 DEF Broken
    <3>2. CASE o \in Finished(Call.tool, box.dirty)
      BY <2>1, <3>2 DEF Finished, Printed, Sandboxed
    <3> QED
      BY <3>1, <3>2
  <2>4. BoxOK'
    <3>1. /\ box'.is = "ended" /\ box'.dirty = box.dirty
          /\ box'.rc = o.rc /\ box'.out = o.out
          /\ box' \in [is : {"none", "running", "ended"}, dirty : BOOLEAN,
                       rc : Nat, out : {"none", "passed", "part", "all"}]
      BY <2>2, <2>3 DEF EvidenceInv, BoxOK, Box
    <3>2. UNCHANGED <<answers, input>>
      BY <1>4 DEF ContainerEnds
    <3>3. Outcome' = o /\ Call' = Call
      BY <2>3, <3>1, <3>2 DEF Outcome, Call
    <3> QED
      BY <2>1, <3>1, <3>2, <3>3, Zenon DEF BoxOK
  <2> QED
    BY <1>4, <2>4 DEF ContainerEnds, EvidenceInv, Evidence
<1>5. CASE TakeOutput
  <2>1. Call.tool \in Sandboxed /\ Len(answers) < Len(input.calls)
    BY <1>5 DEF TakeOutput, EvidenceInv, BoxOK
  <2>2. /\ Says(Call.tool, box) \in {"clean", "found", "error"}
        /\ Says(Call.tool, box) = "clean" => ~box.dirty \/ (Call.tool = "semgrep" /\ box.rc = 1)
        /\ Says(Call.tool, box) = "found" =>
              box.dirty /\ (box.out # "all" => (box.rc = 0 <=> Call.tool = "ripgrep"))
        /\ Says(Call.tool, box) = "error" => Outcome \notin Finished(Call.tool, box.dirty)
    BY <1>5, <2>1, SaysTheTruth DEF TakeOutput, EvidenceInv, BoxOK, Outcome
  <2>3. ToolResult(Says(Call.tool, box), box) \in Answer
    BY <2>1, <2>2, CallIsPlanned DEF ToolResult, Answer, EvidenceInv, BoxOK
  <2>4. Evident(ToolResult(Says(Call.tool, box), box), input.docker)
    BY <2>2 DEF ToolResult, Evident, Outcome
  <2> QED
    BY <1>5, <2>1, <2>3, <2>4, AnswerStep DEF TakeOutput
<1>6. CASE Timeout
  <2>1. Call.tool \in Sandboxed /\ Len(answers) < Len(input.calls)
    BY <1>6 DEF Timeout, EvidenceInv, BoxOK
  <2>2. /\ ToolResult("timeout", box) \in Answer
        /\ Evident(ToolResult("timeout", box), input.docker)
    BY <2>1, CallIsPlanned DEF ToolResult, Answer, Evident, EvidenceInv, BoxOK
  <2> QED
    BY <1>6, <2>1, <2>2, AnswerStep DEF Timeout
<1>7. CASE LookUpDocs
  <2>1. Len(answers) < Len(input.calls) /\ Call.tool = "docs_lookup"
    BY <1>7 DEF LookUpDocs, Calling
  <2>2. PICK dirty \in BOOLEAN, says \in {"found", "clean", "note", "error"} :
          /\ says = "found" => dirty
          /\ says = "clean" => ~dirty
          /\ Answered(says, Box("none", dirty, 0, IF says = "found" THEN "all" ELSE "none"))
    BY <1>7 DEF LookUpDocs
  <2> DEFINE b == Box("none", dirty, 0, IF says = "found" THEN "all" ELSE "none")
  <2>3. ToolResult(says, b) \in Answer /\ Evident(ToolResult(says, b), input.docker)
    BY <2>1, <2>2, CallIsPlanned DEF Sandboxed, ToolResult, NoBox, Box, Answer, Evident
  <2> QED
    BY <2>1, <2>2, <2>3, AnswerStep
<1>8. CASE FixHeaders \/ PatchSetFails \/ WriteFile \/ WriteFails \/ WorkspaceDone
           \/ FormatReview \/ OrphanEnds \/ UNCHANGED vars
  <2>1. UNCHANGED <<input, box, answers>>
    BY <1>8 DEF FixHeaders, PatchSetFails, WriteFile, WriteFails, WorkspaceDone,
                FormatReview, OrphanEnds, vars
  <2> QED
    BY <2>1 DEF EvidenceInv, BoxOK, Outcome, Call, Evidence
<1> QED
  BY <1>1, <1>2, <1>3, <1>4, <1>5, <1>6, <1>7, <1>8 DEF DataNext, ClientStep

\* The invariant from which the answers are true: how a container ended is one of
\* the ways its tool ends (ruff_tool.py, semgrep_tool.py, ripgrep_tool.py).
THEOREM EvidenceInvariance == DataSpec => []EvidenceInv
<1>1. DataInit => EvidenceInv
  BY DEF DataInit, EvidenceInv, BoxOK, NoBox, Box, Evidence
<1>2. EvidenceInv /\ [DataNext]_vars => EvidenceInv'
  BY EvidenceStep
<1> QED
  BY <1>1, <1>2, PTL DEF DataSpec

\* What the critique is told of a tool is so, whatever its container does: but
\* for a Semgrep that ends with 1 and says nothing, for what ripgrep leaves out
\* of a file with more than 50 matches, and for findings cut off by the death of
\* their tool.  And no error is told of a container that did its work in time.
THEOREM EvidenceIsTrue == DataSpec => []AnswersAreTrue
<1>1. EvidenceInv => AnswersAreTrue
  BY DEF EvidenceInv, Evidence, Evident, AnswersAreTrue
<1> QED
  BY <1>1, EvidenceInvariance, PTL

----------------------------------------------------------------------------
(* The repair of a hunk.                                                   *)

LEMMA SignsDiffer == NoSign \notin {Space, "+", "-", "split"}
<1>1. NoSign # Space
  BY Zenon DEF Space, NoSign
<1>2. NoSign # "+" /\ NoSign # "-" /\ NoSign # "split"
  BY Zenon DEF NoSign
<1> QED
  BY <1>1, <1>2

LEMMA SignFacts ==
    ASSUME NEW l \in Line
    PROVE  /\ Sign(l) = NoSign <=> l = Blank
           /\ l # Blank /\ l[1] # <<>> => Sign(l) = Head(l[1])
<1>1. l \in Seq(Seq(Character)) /\ l # <<>>
  BY DEF Line
<1>2. l[1] \in Seq(Character)
  BY <1>1
<1>3. ASSUME l[1] # <<>>
      PROVE  Head(l[1]) \in Character /\ Head(l[1]) # NoSign
  BY <1>2, <1>3 DEF Character
<1> QED
  BY <1>3, SignsDiffer DEF Sign

\* Counts are the same only if the same lines are counted.
Counted(s, signs) == {i \in 1..Len(s) : Sign(s[i]) \in signs}

LEMMA CountedFacts ==
    ASSUME NEW s \in Seq(Line), NEW signs
    PROVE  /\ IsFiniteSet(Counted(s, signs)) /\ Counted(s, signs) \in SUBSET Nat
           /\ Signed(s, signs) = Cardinality(Counted(s, signs)) /\ Signed(s, signs) \in Nat
<1> DEFINE D == 1..Len(s)
<1>1. IsFiniteSet(D) /\ D \in SUBSET Nat
  BY FS_Interval
<1>2. Counted(s, signs) \in SUBSET D
  BY DEF Counted
<1> HIDE DEF D
<1>3. IsFiniteSet(Counted(s, signs)) /\ Counted(s, signs) \in SUBSET Nat
  BY <1>1, <1>2, FS_Subset
<1>4. Signed(s, signs) = Cardinality(Counted(s, signs))
  BY DEF Signed, Counted
<1> QED
  BY <1>3, <1>4, FS_CardinalityType

LEMMA EqualCounts ==
    ASSUME NEW s \in Seq(Line), NEW few, NEW many, few \subseteq many
    PROVE  /\ Signed(s, few) <= Signed(s, many)
           /\ Signed(s, few) = Signed(s, many) <=>
                 \A i \in 1..Len(s) : Sign(s[i]) \in many => Sign(s[i]) \in few
<1>1. Counted(s, few) \in SUBSET Counted(s, many)
  BY DEF Counted
<1>2. /\ Signed(s, few) <= Signed(s, many)
      /\ Signed(s, few) = Signed(s, many) <=> Counted(s, few) = Counted(s, many)
  BY <1>1, CountedFacts, FS_Subset
<1>3. Counted(s, few) = Counted(s, many) <=>
         \A i \in 1..Len(s) : Sign(s[i]) \in many => Sign(s[i]) \in few
  BY <1>1 DEF Counted
<1> QED
  BY <1>2, <1>3

\* What is counted in a beginning of a body is counted in all of it.
LEMMA PrefixCounts ==
    ASSUME NEW s \in Seq(Line), NEW signs, NEW k \in 0..Len(s)
    PROVE  /\ SubSeq(s, 1, k) \in Seq(Line)
           /\ Signed(SubSeq(s, 1, k), signs) = Signed(s, signs) <=>
                 \A i \in (k + 1)..Len(s) : Sign(s[i]) \notin signs
<1> DEFINE t == SubSeq(s, 1, k)
<1>1. t \in Seq(Line) /\ Len(t) = k /\ \A i \in 1..k : t[i] = s[i]
  OBVIOUS
<1> HIDE DEF t
<1>2. Counted(t, signs) \in SUBSET Counted(s, signs)
  BY <1>1 DEF Counted
<1>3. Signed(t, signs) = Signed(s, signs) <=> Counted(t, signs) = Counted(s, signs)
  BY <1>1, <1>2, CountedFacts, FS_Subset
<1>4. Counted(t, signs) = Counted(s, signs) <=>
         \A i \in (k + 1)..Len(s) : Sign(s[i]) \notin signs
  BY <1>1, <1>2 DEF Counted
<1> QED
  BY <1>1, <1>3, <1>4 DEF t

\* Strip cuts at the shortest length, and there is nothing left to cut.
LEMMA StripFacts ==
    ASSUME NEW s \in Seq(Line)
    PROVE  \E n \in Cuts(s) : Strip(s) = SubSeq(s, 1, n) /\ \A m \in Cuts(s) : n <= m
<1>1. Len(s) \in Cuts(s) /\ Cuts(s) \in SUBSET Nat
  BY DEF Cuts
<1>2. \E n \in Cuts(s) : \A m \in Cuts(s) : n <= m
  BY <1>1, NatMinimum
<1> QED
  BY <1>2 DEF Strip

LEMMA StripOnce ==
    ASSUME NEW s \in Seq(Line)
    PROVE  Strip(s) \in Seq(Line) /\ Strip(Strip(s)) = Strip(s)
<1>1. PICK n \in Cuts(s) : Strip(s) = SubSeq(s, 1, n) /\ \A m \in Cuts(s) : n <= m
  BY StripFacts
<1> DEFINE t == Strip(s)
<1>2. n \in 0..Len(s)
  BY <1>1 DEF Cuts
<1>3. t \in Seq(Line) /\ Len(t) = n /\ \A i \in 1..n : t[i] = s[i]
  BY <1>1, <1>2
<1> HIDE DEF t
<1>4. Cuts(t) \subseteq Cuts(s)
  BY <1>1, <1>2, <1>3 DEF Cuts
<1>5. PICK m \in Cuts(t) : Strip(t) = SubSeq(t, 1, m)
  BY <1>3, StripFacts
<1>6. m = n
  BY <1>1, <1>2, <1>3, <1>4, <1>5 DEF Cuts
<1>7. SubSeq(t, 1, n) = t
  BY <1>2, <1>3
<1> QED
  BY <1>3, <1>5, <1>6, <1>7 DEF t

LEMMA FixHunkFacts ==
    ASSUME NEW h \in Hunk
    PROVE  /\ FixHunk(h) \in Hunk /\ FixHunk(FixHunk(h)) = FixHunk(h)
           /\ FixHunk(h).body \in Seq(Line)
           /\ FixHunk(h).old = Signed(FixHunk(h).body, {Space, "-"})
           /\ FixHunk(h).new = Signed(FixHunk(h).body, {Space, "+"})
<1>1. h.body \in Seq(Line) /\ h.start \in Nat
  BY DEF Hunk
<1>2. Strip(h.body) \in Seq(Line) /\ Strip(Strip(h.body)) = Strip(h.body)
  BY <1>1, StripOnce
<1>3. FixHunk(h) = [start |-> h.start, body |-> Strip(h.body),
                    old |-> Signed(Strip(h.body), {Space, "-"}),
                    new |-> Signed(Strip(h.body), {Space, "+"})]
  BY DEF FixHunk
<1>4. Signed(Strip(h.body), {Space, "-"}) \in Nat /\ Signed(Strip(h.body), {Space, "+"}) \in Nat
  BY <1>2, CountedFacts
<1> DEFINE b == Strip(h.body)
           old == Signed(b, {Space, "-"})
           new == Signed(b, {Space, "+"})
<1>5. FixHunk(h) = [start |-> h.start, body |-> b, old |-> old, new |-> new]
  BY <1>3
<1>6. FixHunk(FixHunk(h)) = [start |-> h.start, body |-> Strip(b),
                             old |-> Signed(Strip(b), {Space, "-"}),
                             new |-> Signed(Strip(b), {Space, "+"})]
  <2> HIDE DEF b, old, new
  <2>1. FixHunk(h).start = h.start /\ FixHunk(h).body = b
    BY <1>5
  <2> QED
    BY <2>1 DEF FixHunk
<1>7. FixHunk(FixHunk(h)) = FixHunk(h)
  <2>1. Strip(b) = b
    BY <1>2
  <2> HIDE DEF b
  <2> QED
    BY <1>5, <1>6, <2>1
<1>8. FixHunk(h) \in Hunk
  <2>1. b \in Seq(Line) /\ old \in Nat /\ new \in Nat
    BY <1>2, <1>4
  <2> HIDE DEF b, old, new
  <2>2. [start |-> h.start, body |-> b, old |-> old, new |-> new] \in Hunk
    BY <1>1, <2>1 DEF Hunk
  <2> QED
    BY <1>5, <2>2
<1> QED
  BY <1>2, <1>3, <1>7, <1>8

\* A hunk that ends, ends where its counts are met first.
LEMMA LengthFacts ==
    ASSUME NEW h \in Hunk
    PROVE  /\ h.body # <<>> /\ Ends(h) # {} =>
                 /\ Length(h) \in Ends(h) /\ Length(h) \in 1..Len(h.body)
                 /\ OldLines(SubSeq(h.body, 1, Length(h))) = h.old
                 /\ NewLines(SubSeq(h.body, 1, Length(h))) = h.new
           /\ h.body = <<>> => Length(h) = 0
<1>1. Ends(h) \in SUBSET Nat
  <2>1. Ends(h) \subseteq 1..Len(h.body) /\ Len(h.body) \in Nat
    BY DEF Ends, Hunk
  <2> QED
    BY <2>1
<1>2. Ends(h) # {} => \E k \in Ends(h) : \A e \in Ends(h) : k <= e
  BY <1>1, NatMinimum
<1>3. h.body # <<>> /\ Ends(h) # {} => Length(h) \in Ends(h)
  BY <1>2 DEF Length
<1> QED
  BY <1>3 DEF Ends, Length

\* A hunk that counts signed lines as the repair does is read to its end if and
\* only if it holds no empty line and, if it is empty itself, nothing follows.
LEMMA RepairedIsReadWhole ==
    ASSUME NEW h \in Hunk, NEW more,
           h.old = Signed(h.body, {Space, "-"}), h.new = Signed(h.body, {Space, "+"}),
           \A j \in 1..Len(h.body) : Sign(h.body[j]) \in Signs
    PROVE  ReadWhole(h, more) <=> /\ \A j \in 1..Len(h.body) : h.body[j] # Blank
                                  /\ h.body = <<>> => ~more
<1> DEFINE s == h.body
<1>1. s \in Seq(Line) /\ Len(s) \in Nat /\ \A j \in 1..Len(s) : s[j] \in Line
  <2>1. s \in Seq(Line)
    BY DEF Hunk
  <2> HIDE DEF s
  <2> QED
    BY <2>1
<1>2. h.old <= OldLines(s) /\ (h.old = OldLines(s) <=> \A j \in 1..Len(s) : s[j] # Blank)
  <2>1. \A j \in 1..Len(s) : (Sign(s[j]) \in {Space, "-", NoSign} => Sign(s[j]) \in {Space, "-"})
                                <=> s[j] # Blank
    BY <1>1, SignFacts, SignsDiffer
  <2> HIDE DEF s
  <2>2. /\ Signed(s, {Space, "-"}) <= Signed(s, {Space, "-", NoSign})
        /\ Signed(s, {Space, "-"}) = Signed(s, {Space, "-", NoSign}) <=>
              \A j \in 1..Len(s) : Sign(s[j]) \in {Space, "-", NoSign} => Sign(s[j]) \in {Space, "-"}
    BY <1>1, EqualCounts
  <2> QED
    BY <2>1, <2>2 DEF OldLines, s
<1>3. h.new = NewLines(s) <=> \A j \in 1..Len(s) : s[j] # Blank
  <2>1. \A j \in 1..Len(s) : (Sign(s[j]) \in {Space, "+", NoSign} => Sign(s[j]) \in {Space, "+"})
                                <=> s[j] # Blank
    BY <1>1, SignFacts, SignsDiffer
  <2> HIDE DEF s
  <2>2. Signed(s, {Space, "+"}) = Signed(s, {Space, "+", NoSign}) <=>
           \A j \in 1..Len(s) : Sign(s[j]) \in {Space, "+", NoSign} => Sign(s[j]) \in {Space, "+"}
    BY <1>1, EqualCounts
  <2> QED
    BY <2>1, <2>2 DEF NewLines, s
<1>4. ASSUME ReadWhole(h, more)
      PROVE  (\A j \in 1..Len(s) : s[j] # Blank) /\ (s = <<>> => ~more)
  <2>1. CASE s = <<>>
    <3>1. 1..Len(s) = {}
      BY <2>1
    <3> QED
      BY <1>4, <2>1, <3>1 DEF ReadWhole, Parses
  <2>2. CASE s # <<>>
    <3>1. OldLines(SubSeq(s, 1, Length(h))) = h.old
      BY <1>4, <2>2, LengthFacts DEF ReadWhole, Parses
    <3> QED
      BY <1>2, <1>4, <2>2, <3>1 DEF ReadWhole
  <2> QED
    BY <2>1, <2>2
<1>5. ASSUME \A j \in 1..Len(s) : s[j] # Blank, s = <<>> => ~more
      PROVE  ReadWhole(h, more)
  <2>1. h.old = OldLines(s) /\ h.new = NewLines(s)
    BY <1>2, <1>3, <1>5
  <2>2. CASE s = <<>>
    <3>0. SubSeq(<<>>, 1, 0) = <<>>
      OBVIOUS
    <3>1. Length(h) = 0 /\ SubSeq(s, 1, 0) = s
      BY <2>2, <3>0, LengthFacts
    <3>2. Signed(<<>>, {Space, "-"}) = 0 /\ Signed(<<>>, {Space, "+"}) = 0
      <4>1. Counted(<<>>, {Space, "-"}) = {} /\ Counted(<<>>, {Space, "+"}) = {}
        <5>1. 1..Len(<<>>) = {}
          OBVIOUS
        <5> QED
          BY <5>1 DEF Counted
      <4> QED
        BY <4>1, FS_EmptySet DEF Counted, Signed
    <3> QED
      BY <1>5, <2>2, <3>1, <3>2 DEF ReadWhole, Parses
  <2>3. CASE s # <<>>
    <3>1. SubSeq(s, 1, Len(s)) = s /\ Len(s) \in 1..Len(s)
      <4> HIDE DEF s
      <4>1. SubSeq(s, 1, Len(s)) = s
        BY <1>1
      <4>2. Len(s) # 0
        BY <1>1, <2>3
      <4> QED
        BY <1>1, <4>1, <4>2
    <3>2. Len(s) \in Ends(h)
      BY <2>1, <3>1 DEF Ends, Signs
    <3> QED
      BY <2>1, <2>3, <3>2, LengthFacts DEF ReadWhole, Parses
  <2> QED
    BY <2>2, <2>3
<1> QED
  BY <1>4, <1>5

LEMMA FixDiffFacts ==
    ASSUME NEW file \in File
    PROVE  /\ FixDiff(file) \in File /\ FixDiff(file).path = file.path
           /\ Len(FixDiff(file).hunks) = Len(file.hunks)
           /\ \A i \in 1..Len(file.hunks) : FixDiff(file).hunks[i] = FixHunk(file.hunks[i])
<1> DEFINE s == file.hunks
           t == [i \in DOMAIN s |-> FixHunk(s[i])]
<1>1. file = [path |-> file.path, hunks |-> s] /\ file.path \in Seq(STRING) /\ s \in Seq(Hunk)
  BY DEF File
<1>2. FixDiff(file) = [path |-> file.path, hunks |-> t]
  <2>1. FixDiff(file) = [file EXCEPT !.hunks = t]
    BY DEF FixDiff
  <2> HIDE DEF t
  <2> QED
    BY <2>1 DEF File
<1>3. t \in Seq(Hunk) /\ Len(t) = Len(s)
  <2> HIDE DEF s
  <2>1. Len(s) \in Nat /\ DOMAIN s = 1..Len(s)
    BY <1>1
  <2>2. \A i \in 1..Len(s) : FixHunk(s[i]) \in Hunk
    BY <1>1, FixHunkFacts
  <2> QED
    BY <2>1, <2>2, IsASeq
<1> QED
  BY <1>1, <1>2, <1>3 DEF File

----------------------------------------------------------------------------
(* The invariant of a review's data.                                       *)

\* The diff is that of the input, repaired if it was to be.
Repaired == [i \in DOMAIN input.files |-> FixDiff(input.files[i])]

DiffInv ==
    /\ at \in Places
    /\ at = "edited" => input.fix /\ written = 0
    /\ diff = IF at = "edited" \/ ~input.fix THEN input.files ELSE Repaired

\* Each path that was written has the content of the last file written to it.
Last(f) == \A g \in (f + 1)..written : diff[g].path # diff[f].path

WorkspaceInv ==
    /\ written \in 0..Len(diff)
    /\ at \in {"tools", "done"} => written = Len(diff) /\ PatchSetParses
    /\ DOMAIN ws = {diff[f].path : f \in 1..written}
    /\ \A f \in 1..written : Last(f) => ws[diff[f].path] = Content(diff[f])

\* An answer for each call of the plan so far, a timeout for each orphan.
Timeouts == {i \in DOMAIN answers : answers[i].says = "timeout"}

AnswersInv ==
    /\ Len(answers) <= Len(input.calls)
    /\ \A i \in DOMAIN answers : answers[i].tool = input.calls[i].tool
    /\ box.is # "none" => at = "tools"
    /\ orphans \in Nat /\ orphans <= Cardinality(Timeouts)

BodyInv == body = IF at = "done" THEN Format(input.findings) ELSE <<>>

DataInv == EvidenceInv /\ DiffInv /\ WorkspaceInv /\ AnswersInv /\ BodyInv

LEMMA DiffFacts ==
    ASSUME input \in Inputs, DiffInv
    PROVE  /\ diff \in Seq(File) /\ Len(diff) = Len(input.files)
           /\ input.fix => Len(diff) = 1
           /\ input.fix /\ at # "edited" => diff[1] = FixDiff(input.files[1])
<1> DEFINE s == input.files
<1>1. s \in Seq(File) /\ (input.fix => Len(s) = 1)
  BY InputAssumption
<1>2. Repaired \in Seq(File) /\ Len(Repaired) = Len(s)
      /\ \A i \in 1..Len(s) : Repaired[i] = FixDiff(s[i])
  <2>1. Repaired = [i \in DOMAIN s |-> FixDiff(s[i])]
    BY DEF Repaired
  <2> HIDE DEF s
  <2>2. Len(s) \in Nat /\ DOMAIN s = 1..Len(s)
    BY <1>1
  <2>3. \A i \in 1..Len(s) : FixDiff(s[i]) \in File
    BY <1>1, FixDiffFacts
  <2> QED
    BY <2>1, <2>2, <2>3, IsASeq
<1> HIDE DEF s
<1>3. diff = IF at = "edited" \/ ~input.fix THEN s ELSE Repaired
  BY DEF DiffInv, s
<1> QED
  BY <1>1, <1>2, <1>3 DEF s

\* Repairing once is enough, and a repaired hunk is read to its end unless it
\* holds an empty line or is empty and not the last (fix_eval_set_headers.py 7).
LEMMA FinalRepair ==
    ASSUME input \in Inputs, DiffInv
    PROVE  RepairIsFinal
<1> SUFFICES ASSUME input.fix, at # "edited", NEW i \in 1..Len(diff[1].hunks)
             PROVE  /\ FixHunk(diff[1].hunks[i]) = diff[1].hunks[i]
                    /\ (\A j \in 1..Len(diff[1].hunks[i].body) :
                           Sign(diff[1].hunks[i].body[j]) \in Signs)
                       => (ReadWhole(diff[1].hunks[i], i < Len(diff[1].hunks)) <=>
                              /\ \A j \in 1..Len(diff[1].hunks[i].body) :
                                    diff[1].hunks[i].body[j] # Blank
                              /\ diff[1].hunks[i].body = <<>> => ~(i < Len(diff[1].hunks)))
  BY DEF RepairIsFinal
<1> DEFINE file == input.files[1]
           h == diff[1].hunks[i]
<1>1. file \in File /\ diff[1] = FixDiff(file)
  <2>1. input.files \in Seq(File) /\ Len(input.files) = 1
    BY InputAssumption
  <2> QED
    BY <2>1, DiffFacts
<1>2. file.hunks \in Seq(Hunk) /\ i \in 1..Len(file.hunks) /\ h = FixHunk(file.hunks[i])
  <2>1. file.hunks \in Seq(Hunk)
    BY <1>1 DEF File
  <2> QED
    BY <1>1, <2>1, FixDiffFacts
<1>3. file.hunks[i] \in Hunk
  BY <1>2
<1> HIDE DEF h
<1>4. /\ h \in Hunk /\ FixHunk(h) = h
      /\ h.old = Signed(h.body, {Space, "-"}) /\ h.new = Signed(h.body, {Space, "+"})
  BY <1>2, <1>3, FixHunkFacts
<1> QED
  BY <1>4, RepairedIsReadWhole DEF h

LEMMA DiffStep ==
    ASSUME DataInv, [DataNext]_vars
    PROVE  DiffInv'
<1>1. CASE FixHeaders
  <2>1. diff = input.files /\ written = 0 /\ input.fix
    BY <1>1 DEF FixHeaders, DataInv, DiffInv
  <2>2. diff' = [i \in DOMAIN diff |-> FixDiff(diff[i])] /\ at' = "workspace"
        /\ UNCHANGED input
    BY <1>1 DEF FixHeaders
  <2>3. diff' = Repaired'
    BY <2>1, <2>2 DEF Repaired
  <2> QED
    BY <2>1, <2>2, <2>3 DEF DiffInv, Places
<1>2. CASE PatchSetFails \/ WriteFile \/ WriteFails \/ WorkspaceDone
  <2>1. at = "workspace" /\ at' \in {"workspace", "tools", "raised"}
        /\ UNCHANGED <<input, diff>>
    BY <1>2 DEF PatchSetFails, WriteFile, WriteFails, WorkspaceDone, Materializing
  <2> QED
    BY <2>1 DEF DataInv, DiffInv, Repaired, Places
<1>3. CASE FormatReview
  BY <1>3 DEF FormatReview, DataInv, DiffInv, Repaired, Places
<1>4. CASE UNCHANGED <<input, at, diff, written>>
  BY <1>4 DEF DataInv, DiffInv, Repaired, Places
<1> QED
  BY <1>1, <1>2, <1>3, <1>4 DEF DataNext, ClientStep, Refuse, NoDocker, StartContainer,
     TakeOutput, Timeout, LookUpDocs, Answered, ContainerEnds, OrphanEnds, vars

\* A file that is written is the last one of its path, and no other path changes.
LEMMA WorkspaceStep ==
    ASSUME DataInv, [DataNext]_vars
    PROVE  WorkspaceInv'
<1>0. diff \in Seq(File) /\ Len(diff) \in Nat /\ WorkspaceInv
  BY DiffFacts DEF DataInv, EvidenceInv
<1>1. CASE FixHeaders
  <2>1. written = 0 /\ written' = 0 /\ at' = "workspace" /\ UNCHANGED ws
    BY <1>1 DEF FixHeaders, DataInv, DiffInv
  <2>2. Len(diff') \in Nat
    <3>1. diff' = [i \in DOMAIN diff |-> FixDiff(diff[i])]
      BY <1>1 DEF FixHeaders
    <3>2. DOMAIN diff = 1..Len(diff)
      BY <1>0
    <3> QED
      BY <1>0, <3>1, <3>2
  <2> QED
    BY <1>0, <2>1, <2>2 DEF WorkspaceInv
<1>2. CASE WriteFile
  <2> DEFINE file == diff[written + 1]
             paths == {diff[f].path : f \in 1..written}
  <2>1. /\ at = "workspace" /\ written \in 0..(Len(diff) - 1)
        /\ ws' = [q \in (DOMAIN ws) \cup {file.path} |->
                     IF q = file.path THEN Content(file) ELSE ws[q]]
        /\ written' = written + 1
        /\ UNCHANGED <<at, diff>>
    BY <1>0, <1>2 DEF WriteFile, Materializing, WorkspaceInv
  <2>2. DOMAIN ws' = {diff'[f].path : f \in 1..written'}
    <3>1. DOMAIN ws' = paths \cup {file.path}
      BY <1>0, <2>1 DEF WorkspaceInv
    <3>2. 1..written' = (1..written) \cup {written + 1}
      BY <2>1
    <3> QED
      BY <2>1, <3>1, <3>2
  <2>3. ASSUME NEW f \in 1..written', Last(f)'
        PROVE  ws'[diff'[f].path] = Content(diff'[f])
    <3>1. CASE f = written + 1
      BY <2>1, <3>1
    <3>2. CASE f # written + 1
      <4>1. f \in 1..written /\ Last(f)
        BY <2>1, <2>3, <3>2 DEF Last
      <4>2. diff[f].path # file.path
        BY <2>1, <2>3, <4>1 DEF Last
      <4>3. diff[f].path \in DOMAIN ws /\ ws[diff[f].path] = Content(diff[f])
        BY <1>0, <4>1 DEF WorkspaceInv
      <4> HIDE DEF file
      <4> QED
        BY <2>1, <4>2, <4>3
    <3> QED
      BY <3>1, <3>2
  <2>4. written' \in 0..Len(diff') /\ at' \notin {"tools", "done"}
    BY <1>0, <2>1
  <2> QED
    BY <2>2, <2>3, <2>4 DEF WorkspaceInv
<1>3. CASE PatchSetFails \/ WriteFails \/ WorkspaceDone
  <2>1. /\ UNCHANGED <<diff, written, ws>>
        /\ at' \in {"tools", "done"} => written = Len(diff) /\ PatchSetParses
    BY <1>3 DEF PatchSetFails, WriteFails, WorkspaceDone, Materializing
  <2> QED
    BY <1>0, <2>1 DEF WorkspaceInv, Last, PatchSetParses
<1>4. CASE FormatReview
  <2>1. UNCHANGED <<diff, written, ws>> /\ at = "tools"
    BY <1>4 DEF FormatReview
  <2> QED
    BY <1>0, <2>1 DEF WorkspaceInv, Last, PatchSetParses
<1>5. CASE UNCHANGED <<at, diff, written, ws>>
  BY <1>0, <1>5 DEF WorkspaceInv, Last, PatchSetParses
<1> QED
  BY <1>1, <1>2, <1>3, <1>4, <1>5 DEF DataNext, ClientStep, Refuse, NoDocker,
     StartContainer, TakeOutput, Timeout, LookUpDocs, Answered, ContainerEnds,
     OrphanEnds, vars

\* The answer to a call is the next one of the plan, and counts if it timed out.
LEMMA TimeoutsGrow ==
    ASSUME EvidenceInv, AnswersInv, Len(answers) < Len(input.calls),
           NEW says, NEW b, Answered(says, b)
    PROVE  /\ Len(answers') <= Len(input'.calls)
           /\ \A i \in DOMAIN answers' : answers'[i].tool = input'.calls[i].tool
           /\ box'.is = "none"
           /\ Cardinality(Timeouts) \in Nat /\ Cardinality(Timeouts') \in Nat
           /\ Cardinality(Timeouts') >= Cardinality(Timeouts) + (IF says = "timeout" THEN 1 ELSE 0)
<1> DEFINE n == Len(answers)
           r == ToolResult(says, b)
<1>1. answers \in Seq(Answer) /\ n \in Nat /\ DOMAIN answers = 1..n
  BY DEF EvidenceInv, Evidence
<1>2. answers' = Append(answers, r) /\ box' = NoBox /\ UNCHANGED input
  BY DEF Answered
<1>3. input.calls \in Seq([tool : Tools, argued : BOOLEAN])
  BY InputAssumption DEF EvidenceInv
<1>4. r.tool = input.calls[n + 1].tool /\ r.says = says
  BY DEF ToolResult, Call
<1>5. Len(answers') = n + 1 /\ DOMAIN answers' = 1..(n + 1)
      /\ \A i \in 1..(n + 1) : answers'[i] = IF i = n + 1 THEN r ELSE answers[i]
  <2> HIDE DEF r
  <2> QED
    BY <1>1, <1>2
<1>6. Len(answers') <= Len(input'.calls)
  BY <1>1, <1>2, <1>3, <1>5
<1>7. \A i \in DOMAIN answers' : answers'[i].tool = input'.calls[i].tool
  BY <1>1, <1>2, <1>4, <1>5 DEF AnswersInv
<1>8. IsFiniteSet(Timeouts) /\ Cardinality(Timeouts) \in Nat /\ n + 1 \notin Timeouts
  <2>1. Timeouts \in SUBSET (1..n) /\ IsFiniteSet(1..n)
    BY <1>1, FS_Interval DEF Timeouts
  <2>2. IsFiniteSet(Timeouts)
    BY <2>1, FS_Subset
  <2> QED
    BY <1>1, <2>1, <2>2, FS_CardinalityType
<1>9. Timeouts' = IF says = "timeout" THEN Timeouts \cup {n + 1} ELSE Timeouts
  <2> HIDE DEF r
  <2> QED
    BY <1>1, <1>4, <1>5 DEF Timeouts
<1>10. Cardinality(Timeouts') = IF says = "timeout" THEN Cardinality(Timeouts) + 1
                              ELSE Cardinality(Timeouts)
  BY <1>8, <1>9, FS_AddElement
<1> QED
  BY <1>2, <1>6, <1>7, <1>8, <1>10 DEF NoBox, Box

LEMMA AnswersStep ==
    ASSUME DataInv, [DataNext]_vars
    PROVE  AnswersInv'
<1>0. EvidenceInv /\ AnswersInv
  BY DEF DataInv
<1>1. CASE Refuse \/ NoDocker \/ LookUpDocs
  <2>1. PICK says, b : Answered(says, b) /\ Len(answers) < Len(input.calls)
                       /\ UNCHANGED orphans
    BY <1>1 DEF Refuse, NoDocker, LookUpDocs, Calling
  <2> QED
    BY <1>0, <2>1, TimeoutsGrow DEF AnswersInv
<1>2. CASE TakeOutput \/ Timeout
  <2>1. Len(answers) < Len(input.calls)
    BY <1>0, <1>2 DEF TakeOutput, Timeout, EvidenceInv, BoxOK
  <2>2. PICK says : /\ Answered(says, box)
                    /\ orphans' \in {orphans, orphans + (IF says = "timeout" THEN 1 ELSE 0)}
    BY <1>0, <1>2 DEF TakeOutput, Timeout, AnswersInv
  <2> QED
    BY <1>0, <2>1, <2>2, TimeoutsGrow DEF AnswersInv
<1>3. CASE OrphanEnds
  <2>1. UNCHANGED <<answers, input, box, at>> /\ orphans' = orphans - 1 /\ orphans > 0
    BY <1>3 DEF OrphanEnds
  <2>2. Timeouts' = Timeouts
    BY <2>1 DEF Timeouts
  <2>3. Cardinality(Timeouts) \in Nat
    <3>1. answers \in Seq(Answer)
      BY <1>0 DEF EvidenceInv, Evidence
    <3>2. Timeouts \in SUBSET (1..Len(answers)) /\ IsFiniteSet(1..Len(answers))
      BY <3>1, FS_Interval DEF Timeouts
    <3> QED
      BY <3>2, FS_Subset, FS_CardinalityType
  <2> QED
    BY <1>0, <2>1, <2>2, <2>3 DEF AnswersInv
<1>4. CASE StartContainer
  BY <1>0, <1>4 DEF StartContainer, Calling, AnswersInv, Timeouts
<1>5. CASE ContainerEnds
  BY <1>0, <1>5 DEF ContainerEnds, AnswersInv, Timeouts
<1>6. CASE FixHeaders \/ PatchSetFails \/ WriteFile \/ WriteFails \/ WorkspaceDone
           \/ FormatReview \/ UNCHANGED vars
  <2>1. /\ UNCHANGED <<input, box, orphans, answers>>
        /\ at = "tools" => at' = "tools" \/ Len(answers) = Len(input.calls)
    BY <1>6 DEF FixHeaders, PatchSetFails, WriteFile, WriteFails, WorkspaceDone,
                Materializing, FormatReview, vars
  <2>2. box.is # "none" => Len(answers) # Len(input.calls)
    <3>1. answers \in Seq(Answer) /\ input.calls \in Seq([tool : Tools, argued : BOOLEAN])
      BY <1>0, InputAssumption DEF EvidenceInv, Evidence
    <3> QED
      BY <1>0, <3>1 DEF EvidenceInv, BoxOK
  <2> QED
    BY <1>0, <2>1, <2>2 DEF AnswersInv, Timeouts
<1> QED
  BY <1>1, <1>2, <1>3, <1>4, <1>5, <1>6 DEF DataNext, ClientStep

LEMMA BodyStep ==
    ASSUME DataInv, [DataNext]_vars
    PROVE  BodyInv'
<1>1. CASE FormatReview
  BY <1>1 DEF FormatReview, BodyInv
<1>2. CASE UNCHANGED <<input, body>> /\ at # "done" /\ at' # "done"
  BY <1>2 DEF BodyInv, DataInv
<1>3. CASE UNCHANGED <<input, body, at>>
  BY <1>3 DEF BodyInv, DataInv
<1> QED
  BY <1>1, <1>2, <1>3 DEF DataNext, ClientStep, FixHeaders, PatchSetFails, WriteFile,
     WriteFails, WorkspaceDone, Materializing, Refuse, NoDocker, StartContainer,
     TakeOutput, Timeout, LookUpDocs, Answered, ContainerEnds, OrphanEnds, vars

\* The invariant of a review's data: what there is at each place was made, by the
\* steps before it, of the input (workspace.py 21-46, run_tool.py 39-66).
THEOREM DataInvariance == DataSpec => []DataInv
<1>1. DataInit => DataInv
  <2> SUFFICES ASSUME DataInit PROVE DataInv
    OBVIOUS
  <2>1. input \in Inputs /\ input.files \in Seq(File)
        /\ input.calls \in Seq([tool : Tools, argued : BOOLEAN])
    BY InputAssumption DEF DataInit
  <2>2. EvidenceInv
    BY DEF DataInit, EvidenceInv, BoxOK, NoBox, Box, Evidence
  <2>3. DiffInv
    BY DEF DataInit, DiffInv, Places
  <2>4. WorkspaceInv
    BY <2>1 DEF DataInit, WorkspaceInv
  <2>5. AnswersInv
    <3>1. Timeouts = {}
      BY DEF DataInit, Timeouts
    <3> QED
      BY <2>1, <3>1, FS_EmptySet DEF DataInit, AnswersInv, NoBox, Box
  <2>6. BodyInv
    BY DEF DataInit, BodyInv
  <2> QED
    BY <2>2, <2>3, <2>4, <2>5, <2>6 DEF DataInv
<1>2. DataInv /\ [DataNext]_vars => DataInv'
  BY EvidenceStep, DiffStep, WorkspaceStep, AnswersStep, BodyStep DEF DataInv
<1> QED
  BY <1>1, <1>2, PTL DEF DataSpec

\* A repaired diff needs no second repair, and a repaired hunk of signed lines is
\* read to its end if and only if it holds no empty line
\* (fix_eval_set_headers.py 7).
THEOREM RepairNeedsNoRepair == DataSpec => []RepairIsFinal
<1>1. DataInv => RepairIsFinal
  BY FinalRepair DEF DataInv, EvidenceInv
<1> QED
  BY <1>1, DataInvariance, PTL

----------------------------------------------------------------------------
(* The comment.                                                            *)

\* By the key of sorted(), and with the severity in front of it.
Follows(f, g) == Rank(f) < Rank(g) \/ (Rank(f) = Rank(g) /\ Before(f, g))

LEMMA RankFacts ==
    ASSUME NEW f \in Finding
    PROVE  /\ Rank(f) \in 1..3
           /\ \A i \in 1..3 : f.sev = Severities[i] <=> Rank(f) = i
<1>1. f.sev \in {"high", "medium", "low"}
  BY DEF Finding
<1>2. DOMAIN Severities = 1..3 /\ Severities[1] = "high" /\ Severities[2] = "medium"
      /\ Severities[3] = "low"
  BY DEF Severities
<1>3. \E i \in 1..3 : Severities[i] = f.sev
  BY <1>1, <1>2
<1>4. Rank(f) \in 1..3 /\ Severities[Rank(f)] = f.sev
  BY <1>2, <1>3 DEF Rank
<1>5. \A i, j \in 1..3 : Severities[i] = Severities[j] => i = j
  BY <1>2
<1> QED
  BY <1>4, <1>5

LEMMA KeyFacts ==
    ASSUME NEW f \in Finding
    PROVE  f.file \in Nat /\ SortLine(f) \in Int /\ (f.line # NoLine => f.line \in Int)
BY InputAssumption DEF Finding, SortLine

\* sorted() puts what it is given in an order: stability settles the ties.
LEMMA AheadOrders ==
    ASSUME NEW s \in Seq(Finding), NEW D \in SUBSET (1..Len(s))
    PROVE  Orders(Ahead(s, D), D)
<1>1. \A i \in D : s[i] \in Finding /\ i \in Nat
  OBVIOUS
<1> DEFINE B(i, j) == Before(s[i], s[j])
           A(i, j) == B(i, j) \/ (~B(j, i) /\ i < j)
<1>2. \A i, j \in D : <<i, j>> \in Ahead(s, D) <=> A(i, j)
  BY DEF Ahead
<1>3. \A i, j, k \in D : /\ ~B(i, i)
                         /\ B(i, j) /\ B(j, k) => B(i, k)
                         /\ B(i, j) /\ ~B(k, j) => B(i, k)
                         /\ ~B(j, i) /\ B(j, k) => B(i, k)
                         /\ ~B(j, i) /\ ~B(k, j) => ~B(k, i)
  <2> SUFFICES ASSUME NEW i \in D, NEW j \in D, NEW k \in D
               PROVE  /\ ~B(i, i)
                      /\ B(i, j) /\ B(j, k) => B(i, k)
                      /\ B(i, j) /\ ~B(k, j) => B(i, k)
                      /\ ~B(j, i) /\ B(j, k) => B(i, k)
                      /\ ~B(j, i) /\ ~B(k, j) => ~B(k, i)
    OBVIOUS
  <2>1. /\ s[i].file \in Nat /\ s[j].file \in Nat /\ s[k].file \in Nat
        /\ SortLine(s[i]) \in Int /\ SortLine(s[j]) \in Int /\ SortLine(s[k]) \in Int
    BY <1>1, KeyFacts
  <2> DEFINE fi == s[i].file
             fj == s[j].file
             fk == s[k].file
             li == SortLine(s[i])
             lj == SortLine(s[j])
             lk == SortLine(s[k])
  <2>2. /\ B(i, i) <=> (fi < fi \/ (fi = fi /\ li < li))
        /\ B(i, j) <=> (fi < fj \/ (fi = fj /\ li < lj))
        /\ B(j, i) <=> (fj < fi \/ (fj = fi /\ lj < li))
        /\ B(j, k) <=> (fj < fk \/ (fj = fk /\ lj < lk))
        /\ B(k, j) <=> (fk < fj \/ (fk = fj /\ lk < lj))
        /\ B(i, k) <=> (fi < fk \/ (fi = fk /\ li < lk))
        /\ B(k, i) <=> (fk < fi \/ (fk = fi /\ lk < li))
    BY Zenon DEF Before
  <2>3. fi \in Int /\ fj \in Int /\ fk \in Int /\ li \in Int /\ lj \in Int /\ lk \in Int
    BY <2>1
  <2> HIDE DEF B, fi, fj, fk, li, lj, lk
  <2> QED
    BY <2>2, <2>3
<1> HIDE DEF B
<1>4. \A i \in D : ~A(i, i)
  BY <1>1, <1>3
<1>5. \A i, j \in D : i # j => A(i, j) \/ A(j, i)
  BY <1>1
<1>6. \A i, j, k \in D : A(i, j) /\ A(j, k) => A(i, k)
  <2> SUFFICES ASSUME NEW i \in D, NEW j \in D, NEW k \in D, A(i, j), A(j, k)
               PROVE  A(i, k)
    OBVIOUS
  <2>1. CASE B(i, j) /\ B(j, k)
    BY <1>3, <2>1
  <2>2. CASE B(i, j) /\ ~B(k, j)
    BY <1>3, <2>2
  <2>3. CASE ~B(j, i) /\ B(j, k)
    BY <1>3, <2>3
  <2>4. CASE ~B(j, i) /\ i < j /\ ~B(k, j) /\ j < k
    BY <1>1, <1>3, <2>4
  <2> QED
    BY <2>1, <2>2, <2>3, <2>4
<1> HIDE DEF A
<1> QED
  BY <1>2, <1>4, <1>5, <1>6 DEF Orders

\* p lists the findings of one severity as sorted() does.
GroupedBy(p, s, i) ==
    /\ p \in Seq(1..Len(s))
    /\ Group(s, Severities[i]) = [n \in 1..Len(p) |-> s[p[n]]]
    /\ Len(p) = Cardinality({k \in 1..Len(s) : Rank(s[k]) = i})
    /\ \A n \in 1..Len(p) : Rank(s[p[n]]) = i
    /\ \A m, n \in 1..Len(p) : m < n =>
          \/ Before(s[p[m]], s[p[n]])
          \/ ~Before(s[p[n]], s[p[m]]) /\ p[m] < p[n]

LEMMA GroupFacts ==
    ASSUME NEW s \in Seq(Finding), NEW i \in 1..3
    PROVE  \E p : GroupedBy(p, s, i)
<1> DEFINE N == 1..Len(s)
           D == {k \in N : Rank(s[k]) = i}
           R == Ahead(s, D)
           p == Listed(R, D)
           n == Cardinality(D)
<1>1. {k \in DOMAIN s : s[k].sev = Severities[i]} = D
  BY RankFacts
<1>2. IsFiniteSet(D) /\ D \in SUBSET N /\ n \in Nat
  <2>1. D \in SUBSET N /\ IsFiniteSet(N)
    BY FS_Interval
  <2> HIDE DEF D
  <2> QED
    BY <2>1, FS_Subset, FS_CardinalityType
<1>3. Orders(R, D)
  <2> HIDE DEF D
  <2> QED
    BY <1>2, AheadOrders
<1>4. p \in [1..n -> D] /\ \A j, k \in 1..n : j < k => <<p[j], p[k]>> \in R
  <2> HIDE DEF D, R
  <2> QED
    BY <1>2, <1>3, ListedFacts
<1>5. Group(s, Severities[i]) = [k \in DOMAIN p |-> s[p[k]]]
  <2> HIDE DEF D, p
  <2> QED
    BY <1>1 DEF Group, p
<1>6. p \in Seq(N) /\ Len(p) = n /\ DOMAIN p = 1..n
  <2> HIDE DEF D, R, n, p, N
  <2> QED
    BY <1>2, <1>4, IsASeq
<1>7. \A k \in 1..n : p[k] \in D /\ Rank(s[p[k]]) = i
  <2>1. \A k \in 1..n : p[k] \in D
    <3> HIDE DEF D, n, p
    <3> QED
      BY <1>4
  <2> QED
    BY <2>1
<1>8. \A j, k \in 1..n : j < k =>
          \/ Before(s[p[j]], s[p[k]])
          \/ ~Before(s[p[k]], s[p[j]]) /\ p[j] < p[k]
  <2> HIDE DEF D, n, p
  <2> QED
    BY <1>4 DEF Ahead
<1> HIDE DEF p, n
<1>9. GroupedBy(p, s, i)
  BY <1>5, <1>6, <1>7, <1>8 DEF GroupedBy, n
<1> QED
  BY <1>9

\* How Format orders two findings of s.
Precedes(s, i, j) ==
    \/ Follows(s[i], s[j])
    \/ Rank(s[i]) = Rank(s[j]) /\ ~Before(s[j], s[i]) /\ i < j

\* P is the order in which Format puts the findings of s.
FormatOrder(P, s) ==
    /\ P \in [1..Len(s) -> 1..Len(s)]
    /\ \A j \in 1..Len(s) : \E i \in 1..Len(s) : P[i] = j
    /\ \A m, n \in 1..Len(s) : m < n => Precedes(s, P[m], P[n])
    /\ Format(s) = [n \in 1..Len(s) |-> s[P[n]]]

LEMMA DisjointUnion ==
    ASSUME NEW S, NEW T, IsFiniteSet(S), IsFiniteSet(T), S \cap T = {}
    PROVE  IsFiniteSet(S \cup T) /\ Cardinality(S \cup T) = Cardinality(S) + Cardinality(T)
<1>1. Cardinality(S) \in Nat /\ Cardinality(T) \in Nat
  BY FS_CardinalityType
<1>2. /\ IsFiniteSet(S \cup T)
      /\ Cardinality(S \cup T) = Cardinality(S) + Cardinality(T) - Cardinality(S \cap T)
  BY FS_Union
<1>3. Cardinality(S \cap T) = 0
  BY FS_EmptySet
<1> QED
  BY <1>1, <1>2, <1>3

\* A finding has one severity: the three groups hold each once.
LEMMA GroupsAreAll ==
    ASSUME NEW s \in Seq(Finding), NEW p, NEW q, NEW r,
           GroupedBy(p, s, 1), GroupedBy(q, s, 2), GroupedBy(r, s, 3)
    PROVE  Len(p) + Len(q) + Len(r) = Len(s)
<1> DEFINE N == 1..Len(s)
           D(i) == {k \in N : Rank(s[k]) = i}
<1>1. IsFiniteSet(N) /\ Cardinality(N) = Len(s) /\ Len(s) \in Nat
  BY FS_Interval, SMTT(30)
<1>2. N = (D(1) \cup D(2)) \cup D(3) /\ D(1) \cap D(2) = {} /\ (D(1) \cup D(2)) \cap D(3) = {}
  <2>1. \A k \in N : Rank(s[k]) \in 1..3
    BY RankFacts
  <2> QED
    BY <2>1
<1>3. Len(p) = Cardinality(D(1)) /\ Len(q) = Cardinality(D(2)) /\ Len(r) = Cardinality(D(3))
  BY DEF GroupedBy
<1>4. D(1) \in SUBSET N /\ D(2) \in SUBSET N /\ D(3) \in SUBSET N
  OBVIOUS
<1> HIDE DEF N, D
<1>5. IsFiniteSet(D(1)) /\ IsFiniteSet(D(2)) /\ IsFiniteSet(D(3))
  BY <1>1, <1>4, FS_Subset
<1>6. Cardinality(D(1)) \in Nat /\ Cardinality(D(2)) \in Nat /\ Cardinality(D(3)) \in Nat
  BY <1>5, FS_CardinalityType
<1> DEFINE DD == D(1) \cup D(2)
<1>7. IsFiniteSet(DD) /\ Cardinality(DD) = Cardinality(D(1)) + Cardinality(D(2))
  BY <1>2, <1>5, <1>6, DisjointUnion
<1>8. DD \cap D(3) = {} /\ N = DD \cup D(3)
  BY <1>2
<1> HIDE DEF DD
<1>9. Cardinality(DD \cup D(3)) = Cardinality(DD) + Cardinality(D(3))
  BY <1>5, <1>7, <1>8, DisjointUnion
<1> QED
  BY <1>1, <1>3, <1>6, <1>7, <1>8, <1>9

LEMMA FormatFacts ==
    ASSUME NEW s \in Seq(Finding)
    PROVE  \E P : FormatOrder(P, s)
<1> DEFINE N == Len(s)
<1>1. PICK p : GroupedBy(p, s, 1)
  BY GroupFacts
<1>2. PICK q : GroupedBy(q, s, 2)
  BY GroupFacts
<1>3. PICK r : GroupedBy(r, s, 3)
  BY GroupFacts
<1> DEFINE a == Len(p)
           b == Len(q)
           c == Len(r)
           P == [n \in 1..N |-> IF n <= a THEN p[n] ELSE
                                IF n <= a + b THEN q[n - a] ELSE r[n - (a + b)]]
<1>4. a \in Nat /\ b \in Nat /\ c \in Nat /\ N \in Nat /\ a + b + c = N
  <2>1. p \in Seq(1..N) /\ q \in Seq(1..N) /\ r \in Seq(1..N)
    BY <1>1, <1>2, <1>3 DEF GroupedBy
  <2> QED
    BY <1>1, <1>2, <1>3, <2>1, GroupsAreAll
<1>4a. /\ \A n \in 1..a : p[n] \in 1..N /\ Rank(s[p[n]]) = 1
       /\ \A n \in 1..b : q[n] \in 1..N /\ Rank(s[q[n]]) = 2
       /\ \A n \in 1..c : r[n] \in 1..N /\ Rank(s[r[n]]) = 3
  <2>1. ASSUME NEW i \in 1..3, NEW o, GroupedBy(o, s, i)
        PROVE  \A n \in 1..Len(o) : o[n] \in 1..N /\ Rank(s[o[n]]) = i
    <3>1. o \in Seq(1..N) /\ \A n \in 1..Len(o) : Rank(s[o[n]]) = i
      BY <2>1 DEF GroupedBy
    <3>2. \A n \in 1..Len(o) : o[n] \in 1..N
      BY <3>1
    <3> QED
      BY <3>1, <3>2
  <2> QED
    BY <1>1, <1>2, <1>3, <2>1
<1>5. ASSUME NEW n \in 1..N
      PROVE  /\ n <= a => n \in 1..a /\ P[n] = p[n] /\ p[n] \in 1..N /\ Rank(s[P[n]]) = 1
             /\ n > a /\ n <= a + b => /\ n - a \in 1..b /\ P[n] = q[n - a]
                                       /\ q[n - a] \in 1..N /\ Rank(s[P[n]]) = 2
             /\ n > a + b => /\ n - (a + b) \in 1..c /\ P[n] = r[n - (a + b)]
                             /\ r[n - (a + b)] \in 1..N /\ Rank(s[P[n]]) = 3
  <2>1. CASE n <= a
    <3>1. n \in 1..a /\ P[n] = p[n]
      BY <1>4, <2>1
    <3> HIDE DEF P
    <3>2. p[n] \in 1..N /\ Rank(s[p[n]]) = 1
      BY <1>4a, <3>1
    <3> QED
      BY <1>4, <2>1, <3>1, <3>2
  <2>2. CASE n > a /\ n <= a + b
    <3>1. n - a \in 1..b /\ P[n] = q[n - a]
      BY <1>4, <2>2
    <3> HIDE DEF P
    <3>2. q[n - a] \in 1..N /\ Rank(s[q[n - a]]) = 2
      BY <1>4a, <3>1, Zenon
    <3> QED
      BY <1>4, <2>2, <3>1, <3>2
  <2>3. CASE n > a + b
    <3>1. n - (a + b) \in 1..c /\ P[n] = r[n - (a + b)]
      BY <1>4, <2>3
    <3> HIDE DEF P
    <3>2. r[n - (a + b)] \in 1..N /\ Rank(s[r[n - (a + b)]]) = 3
      BY <1>4a, <3>1, Zenon
    <3> QED
      BY <1>4, <2>3, <3>1, <3>2
  <2> QED
    BY <1>4, <2>1, <2>2, <2>3
<1>6. P \in [1..N -> 1..N]
  <2>1. \A n \in 1..N : P[n] \in 1..N
    <3> HIDE DEF P
    <3> QED
      BY <1>4, <1>5, SMTT(30)
  <2> QED
    BY <2>1
<1>7. Format(s) = [n \in 1..N |-> s[P[n]]]
  <2> DEFINE gp == Group(s, Severities[1])
             gq == Group(s, Severities[2])
             gr == Group(s, Severities[3])
  <2>1. gp \in Seq(Finding) /\ Len(gp) = a /\ \A n \in 1..a : gp[n] = s[p[n]]
    <3>1. p \in Seq(1..N) /\ gp = [n \in 1..a |-> s[p[n]]]
      BY <1>1 DEF GroupedBy
    <3> HIDE DEF gp
    <3> QED
      BY <1>4, <3>1
  <2>2. gq \in Seq(Finding) /\ Len(gq) = b /\ \A n \in 1..b : gq[n] = s[q[n]]
    <3>1. q \in Seq(1..N) /\ gq = [n \in 1..b |-> s[q[n]]]
      BY <1>2 DEF GroupedBy
    <3> HIDE DEF gq
    <3> QED
      BY <1>4, <3>1
  <2>3. gr \in Seq(Finding) /\ Len(gr) = c /\ \A n \in 1..c : gr[n] = s[r[n]]
    <3>1. r \in Seq(1..N) /\ gr = [n \in 1..c |-> s[r[n]]]
      BY <1>3 DEF GroupedBy
    <3> HIDE DEF gr
    <3> QED
      BY <1>4, <3>1
  <2>4. Format(s) = (gp \o gq) \o gr
    BY DEF Format
  <2> HIDE DEF gp, gq, gr
  <2>5. /\ gp \o gq \in Seq(Finding) /\ Len(gp \o gq) = a + b
        /\ \A n \in 1..(a + b) : (gp \o gq)[n] = IF n <= a THEN gp[n] ELSE gq[n - a]
    <3> HIDE DEF a, b
    <3>1. /\ gp \o gq \in Seq(Finding) /\ Len(gp \o gq) = Len(gp) + Len(gq)
          /\ \A n \in 1..(Len(gp) + Len(gq)) :
                (gp \o gq)[n] = IF n <= Len(gp) THEN gp[n] ELSE gq[n - Len(gp)]
      BY <2>1, <2>2, ConcatProperties, ZenonT(30)
    <3> QED
      BY <2>1, <2>2, <3>1
  <2>6. /\ Format(s) \in Seq(Finding) /\ Len(Format(s)) = N
        /\ \A n \in 1..N : Format(s)[n] = IF n <= a + b THEN (gp \o gq)[n] ELSE gr[n - (a + b)]
    BY <1>4, <2>3, <2>4, <2>5, ConcatProperties
  <2>7. ASSUME NEW n \in 1..N PROVE Format(s)[n] = s[P[n]]
    <3> HIDE DEF P
    <3>1. CASE n <= a
      BY <1>4, <1>5, <2>1, <2>5, <2>6, <3>1
    <3>2. CASE n > a /\ n <= a + b
      <4>1. n - a \in 1..b /\ P[n] = q[n - a] /\ n \in 1..(a + b) /\ ~(n <= a)
        BY <1>4, <1>5, <3>2
      <4>2. Format(s)[n] = gq[n - a]
        BY <2>5, <2>6, <3>2, <4>1
      <4> QED
        BY <2>2, <4>1, <4>2
    <3>3. CASE n > a + b
      <4>1. n - (a + b) \in 1..c /\ P[n] = r[n - (a + b)] /\ ~(n <= a + b)
        BY <1>4, <1>5, <3>3
      <4>2. Format(s)[n] = gr[n - (a + b)]
        BY <2>6, <4>1
      <4> QED
        BY <2>3, <4>1, <4>2
    <3> QED
      BY <1>4, <3>1, <3>2, <3>3
  <2> HIDE DEF P
  <2> QED
    BY <1>4, <2>6, <2>7
<1> HIDE DEF P
<1>8. ASSUME NEW m \in 1..N, NEW n \in 1..N, m < n
      PROVE  Precedes(s, P[m], P[n])
  <2>1. CASE n <= a
    <3>1. m <= a
      BY <1>4, <1>8, <2>1
    <3>2. \/ Before(s[p[m]], s[p[n]])
          \/ ~Before(s[p[n]], s[p[m]]) /\ p[m] < p[n]
      BY <1>1, <1>5, <1>8, <2>1, <3>1 DEF GroupedBy
    <3> QED
      BY <1>5, <2>1, <3>1, <3>2 DEF Precedes, Follows
  <2>2. CASE m > a /\ n <= a + b
    <3>1. m <= a + b /\ n > a /\ m - a < n - a
      BY <1>4, <1>8, <2>2
    <3>2. \/ Before(s[q[m - a]], s[q[n - a]])
          \/ ~Before(s[q[n - a]], s[q[m - a]]) /\ q[m - a] < q[n - a]
      BY <1>2, <1>5, <2>2, <3>1 DEF GroupedBy
    <3> QED
      BY <1>5, <2>2, <3>1, <3>2 DEF Precedes, Follows
  <2>3. CASE m > a + b
    <3>1. n > a + b /\ m - (a + b) < n - (a + b)
      BY <1>4, <1>8, <2>3
    <3>2. \/ Before(s[r[m - (a + b)]], s[r[n - (a + b)]])
          \/ ~Before(s[r[n - (a + b)]], s[r[m - (a + b)]]) /\ r[m - (a + b)] < r[n - (a + b)]
      BY <1>3, <1>5, <2>3, <3>1 DEF GroupedBy
    <3> QED
      BY <1>5, <2>3, <3>1, <3>2 DEF Precedes, Follows
  <2>4. CASE m <= a /\ n > a
    BY <1>4, <1>5, <2>4 DEF Precedes, Follows
  <2>5. CASE m <= a + b /\ n > a + b
    <3>1. Rank(s[P[n]]) = 3
      BY <1>5, <2>5
    <3>2. CASE m <= a
      BY <1>5, <3>1, <3>2 DEF Precedes, Follows
    <3>3. CASE m > a
      BY <1>5, <2>5, <3>1, <3>3 DEF Precedes, Follows
    <3> QED
      BY <1>4, <3>2, <3>3
  <2> QED
    BY <1>4, <2>1, <2>2, <2>3, <2>4, <2>5
<1>9. \A j \in 1..N : \E i \in 1..N : P[i] = j
  <2> DEFINE T == 1..N
  <2>1. IsFiniteSet(T) /\ P \in [T -> T]
    <3>1. IsFiniteSet(1..N)
      BY <1>4, FS_Interval
    <3> QED
      BY <1>6, <3>1
  <2>2. ASSUME NEW i \in T, NEW j \in T, P[i] = P[j] PROVE i = j
    <3>1. P[i] \in 1..N /\ s[P[i]] \in Finding
      BY <1>6
    <3>2. ~Precedes(s, P[i], P[i])
      BY <3>1, RankFacts, KeyFacts, SMTT(30) DEF Precedes, Follows, Before
    <3>3. ~(i < j) /\ ~(j < i)
      BY <1>8, <2>2, <3>2
    <3> QED
      BY <1>4, <3>3
  <2> HIDE DEF T, N, a, b, c
  <2>3. \A i, j \in T : P[i] = P[j] => i = j
    BY <2>2
  <2>4. P \in Surjection(T, T)
    BY <2>1, <2>3, OneToOneOnItself
  <2>5. \A t \in T : \E i \in T : P[i] = t
    BY <2>4, Fun_SurjectionProperties
  <2> QED
    BY <2>5 DEF T
<1>10. FormatOrder(P, s)
  BY <1>6, <1>7, <1>8, <1>9 DEF FormatOrder
<1> QED
  BY <1>10

LEMMA PrecedesFollows ==
    ASSUME NEW s \in Seq(Finding), NEW i \in 1..Len(s), NEW j \in 1..Len(s),
           Precedes(s, i, j), ~SameKey(s[i], s[j])
    PROVE  Follows(s[i], s[j])
<1>1. s[i] \in Finding /\ s[j] \in Finding
  OBVIOUS
<1>2. /\ Rank(s[i]) \in 1..3 /\ Rank(s[j]) \in 1..3
      /\ Rank(s[i]) = Rank(s[j]) => s[i].sev = s[j].sev
  BY <1>1, RankFacts
<1>3. /\ s[i].file \in Nat /\ s[j].file \in Nat
      /\ SortLine(s[i]) \in Int /\ SortLine(s[j]) \in Int
  BY <1>1, KeyFacts
<1> QED
  BY <1>2, <1>3 DEF Precedes, Follows, Before, SameKey

\* Findings no two of which share a key are ordered by it.
KeyOrder(s) == {q \in (1..Len(s)) \X (1..Len(s)) : Follows(s[q[1]], s[q[2]])}

AllDiffer(s) == \A i, j \in 1..Len(s) : i # j => ~SameKey(s[i], s[j])

LEMMA KeysOrder ==
    ASSUME NEW s \in Seq(Finding), AllDiffer(s)
    PROVE  Orders(KeyOrder(s), 1..Len(s))
<1> DEFINE D == 1..Len(s)
           F(i, j) == Follows(s[i], s[j])
<1>1. \A i \in D : /\ s[i] \in Finding /\ s[i].file \in Nat /\ SortLine(s[i]) \in Int
                   /\ Rank(s[i]) \in 1..3
  BY RankFacts, KeyFacts
<1>2. \A i, j \in D : Rank(s[i]) = Rank(s[j]) => s[i].sev = s[j].sev
  BY RankFacts
<1>3. \A i \in D : ~F(i, i)
  BY <1>1 DEF Follows, Before
<1>4. \A i, j \in D : i # j => F(i, j) \/ F(j, i)
  BY <1>1, <1>2 DEF Follows, Before, AllDiffer, SameKey
<1>5. \A i, j, k \in D : F(i, j) /\ F(j, k) => F(i, k)
  <2> SUFFICES ASSUME NEW i \in D, NEW j \in D, NEW k \in D, F(i, j), F(j, k)
               PROVE  F(i, k)
    OBVIOUS
  <2>1. /\ s[i].file \in Nat /\ s[j].file \in Nat /\ s[k].file \in Nat
        /\ SortLine(s[i]) \in Int /\ SortLine(s[j]) \in Int /\ SortLine(s[k]) \in Int
        /\ Rank(s[i]) \in Int /\ Rank(s[j]) \in Int /\ Rank(s[k]) \in Int
    BY <1>1, SMTT(30)
  <2> QED
    BY <2>1, SMTT(30) DEF Follows, Before
<1>6. \A i, j \in D : <<i, j>> \in KeyOrder(s) <=> F(i, j)
  BY DEF KeyOrder
<1> HIDE DEF F
<1> QED
  BY <1>3, <1>4, <1>5, <1>6 DEF Orders

\* A one-to-one p that puts findings in the order of their keys is the only one.
LEMMA KeysDecide ==
    ASSUME NEW s \in Seq(Finding), AllDiffer(s),
           NEW p \in [1..Len(s) -> 1..Len(s)],
           \A m, n \in 1..Len(s) : m < n => p[m] # p[n] /\ Precedes(s, p[m], p[n])
    PROVE  p = Listed(KeyOrder(s), 1..Len(s))
<1> DEFINE D == 1..Len(s)
<1>1. IsFiniteSet(D) /\ Cardinality(D) = Len(s)
  BY FS_Interval
<1>2. Orders(KeyOrder(s), D)
  BY KeysOrder
<1>3. \A m, n \in D : m < n => <<p[m], p[n]>> \in KeyOrder(s)
  BY PrecedesFollows DEF KeyOrder, AllDiffer
<1>4. p \in [1..Cardinality(D) -> D] /\ D = 1..Cardinality(D)
  BY <1>1
<1>5. \A m, n \in 1..Cardinality(D) : m < n => <<p[m], p[n]>> \in KeyOrder(s)
  BY <1>3, <1>4
<1> HIDE DEF D
<1>6. p = Listed(KeyOrder(s), D)
  BY <1>1, <1>2, <1>4, <1>5, ListingIsUnique
<1> QED
  BY <1>6 DEF D

\* Precedes never holds of a finding and itself, so P is one-to-one.
LEMMA OrderIsOneToOne ==
    ASSUME NEW s \in Seq(Finding), NEW P, FormatOrder(P, s),
           NEW m \in 1..Len(s), NEW n \in 1..Len(s), m < n
    PROVE  P[m] \in 1..Len(s) /\ P[n] \in 1..Len(s) /\ P[m] # P[n]
<1>1. P[m] \in 1..Len(s) /\ P[n] \in 1..Len(s) /\ Precedes(s, P[m], P[n])
  BY DEF FormatOrder
<1>2. s[P[m]] \in Finding
  BY <1>1
<1>3. ~Precedes(s, P[m], P[m])
  <2> DEFINE f == s[P[m]]
  <2>1. Rank(f) \in 1..3 /\ f.file \in Nat /\ SortLine(f) \in Int
    BY <1>2, RankFacts, KeyFacts
  <2>2. ~(P[m] < P[m])
    BY <1>1
  <2> HIDE DEF f
  <2>3. ~Follows(f, f)
    BY <2>1 DEF Follows, Before
  <2> QED
    BY <2>2, <2>3 DEF Precedes, f
<1> QED
  BY <1>1, <1>3

\* The same findings in another order make the same comment.
LEMMA ShufflesFormatAlike ==
    ASSUME NEW s \in Seq(Finding), AllDiffer(s), NEW t \in Shuffles(s)
    PROVE  Format(t) = Format(s)
<1> DEFINE N == Len(s)
           D == 1..N
<1>1. DOMAIN s = D /\ IsFiniteSet(D)
  BY FS_Interval
<1>2. PICK p \in [D -> D] : /\ \A j \in D : \E i \in D : p[i] = j
                            /\ t = [i \in D |-> s[p[i]]]
  <2> HIDE DEF D
  <2> QED
    BY <1>1 DEF Shuffles
<1>3. \A i, j \in D : p[i] = p[j] => i = j
  <2> HIDE DEF D
  <2>1. p \in Injection(D, D)
    BY <1>1, <1>2, OntoItselfIsOneToOne
  <2> QED
    BY <2>1, Fun_InjectionProperties
<1>4. t \in Seq(Finding) /\ Len(t) = N /\ \A i \in D : t[i] = s[p[i]]
  <2>1. \A i \in D : s[p[i]] \in Finding
    BY <1>2, SMTT(30)
  <2> QED
    BY <1>2, <2>1, IsASeq
<1>5. PICK P : FormatOrder(P, s)
  BY FormatFacts
<1>6. PICK Q : FormatOrder(Q, t)
  BY <1>4, FormatFacts
<1>7. P = Listed(KeyOrder(s), D)
  <2>1. P \in [D -> D] /\ \A m, n \in D : m < n => Precedes(s, P[m], P[n])
    BY <1>5 DEF FormatOrder
  <2>2. \A m, n \in D : m < n => P[m] # P[n]
    BY <1>5, OrderIsOneToOne
  <2> QED
    BY <2>1, <2>2, KeysDecide
<1> DEFINE r == [n \in D |-> p[Q[n]]]
<1>8. r = Listed(KeyOrder(s), D)
  <2>1. Q \in [D -> D]
    BY <1>4, <1>6 DEF FormatOrder
  <2>2. r \in [D -> D] /\ \A n \in D : r[n] = p[Q[n]]
    BY <1>2, <2>1
  <2> HIDE DEF r
  <2>3. ASSUME NEW m \in D, NEW n \in D, m < n
        PROVE  r[m] # r[n] /\ Precedes(s, r[m], r[n])
    <3>1. Q[m] # Q[n] /\ Q[m] \in D /\ Q[n] \in D
      BY <1>4, <1>6, <2>3, OrderIsOneToOne
    <3>2. Precedes(t, Q[m], Q[n])
      BY <1>4, <1>6, <2>3 DEF FormatOrder
    <3>3. r[m] # r[n] /\ r[m] \in D /\ r[n] \in D
      BY <1>3, <2>2, <3>1
    <3>4. ~SameKey(t[Q[m]], t[Q[n]])
      BY <1>4, <2>2, <3>1, <3>3 DEF AllDiffer
    <3>5. Follows(t[Q[m]], t[Q[n]])
      BY <1>4, <3>1, <3>2, <3>4, PrecedesFollows
    <3>6. Follows(s[r[m]], s[r[n]])
      BY <1>4, <2>2, <3>1, <3>5
    <3> QED
      BY <3>3, <3>6 DEF Precedes
  <2>4. \A m, n \in D : m < n => r[m] # r[n] /\ Precedes(s, r[m], r[n])
    BY <2>3
  <2> QED
    BY <2>2, <2>4, KeysDecide
<1>9. Format(t) = [n \in D |-> t[Q[n]]] /\ Format(s) = [n \in D |-> s[P[n]]]
  BY <1>4, <1>5, <1>6 DEF FormatOrder
<1>10. \A n \in D : t[Q[n]] = s[P[n]]
  <2>1. Q \in [D -> D]
    BY <1>4, <1>6 DEF FormatOrder
  <2>2. \A n \in D : r[n] = p[Q[n]]
    OBVIOUS
  <2>3. r = P
    BY <1>7, <1>8
  <2> HIDE DEF r
  <2> QED
    BY <1>4, <2>1, <2>2, <2>3
<1> QED
  BY <1>9, <1>10

LEMMA CanonicalBody ==
    ASSUME input \in Inputs, BodyInv
    PROVE  BodyIsCanonical
<1> SUFFICES ASSUME at = "done" PROVE BodyIsCanonical
  BY DEF BodyIsCanonical
<1> DEFINE s == input.findings
           N == Len(s)
<1>1. s \in Seq(Finding) /\ body = Format(s)
  BY InputAssumption DEF BodyInv
<1> HIDE DEF s
<1>2. PICK P : FormatOrder(P, s)
  BY <1>1, FormatFacts
<1>3. /\ N \in Nat /\ DOMAIN s = 1..N /\ P \in [1..N -> 1..N]
      /\ body = [n \in 1..N |-> s[P[n]]]
      /\ \A j \in 1..N : \E i \in 1..N : P[i] = j
  BY <1>1, <1>2 DEF FormatOrder
<1>4. DOMAIN body = 1..N /\ \A n \in 1..N : body[n] = s[P[n]] /\ body[n] \in Finding
  BY <1>1, <1>3
<1>5. body \in Shuffles(s)
  <2> HIDE DEF N
  <2> QED
    BY <1>3 DEF Shuffles
<1>6. ASSUME NEW i \in DOMAIN body, NEW j \in DOMAIN body, i < j
      PROVE  /\ Rank(body[i]) <= Rank(body[j])
             /\ Rank(body[i]) = Rank(body[j]) =>
                   /\ body[i].file <= body[j].file
                   /\ (body[i].file = body[j].file /\ body[i].line = NoLine
                         /\ body[j].line # NoLine) => body[j].line >= LineOfNone
  <2>1. Precedes(s, P[i], P[j]) /\ body[i] = s[P[i]] /\ body[j] = s[P[j]]
        /\ body[i] \in Finding /\ body[j] \in Finding
    BY <1>2, <1>4, <1>6 DEF FormatOrder
  <2>2. /\ Rank(body[i]) \in 1..3 /\ Rank(body[j]) \in 1..3
        /\ body[i].file \in Nat /\ body[j].file \in Nat
        /\ SortLine(body[i]) \in Int /\ SortLine(body[j]) \in Int
    BY <2>1, RankFacts, KeyFacts
  <2>3. Rank(body[i]) <= Rank(body[j])
        /\ (Rank(body[i]) = Rank(body[j]) => ~Before(body[j], body[i]))
    BY <2>1, <2>2 DEF Precedes, Follows, Before
  <2>4. Rank(body[i]) = Rank(body[j]) =>
           /\ body[i].file <= body[j].file
           /\ body[i].file = body[j].file => SortLine(body[i]) <= SortLine(body[j])
    BY <2>2, <2>3 DEF Before
  <2> QED
    BY <2>3, <2>4 DEF SortLine
<1>7. ASSUME \A i, j \in DOMAIN body : i # j => ~SameKey(body[i], body[j])
      PROVE  \A t \in Shuffles(s) : Format(t) = body
  <2>1. AllDiffer(s)
    <3> SUFFICES ASSUME NEW i \in 1..N, NEW j \in 1..N, i # j
                 PROVE  ~SameKey(s[i], s[j])
      BY DEF AllDiffer
    <3>1. PICK m \in 1..N : P[m] = i
      BY <1>3
    <3>2. PICK n \in 1..N : P[n] = j
      BY <1>3
    <3> QED
      BY <1>4, <1>7, <3>1, <3>2
  <2> QED
    BY <1>1, <2>1, ShufflesFormatAlike
<1> QED
  BY <1>5, <1>6, <1>7 DEF BodyIsCanonical, s

\* The comment has the findings of the review by severity, file and line, and the
\* same findings in another order make the same comment, unless two of them share
\* all three (format_review.py 5, 19, 53-56).
THEOREM CommentIsCanonical == DataSpec => []BodyIsCanonical
<1>1. DataInv => BodyIsCanonical
  BY CanonicalBody DEF DataInv, EvidenceInv
<1> QED
  BY <1>1, DataInvariance, PTL

\* The shape of a review's data at every step of it (run_tool.py 39-66).
THEOREM DataTypeCorrect == DataSpec => []DataTypeOK
<1>1. ASSUME DataInv PROVE DataTypeOK
  <2>1. Len(diff) \in Nat /\ written \in 0..Len(diff) /\ DOMAIN ws = {diff[f].path : f \in 1..written}
    BY <1>1, DiffFacts DEF DataInv, EvidenceInv, WorkspaceInv
  <2>2. box.is # "none" => at = "tools" /\ Len(answers) < Len(input.calls)
    BY <1>1 DEF DataInv, AnswersInv, EvidenceInv, BoxOK
  <2>3. Len(body) = IF at = "done" THEN Len(input.findings) ELSE 0
    <3>1. CASE at = "done"
      <4> DEFINE s == input.findings
      <4>1. s \in Seq(Finding) /\ body = Format(s)
        BY <1>1, <3>1, InputAssumption DEF DataInv, EvidenceInv, BodyInv
      <4> HIDE DEF s
      <4>2. PICK P : FormatOrder(P, s)
        BY <4>1, FormatFacts
      <4>3. Len(s) \in Nat /\ body = [n \in 1..Len(s) |-> s[P[n]]]
        BY <4>1, <4>2 DEF FormatOrder
      <4>4. Len(body) = Len(s)
        BY <4>3
      <4> QED
        BY <3>1, <4>4 DEF s
    <3>2. CASE at # "done"
      BY <1>1, <3>2 DEF DataInv, BodyInv
    <3> QED
      BY <3>1, <3>2
  <2>4. /\ Len(answers) <= Len(input.calls)
        /\ \A i \in DOMAIN answers : answers[i].tool = input.calls[i].tool
        /\ orphans <= Cardinality({i \in DOMAIN answers : answers[i].says = "timeout"})
        /\ at \in Places
    BY <1>1 DEF DataInv, AnswersInv, DiffInv, Timeouts
  <2> QED
    BY <2>1, <2>2, <2>3, <2>4 DEF DataTypeOK
<1> QED
  BY <1>1, DataInvariance, PTL

----------------------------------------------------------------------------
(* The workspace.                                                          *)

\* Of one piece, a line is kept if and only if it is one of the new file.
LEMMA LineFacts ==
    ASSUME NEW l \in Line, Len(l) = 1
    PROVE  /\ DOMAIN Rendered(l) = {1}
           /\ Kept(Rendered(l)[1]) <=> Sign(l) \in {Space, "+", NoSign}
           /\ Tail(Rendered(l)[1]) = IF l = Blank THEN <<>> ELSE Tail(l[1])
<1>1. l \in Seq(Seq(Character)) /\ l[1] \in Seq(Character)
  BY DEF Line
<1>2. CASE l = Blank
  <2>1. Rendered(l) = << <<Space>> >> /\ Rendered(l)[1] = <<Space>>
    BY <1>2 DEF Rendered
  <2>2. Head(<<Space>>) = Space /\ Tail(<<Space>>) = <<>> /\ <<Space>> # <<>>
    OBVIOUS
  <2>3. DOMAIN << <<Space>> >> = {1}
    OBVIOUS
  <2>4. Sign(l) = NoSign
    BY <1>2, SignFacts
  <2> QED
    BY <1>2, <2>1, <2>2, <2>3, <2>4 DEF Kept
<1>3. CASE l # Blank
  <2>1. Rendered(l) = l
    BY <1>3 DEF Rendered
  <2>2. l[1] # <<>>
    <3>1. l = <<l[1]>>
      BY <1>1
    <3> QED
      BY <1>3, <3>1 DEF Blank
  <2>3. Sign(l) = Head(l[1]) /\ Sign(l) # NoSign
    BY <1>3, <2>2, SignFacts
  <2>4. DOMAIN l = {1}
    BY <1>1
  <2> QED
    BY <1>3, <2>1, <2>2, <2>3, <2>4 DEF Kept
<1> QED
  BY <1>2, <1>3

\* A hunk whose header counts its body is read as far as it shows lines.
RegularHunk(h) ==
    /\ h.body # <<>> => Ends(h) # {}
    /\ OldLines(h.body) = h.old /\ NewLines(h.body) = h.new
    /\ \A j \in 1..Len(h.body) : Len(h.body[j]) = 1

LEMMA ShownIsRead ==
    ASSUME NEW h \in Hunk, RegularHunk(h), NEW j \in Shown(h)
    PROVE  j <= Length(h)
<1> DEFINE s == h.body
<1>1. s \in Seq(Line) /\ j \in 1..Len(s) /\ Sign(s[j]) \in {Space, "+", NoSign}
  BY DEF Hunk, Shown
<1>2. s # <<>> /\ Ends(h) # {}
  BY <1>1 DEF RegularHunk
<1>3. Length(h) \in 0..Len(s) /\ NewLines(SubSeq(s, 1, Length(h))) = NewLines(s)
  BY <1>1, <1>2, LengthFacts DEF RegularHunk
<1> HIDE DEF s
<1>4. \A i \in (Length(h) + 1)..Len(s) : Sign(s[i]) \notin {Space, "+", NoSign}
  BY <1>1, <1>3, PrefixCounts DEF NewLines
<1> QED
  BY <1>1, <1>3, <1>4

\* The places of the lines that a file shows.
ShownAt(file) ==
    UNION {{<<i, j, 1>> : j \in Shown(file.hunks[i])} : i \in 1..Len(file.hunks)}

TextAt(file, p) == file.hunks[p[1]].body[p[2]]

RegularFile(file) ==
    /\ Regular(file)
    /\ \A i \in 1..Len(file.hunks) : file.hunks[i].body # <<>> => Ends(file.hunks[i]) # {}

LEMMA HunksAreRegular ==
    ASSUME NEW file \in File, RegularFile(file), NEW i \in 1..Len(file.hunks)
    PROVE  /\ file.hunks \in Seq(Hunk) /\ file.hunks[i] \in Hunk
           /\ RegularHunk(file.hunks[i])
           /\ file.hunks[i].new > 0 => file.hunks[i].start > 0
           /\ i > 1 => file.hunks[i].start >= file.hunks[i - 1].start + file.hunks[i - 1].new
<1>1. file.hunks \in Seq(Hunk)
  BY DEF File
<1>2. file.hunks[i] \in Hunk
  BY <1>1
<1> QED
  BY <1>1, <1>2 DEF RegularFile, Regular, RegularHunk

\* What the loops of materialize_workspace keep is what the diff shows.
LEMMA KeptIsShown ==
    ASSUME NEW file \in File, RegularFile(file)
    PROVE  /\ KeptAt(file) = ShownAt(file)
           /\ \A p \in ShownAt(file) :
                 Tail(Piece(file, p)) = IF TextAt(file, p) = Blank THEN <<>>
                                        ELSE Tail(TextAt(file, p)[1])
<1> DEFINE hs == file.hunks
<1>0. DOMAIN hs = 1..Len(hs) /\ Len(hs) \in Nat
  <2>1. hs \in Seq(Hunk)
    BY DEF File
  <2> QED
    BY <2>1
<1>1. ASSUME NEW i \in 1..Len(hs), NEW j \in 1..Len(hs[i].body)
      PROVE  /\ DOMAIN Rendered(hs[i].body[j]) = {1}
             /\ Kept(Rendered(hs[i].body[j])[1]) <=> j \in Shown(hs[i])
             /\ Tail(Rendered(hs[i].body[j])[1]) =
                   IF hs[i].body[j] = Blank THEN <<>> ELSE Tail(hs[i].body[j][1])
  <2>1. hs[i] \in Hunk /\ RegularHunk(hs[i])
    BY HunksAreRegular
  <2>2. hs[i].body \in Seq(Line)
    BY <2>1 DEF Hunk
  <2>3. hs[i].body[j] \in Line /\ Len(hs[i].body[j]) = 1
    BY <2>1, <2>2 DEF RegularHunk
  <2> HIDE DEF hs
  <2> QED
    BY <2>3, LineFacts DEF Shown
<1>2. ASSUME NEW i \in 1..Len(hs)
      PROVE  /\ Length(hs[i]) \in 0..Len(hs[i].body) /\ Len(hs[i].body) \in Nat
             /\ \A j \in Shown(hs[i]) : j \in 1..Length(hs[i])
  <2>1. hs[i] \in Hunk /\ RegularHunk(hs[i])
    BY HunksAreRegular
  <2>2. Len(hs[i].body) \in Nat /\ Shown(hs[i]) \subseteq 1..Len(hs[i].body)
    BY <2>1 DEF Hunk, Shown
  <2>3. Length(hs[i]) \in 0..Len(hs[i].body)
    BY <2>1, <2>2, LengthFacts DEF RegularHunk
  <2>4. \A j \in Shown(hs[i]) : j <= Length(hs[i])
    BY <2>1, ShownIsRead
  <2> QED
    BY <2>2, <2>3, <2>4
<1>3. ASSUME NEW p \in KeptAt(file)
      PROVE  p \in ShownAt(file)
  <2>1. p \in Positions(file) /\ Kept(Piece(file, p))
    BY DEF KeptAt
  <2>2. PICK i \in 1..Len(hs) :
            \E j \in 1..Length(hs[i]) : \E k \in DOMAIN Rendered(hs[i].body[j]) : p = <<i, j, k>>
    <3>1. \E i \in DOMAIN file.hunks : \E j \in 1..Length(file.hunks[i]) :
              \E k \in DOMAIN Rendered(file.hunks[i].body[j]) : p = <<i, j, k>>
      <4>1. PICK S \in {UNION {{<<i, j, k>> : k \in DOMAIN Rendered(file.hunks[i].body[j])} :
                  j \in 1..Length(file.hunks[i])} : i \in DOMAIN file.hunks} : p \in S
        BY <2>1 DEF Positions
      <4>2. PICK i \in DOMAIN file.hunks :
                S = UNION {{<<i, j, k>> : k \in DOMAIN Rendered(file.hunks[i].body[j])} :
                              j \in 1..Length(file.hunks[i])}
        BY <4>1
      <4>3. PICK U \in {{<<i, j, k>> : k \in DOMAIN Rendered(file.hunks[i].body[j])} :
                              j \in 1..Length(file.hunks[i])} : p \in U
        BY <4>1, <4>2
      <4> QED
        BY <4>3
    <3> QED
      BY <1>0, <3>1
  <2>3. PICK j \in 1..Length(hs[i]) :
            \E k \in DOMAIN Rendered(hs[i].body[j]) : p = <<i, j, k>>
    BY <2>2
  <2>4. j \in 1..Len(hs[i].body)
    BY <1>2
  <2>5. p = <<i, j, 1>>
    BY <1>1, <2>3, <2>4
  <2>6. Piece(file, p) = Rendered(hs[i].body[j])[1]
    BY <2>5 DEF Piece
  <2> QED
    BY <1>1, <2>1, <2>4, <2>5, <2>6 DEF ShownAt
<1>4. ASSUME NEW p \in ShownAt(file)
      PROVE  /\ p \in KeptAt(file)
             /\ Tail(Piece(file, p)) = IF TextAt(file, p) = Blank THEN <<>>
                                       ELSE Tail(TextAt(file, p)[1])
  <2>1. PICK i \in 1..Len(hs) : \E j \in Shown(hs[i]) : p = <<i, j, 1>>
    BY Zenon DEF ShownAt
  <2>2. PICK j \in Shown(hs[i]) : p = <<i, j, 1>>
    BY <2>1
  <2>3. j \in 1..Length(hs[i]) /\ j \in 1..Len(hs[i].body)
    BY <1>2
  <2>4. Piece(file, p) = Rendered(hs[i].body[j])[1] /\ TextAt(file, p) = hs[i].body[j]
    BY <2>2 DEF Piece, TextAt
  <2>5. 1 \in DOMAIN Rendered(hs[i].body[j])
    BY <1>1, <2>3
  <2>6. p \in Positions(file)
    BY <1>0, <2>2, <2>3, <2>5 DEF Positions
  <2>7. p \in KeptAt(file)
    BY <1>1, <2>3, <2>4, <2>6 DEF KeptAt
  <2> QED
    BY <1>1, <2>3, <2>4, <2>7
<1> QED
  BY <1>3, <1>4

\* The number that the header of its hunk gives a line.
CountBefore(h, j) == Cardinality({k \in Shown(h) : k < j})

NumberAt(file, p) == file.hunks[p[1]].start + CountBefore(file.hunks[p[1]], p[2])

LEMMA HunkNumbers ==
    ASSUME NEW h \in Hunk, RegularHunk(h)
    PROVE  /\ \A j \in Shown(h) : j \in Nat /\ CountBefore(h, j) \in 0..(h.new - 1)
           /\ \A j, k \in Shown(h) : j < k => CountBefore(h, j) < CountBefore(h, k)
<1> DEFINE D == Shown(h)
           R == {q \in D \X D : q[1] < q[2]}
<1>1. h.body \in Seq(Line) /\ h.new \in Nat
  BY DEF Hunk
<1>2. D = Counted(h.body, {Space, "+", NoSign}) /\ D \in SUBSET Nat
  BY <1>1 DEF Shown, Counted
<1>3. IsFiniteSet(D) /\ Cardinality(D) = h.new
  <2>1. Signed(h.body, {Space, "+", NoSign}) = h.new
    BY DEF RegularHunk, NewLines
  <2> QED
    BY <1>1, <1>2, <2>1, CountedFacts
<1> HIDE DEF D
<1>4. Orders(R, D)
  BY <1>2 DEF Orders
<1>5. \A j \in D : CountBefore(h, j) \in Nat /\ PlaceIn(R, D, j) = CountBefore(h, j) + 1
  <2> SUFFICES ASSUME NEW j \in D
               PROVE  CountBefore(h, j) \in Nat /\ PlaceIn(R, D, j) = CountBefore(h, j) + 1
    OBVIOUS
  <2> DEFINE S == {k \in D : k < j}
             U == {k \in D : <<k, j>> \in R}
  <2>1. S \in SUBSET D /\ U = S
    OBVIOUS
  <2>2. CountBefore(h, j) = Cardinality(S)
    BY DEF CountBefore, D
  <2>3. PlaceIn(R, D, j) = Cardinality(S) + 1
    <3>1. PlaceIn(R, D, j) = Cardinality(U) + 1
      BY DEF PlaceIn
    <3> HIDE DEF U, S
    <3> QED
      BY <2>1, <3>1
  <2> HIDE DEF S
  <2> QED
    BY <1>3, <2>1, <2>2, <2>3, FS_Subset, FS_CardinalityType
<1>6. \A j, k \in D : <<j, k>> \in R <=> j < k
  OBVIOUS
<1> HIDE DEF R
<1>7. \A j, k \in D : /\ PlaceIn(R, D, j) \in 1..Cardinality(D)
                      /\ PlaceIn(R, D, j) < PlaceIn(R, D, k) <=> <<j, k>> \in R
  BY <1>3, <1>4, PlacesKeepOrder
<1>8. ASSUME NEW j \in D PROVE j \in Nat /\ CountBefore(h, j) \in 0..(h.new - 1)
  <2>1. PlaceIn(R, D, j) \in 1..h.new
    BY <1>3, <1>7
  <2>2. CountBefore(h, j) \in Nat /\ PlaceIn(R, D, j) = CountBefore(h, j) + 1
    BY <1>5
  <2>3. CountBefore(h, j) \in 0..(h.new - 1)
    BY <1>1, <2>1, <2>2
  <2> QED
    BY <1>2, <2>3
<1>9. ASSUME NEW j \in D, NEW k \in D, j < k PROVE CountBefore(h, j) < CountBefore(h, k)
  <2>1. PlaceIn(R, D, j) < PlaceIn(R, D, k)
    BY <1>6, <1>7, <1>9
  <2> QED
    BY <1>5, <2>1
<1> QED
  BY <1>8, <1>9 DEF D

\* Regular hunks do not overlap.
LEMMA HunksFollow ==
    ASSUME NEW file \in File, RegularFile(file),
           NEW i \in 1..Len(file.hunks), NEW l \in 1..Len(file.hunks), i < l
    PROVE  file.hunks[i].start + file.hunks[i].new <= file.hunks[l].start
<1> DEFINE hs == file.hunks
           N == Len(hs)
           T == {k \in Nat : i + 1 + k <= N => hs[i].start + hs[i].new <= hs[i + 1 + k].start}
           n == l - (i + 1)
<1>1. hs \in Seq(Hunk) /\ N \in Nat
  <2>1. hs \in Seq(Hunk)
    BY DEF File
  <2> QED
    BY <2>1
<1>2. \A k \in 1..N : hs[k].start \in Nat /\ hs[k].new \in Nat
  <2>1. \A k \in 1..N : hs[k] \in Hunk
    BY <1>1
  <2> QED
    BY <2>1 DEF Hunk
<1>3. \A k \in 1..N : k > 1 => hs[k].start >= hs[k - 1].start + hs[k - 1].new
  BY HunksAreRegular
<1> HIDE DEF hs, N
<1>4. N \in Nat /\ i \in 1..N /\ l \in 1..N /\ n \in Nat
  BY <1>1 DEF hs, N
<1>5. 0 \in T
  <2>1. i + 1 <= N => i + 1 \in 1..N /\ i + 1 > 1 /\ (i + 1) - 1 = i
    BY <1>4
  <2>2. i + 1 <= N => hs[i + 1].start >= hs[i].start + hs[i].new
    BY <1>3, <2>1
  <2> QED
    BY <1>2, <1>4, <2>1, <2>2
<1>6. \A k \in 0..(n - 1) : k \in T => k + 1 \in T
  <2> SUFFICES ASSUME NEW k \in 0..(n - 1), k \in T
               PROVE  k + 1 \in T
    OBVIOUS
  <2> DEFINE m == i + 1 + (k + 1)
  <2>1. k \in Nat /\ k + 1 \in Nat
    BY <1>4
  <2>2. i + 1 + k <= N => hs[i].start + hs[i].new <= hs[i + 1 + k].start
    OBVIOUS
  <2>3. ASSUME m <= N
        PROVE  hs[i].start + hs[i].new <= hs[m].start
    <3>1. m \in 1..N /\ m > 1 /\ m - 1 \in 1..N /\ i + 1 + k = m - 1 /\ i + 1 + k <= N
      BY <1>4, <2>1, <2>3
    <3>2. hs[i].start + hs[i].new <= hs[m - 1].start
      BY <2>2, <3>1
    <3>3. hs[m].start >= hs[m - 1].start + hs[m - 1].new
      BY <1>3, <3>1
    <3>4. /\ hs[i].start \in Nat /\ hs[i].new \in Nat /\ hs[m].start \in Nat
          /\ hs[m - 1].start \in Nat /\ hs[m - 1].new \in Nat
      BY <1>2, <1>4, <3>1
    <3> HIDE DEF m
    <3> DEFINE last == hs[m - 1].start
               more == hs[m - 1].new
               first == hs[i].start
               some == hs[i].new
               next == hs[m].start
    <3>5. /\ last \in Nat /\ more \in Nat /\ first \in Nat /\ some \in Nat /\ next \in Nat
          /\ next >= last + more /\ first + some <= last
      BY <3>2, <3>3, <3>4
    <3> HIDE DEF last, more, first, some, next
    <3>6. first + some <= next
      BY <3>5
    <3> QED
      BY <3>6 DEF first, some, next
  <2> QED
    BY <2>1, <2>3
<1> HIDE DEF T, n
<1>7. n \in T
  <2>1. \A k \in 0..n : k \in T
    BY <1>4, <1>5, <1>6, NatIteration
  <2> QED
    BY <1>4, <2>1
<1> QED
  BY <1>4, <1>7 DEF T, n, hs, N

\* The lines that are kept come in the order of their numbers, from 1 on.
Bound(file) == IF file.hunks = <<>> THEN 0
               ELSE file.hunks[Len(file.hunks)].start + file.hunks[Len(file.hunks)].new

LEMMA NumbersKeepOrder ==
    ASSUME NEW file \in File, RegularFile(file)
    PROVE  /\ Orders(Earlier(file), ShownAt(file))
           /\ \A p \in ShownAt(file) : NumberAt(file, p) \in 1..Bound(file)
           /\ \A p, q \in ShownAt(file) :
                 <<p, q>> \in Earlier(file) => NumberAt(file, p) < NumberAt(file, q)
           /\ Bound(file) \in Nat
<1> DEFINE hs == file.hunks
           N == Len(hs)
           D == ShownAt(file)
<1>1. hs \in Seq(Hunk) /\ N \in Nat
  <2>1. hs \in Seq(Hunk)
    BY DEF File
  <2> QED
    BY <2>1
<1>2. \A i \in 1..N : /\ hs[i] \in Hunk /\ RegularHunk(hs[i])
                      /\ hs[i].start \in Nat /\ hs[i].new \in Nat
                      /\ hs[i].new > 0 => hs[i].start > 0
  <2>1. \A i \in 1..N : /\ hs[i] \in Hunk /\ RegularHunk(hs[i])
                        /\ hs[i].new > 0 => hs[i].start > 0
    BY HunksAreRegular
  <2> QED
    BY <2>1 DEF Hunk
<1>3. ASSUME NEW p \in D
      PROVE  /\ p[1] \in 1..N /\ p[2] \in Shown(hs[p[1]]) /\ p[2] \in Nat
             /\ p = <<p[1], p[2], 1>> /\ p[3] = 1
             /\ CountBefore(hs[p[1]], p[2]) \in 0..(hs[p[1]].new - 1)
             /\ NumberAt(file, p) = hs[p[1]].start + CountBefore(hs[p[1]], p[2])
  <2>1. PICK i \in 1..N : \E j \in Shown(hs[i]) : p = <<i, j, 1>>
    BY Zenon DEF ShownAt
  <2>2. PICK j \in Shown(hs[i]) : p = <<i, j, 1>>
    BY <2>1
  <2>3. j \in Nat /\ CountBefore(hs[i], j) \in 0..(hs[i].new - 1)
    BY <1>2, HunkNumbers
  <2> QED
    BY <2>2, <2>3 DEF NumberAt
<1>4. \A p, q \in D : <<p, q>> \in Earlier(file) <=>
                         p[1] < q[1] \/ (p[1] = q[1] /\ p[2] < q[2])
  <2> SUFFICES ASSUME NEW p \in D, NEW q \in D
               PROVE  <<p, q>> \in Earlier(file) <=>
                         p[1] < q[1] \/ (p[1] = q[1] /\ p[2] < q[2])
    OBVIOUS
  <2>1. p \in KeptAt(file) /\ q \in KeptAt(file)
    BY KeptIsShown
  <2>2. <<p, q>> \in Earlier(file) <=>
           \E d \in 1..3 : p[d] < q[d] /\ \A e \in 1..(d - 1) : p[e] = q[e]
    BY <2>1 DEF Earlier
  <2>3. ~(p[3] < q[3])
    BY <1>3
  <2>4. 1..(1 - 1) = {} /\ 1..(2 - 1) = {1} /\ 1..3 = {1, 2, 3}
    OBVIOUS
  <2> QED
    BY <2>2, <2>3, <2>4
<1> HIDE DEF D
<1>5. Orders(Earlier(file), D)
  <2>1. \A p \in D : <<p, p>> \notin Earlier(file)
    BY <1>1, <1>3, <1>4
  <2>2. \A p, q \in D : p # q => <<p, q>> \in Earlier(file) \/ <<q, p>> \in Earlier(file)
    <3> SUFFICES ASSUME NEW p \in D, NEW q \in D, p # q
                 PROVE  <<p, q>> \in Earlier(file) \/ <<q, p>> \in Earlier(file)
      OBVIOUS
    <3>1. p[1] \in Nat /\ q[1] \in Nat /\ p[2] \in Nat /\ q[2] \in Nat
      BY <1>1, <1>3
    <3>2. p[1] # q[1] \/ p[2] # q[2]
      BY <1>3
    <3> QED
      BY <1>4, <3>1, <3>2
  <2>3. \A p, q, r \in D :
           <<p, q>> \in Earlier(file) /\ <<q, r>> \in Earlier(file) => <<p, r>> \in Earlier(file)
    <3> SUFFICES ASSUME NEW p \in D, NEW q \in D, NEW r \in D,
                        <<p, q>> \in Earlier(file), <<q, r>> \in Earlier(file)
                 PROVE  <<p, r>> \in Earlier(file)
      OBVIOUS
    <3>1. /\ p[1] \in Nat /\ q[1] \in Nat /\ r[1] \in Nat
          /\ p[2] \in Nat /\ q[2] \in Nat /\ r[2] \in Nat
      BY <1>1, <1>3
    <3> QED
      BY <1>4, <3>1
  <2> QED
    BY <2>1, <2>2, <2>3 DEF Orders
<1>6. ASSUME NEW p \in D, NEW q \in D, <<p, q>> \in Earlier(file)
      PROVE  NumberAt(file, p) < NumberAt(file, q)
  <2>1. /\ hs[p[1]].start \in Nat /\ hs[p[1]].new \in Nat
        /\ hs[q[1]].start \in Nat /\ hs[q[1]].new \in Nat
        /\ CountBefore(hs[p[1]], p[2]) \in 0..(hs[p[1]].new - 1)
        /\ CountBefore(hs[q[1]], q[2]) \in 0..(hs[q[1]].new - 1)
        /\ NumberAt(file, p) = hs[p[1]].start + CountBefore(hs[p[1]], p[2])
        /\ NumberAt(file, q) = hs[q[1]].start + CountBefore(hs[q[1]], q[2])
    BY <1>2, <1>3
  <2>2. CASE p[1] < q[1]
    <3>1. hs[p[1]].start + hs[p[1]].new <= hs[q[1]].start
      BY <1>3, <2>2, HunksFollow
    <3> QED
      BY <2>1, <3>1
  <2>3. CASE p[1] = q[1] /\ p[2] < q[2]
    <3>1. CountBefore(hs[p[1]], p[2]) < CountBefore(hs[p[1]], q[2])
      BY <1>2, <1>3, <2>3, HunkNumbers
    <3> QED
      BY <2>1, <2>3, <3>1
  <2> QED
    BY <1>4, <1>6, <2>2, <2>3
<1>7. Bound(file) \in Nat
  <2>1. CASE hs = <<>>
    BY <2>1 DEF Bound
  <2>2. CASE hs # <<>>
    <3>1. N \in 1..N
      BY <1>1, <2>2
    <3> QED
      BY <1>2, <2>2, <3>1 DEF Bound
  <2> QED
    BY <2>1, <2>2
<1>8. ASSUME NEW p \in D
      PROVE  NumberAt(file, p) \in 1..Bound(file)
  <2> DEFINE i == p[1]
             first == hs[i].start
             some == hs[i].new
             last == hs[N].start
             more == hs[N].new
             before == CountBefore(hs[i], p[2])
  <2>1. i \in 1..N /\ N \in 1..N
    BY <1>1, <1>3
  <2>2. first \in Nat /\ some \in Nat /\ last \in Nat /\ more \in Nat
    BY <1>2, <2>1
  <2>3. some > 0 => first > 0
    BY <1>2, <2>1
  <2>4. before \in 0..(some - 1) /\ NumberAt(file, p) = first + before
    BY <1>3
  <2>5. Bound(file) = last + more
    <3>1. hs # <<>>
      BY <2>1
    <3> QED
      BY <3>1 DEF Bound
  <2>6. first + some <= last \/ i = N
    BY <1>1, <2>1, HunksFollow
  <2>7. i = N => first = last /\ some = more
    OBVIOUS
  <2> HIDE DEF i, first, some, last, more, before
  <2>8. first + some <= last + more
    BY <2>2, <2>6, <2>7
  <2>9. first + before \in 1..(last + more)
    BY <2>2, <2>3, <2>4, <2>8
  <2> QED
    BY <2>4, <2>5, <2>9
<1> QED
  BY <1>5, <1>6, <1>7, <1>8 DEF D

\* The lines that a diff shows are those at the places that are kept.
LEMMA ImageFacts ==
    ASSUME NEW file \in File, RegularFile(file), NEW num, NEW text,
           \A p \in ShownAt(file) : num[p] = NumberAt(file, p) /\ text[p] = TextAt(file, p)
    PROVE  PostImage(file) = Numbered(num, text, ShownAt(file))
<1> DEFINE hs == file.hunks
           D == ShownAt(file)
           I == Numbered(num, text, D)
<1>0. DOMAIN hs = 1..Len(hs)
  <2>1. hs \in Seq(Hunk)
    BY DEF File
  <2> QED
    BY <2>1
<1>1. ASSUME NEW i \in 1..Len(hs), NEW j \in Shown(hs[i])
      PROVE  /\ <<i, j, 1>> \in D
             /\ num[<<i, j, 1>>] = hs[i].start + CountBefore(hs[i], j)
             /\ text[<<i, j, 1>>] = hs[i].body[j]
  <2>1. <<i, j, 1>> \in D
    BY DEF ShownAt
  <2> QED
    BY <2>1 DEF NumberAt, TextAt
<1>2. ASSUME NEW x \in PostImage(file)
      PROVE  x \in I
  <2>1. PICK i \in 1..Len(hs) :
            x \in {<<hs[i].start + Cardinality({k \in Shown(hs[i]) : k < j}), hs[i].body[j]>> :
                      j \in Shown(hs[i])}
    BY <1>0 DEF PostImage
  <2>2. PICK j \in Shown(hs[i]) : x = <<hs[i].start + CountBefore(hs[i], j), hs[i].body[j]>>
    BY <2>1 DEF CountBefore
  <2>3. x = <<num[<<i, j, 1>>], text[<<i, j, 1>>]>> /\ <<i, j, 1>> \in D
    BY <1>1, <2>2
  <2> QED
    BY <2>3 DEF Numbered
<1>3. ASSUME NEW x \in I
      PROVE  x \in PostImage(file)
  <2>1. PICK p \in D : x = <<num[p], text[p]>>
    BY DEF Numbered
  <2>2. PICK i \in 1..Len(hs) : \E j \in Shown(hs[i]) : p = <<i, j, 1>>
    BY Zenon DEF ShownAt
  <2>3. PICK j \in Shown(hs[i]) : p = <<i, j, 1>>
    BY <2>2
  <2>4. x = <<hs[i].start + Cardinality({k \in Shown(hs[i]) : k < j}), hs[i].body[j]>>
    BY <1>1, <2>1, <2>3 DEF CountBefore
  <2>5. x \in {<<file.hunks[i].start + Cardinality({k \in Shown(file.hunks[i]) : k < m}),
                 file.hunks[i].body[m]>> : m \in Shown(file.hunks[i])}
    BY <2>4
  <2>6. i \in DOMAIN file.hunks
    BY <1>0
  <2> QED
    BY <2>5, <2>6, Zenon DEF PostImage
<1> QED
  BY <1>2, <1>3

\* What a file holds is what its regular diff shows of it.
LEMMA ContentIsTheImage ==
    ASSUME NEW file \in File, RegularFile(file)
    PROVE  /\ Len(Content(file)) = IF PostImage(file) = {} THEN 1
                                   ELSE Cardinality(PostImage(file))
           /\ \A x \in PostImage(file) :
                 /\ Cardinality(UpTo(PostImage(file), x[1])) <= x[1]
                 /\ Content(file)[Cardinality(UpTo(PostImage(file), x[1]))]
                       = IF x[2] = Blank THEN <<>> ELSE Tail(x[2][1])
<1> DEFINE D == ShownAt(file)
           R == Earlier(file)
           num == [p \in D |-> NumberAt(file, p)]
           text == [p \in D |-> TextAt(file, p)]
           I == PostImage(file)
           kept == Listed(R, D)
           n == Cardinality(D)
<1>1. D = KeptAt(file) /\ \A p \in D : Tail(Piece(file, p)) =
          IF TextAt(file, p) = Blank THEN <<>> ELSE Tail(TextAt(file, p)[1])
  BY KeptIsShown
<1>2. /\ \A p \in D : num[p] = NumberAt(file, p) /\ text[p] = TextAt(file, p)
      /\ \A p \in D : NumberAt(file, p) \in 1..Bound(file)
  BY NumbersKeepOrder
<1>3. Orders(R, D) /\ Numbers(num, R, D, Bound(file)) /\ Bound(file) \in Nat
  BY NumbersKeepOrder DEF Numbers
<1> HIDE DEF num, text
<1>4. I = Numbered(num, text, D)
  BY <1>2, ImageFacts
<1> HIDE DEF D, R, I
<1>5. /\ IsFiniteSet(D) /\ Cardinality(I) = n
      /\ \A p \in D : /\ PlaceIn(R, D, p) <= num[p]
                      /\ Cardinality(Low(I, num[p])) = PlaceIn(R, D, p)
  BY <1>3, <1>4, PlacesAndNumbers
<1>6. n \in Nat
  BY <1>5, FS_CardinalityType
<1>7. /\ kept \in [1..n -> D]
      /\ \A p \in D : PlaceIn(R, D, p) \in 1..n /\ kept[PlaceIn(R, D, p)] = p
  BY <1>3, <1>5, ListedFacts
<1>8. Content(file) = IF kept = <<>> THEN << <<>> >>
                      ELSE [k \in DOMAIN kept |-> Tail(Piece(file, kept[k]))]
  BY <1>1 DEF Content, D, R
<1>9. I = {} <=> D = {}
  BY <1>4 DEF Numbered
<1> HIDE DEF kept
<1>10. kept = <<>> <=> D = {}
  <2>1. D = {} <=> n = 0
    BY <1>5, FS_EmptySet
  <2>2. kept = <<>> => 1..n = {}
    <3>1. DOMAIN kept = 1..n /\ DOMAIN <<>> = {}
      BY <1>7
    <3> QED
      BY <3>1
  <2>3. n = 0 => kept = <<>>
    <3>1. n = 0 => kept \in [1..0 -> D] /\ 1..0 = {}
      BY <1>7
    <3> QED
      BY <3>1
  <2>4. 1..n = {} => n = 0
    BY <1>6
  <2> QED
    BY <2>1, <2>2, <2>3, <2>4
<1> HIDE DEF n
<1>11. CASE D = {}
  <2>1. Content(file) = << <<>> >> /\ I = {}
    BY <1>8, <1>9, <1>10, <1>11
  <2>2. Len(<< <<>> >>) = 1
    OBVIOUS
  <2> QED
    BY <2>1, <2>2 DEF I
<1>12. CASE D # {}
  <2>1. Content(file) = [k \in 1..n |-> Tail(Piece(file, kept[k]))]
    BY <1>7, <1>8, <1>10, <1>12
  <2>2. Len(Content(file)) = n /\ I # {}
    BY <1>6, <1>9, <1>12, <2>1
  <2>3. ASSUME NEW x \in I
        PROVE  /\ Cardinality(UpTo(I, x[1])) <= x[1]
               /\ Content(file)[Cardinality(UpTo(I, x[1]))]
                     = IF x[2] = Blank THEN <<>> ELSE Tail(x[2][1])
    <3>1. PICK p \in D : x = <<num[p], text[p]>>
      BY <1>4 DEF Numbered
    <3>2. UpTo(I, x[1]) = Low(I, num[p]) /\ x[1] = num[p] /\ x[2] = TextAt(file, p)
      BY <1>2, <3>1 DEF UpTo, Low
    <3>3. Cardinality(UpTo(I, x[1])) = PlaceIn(R, D, p)
      BY <1>5, <3>2
    <3>4. Content(file)[PlaceIn(R, D, p)] = Tail(Piece(file, p))
      BY <1>7, <2>1
    <3>5. PlaceIn(R, D, p) <= x[1]
      BY <1>5, <3>2
    <3> QED
      BY <1>1, <3>2, <3>3, <3>4, <3>5
  <2> QED
    BY <1>5, <2>2, <2>3 DEF I
<1> QED
  BY <1>11, <1>12

\* A workspace has the lines of the new files that the diff shows, each once, in
\* their order and with their text, and none further down than in the new file
\* (workspace.py 21-46).
THEOREM WorkspaceIsRight == DataSpec => []WorkspaceIsThePostImage
<1>1. ASSUME DataInv PROVE WorkspaceIsThePostImage
  <2> SUFFICES ASSUME at \in {"tools", "done"}, NEW f \in 1..Len(diff),
                      Regular(diff[f]), ~Overwritten(f)
               PROVE  /\ Len(ws[diff[f].path]) = IF PostImage(diff[f]) = {} THEN 1
                                                 ELSE Cardinality(PostImage(diff[f]))
                      /\ \A p \in PostImage(diff[f]) :
                            /\ Cardinality(UpTo(PostImage(diff[f]), p[1])) <= p[1]
                            /\ ws[diff[f].path][Cardinality(UpTo(PostImage(diff[f]), p[1]))]
                                  = IF p[2] = Blank THEN <<>> ELSE Tail(p[2][1])
    BY DEF WorkspaceIsThePostImage
  <2> DEFINE file == diff[f]
  <2>1. diff \in Seq(File) /\ file \in File
    BY <1>1, DiffFacts DEF DataInv, EvidenceInv
  <2>2. written = Len(diff) /\ PatchSetParses /\ WorkspaceInv
    BY <1>1 DEF DataInv, WorkspaceInv
  <2>3. ws[file.path] = Content(file)
    <3>1. Last(f)
      BY <2>2 DEF Last, Overwritten
    <3> QED
      BY <2>2, <3>1 DEF WorkspaceInv
  <2>4. RegularFile(file)
    BY <2>2 DEF RegularFile, PatchSetParses, Parses
  <2> HIDE DEF file
  <2>5. /\ Len(ws[file.path]) = IF PostImage(file) = {} THEN 1 ELSE Cardinality(PostImage(file))
        /\ \A p \in PostImage(file) :
              /\ Cardinality(UpTo(PostImage(file), p[1])) <= p[1]
              /\ ws[file.path][Cardinality(UpTo(PostImage(file), p[1]))]
                    = IF p[2] = Blank THEN <<>> ELSE Tail(p[2][1])
    BY <2>1, <2>3, <2>4, ContentIsTheImage
  <2> QED
    BY <2>5 DEF file
<1> QED
  BY <1>1, DataInvariance, PTL
=============================================================================
