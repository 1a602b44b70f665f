----------------------------- MODULE ReviewData -----------------------------
(***************************************************************************)
(* What a review does with its data: the text of a diff becomes files in a  *)
(* workspace (workspace.py), tools run on them in containers (tools/), and   *)
(* findings become the body of a comment (nodes/format_review.py).  In      *)
(* front of it, for the cases of the eval set, the script that repairs the  *)
(* headers of edited diffs (scripts/fix_eval_set_headers.py).               *)
(*                                                                          *)
(* A line of text is the list of pieces that str.splitlines() makes of it:  *)
(* one, unless it holds a form feed or another character that ends a line   *)
(* for Python and not for diff.  A piece is a sequence of characters, and   *)
(* the first character of a line is its sign.                               *)
(***************************************************************************)
EXTENDS Listing, Integers, Sequences

CONSTANTS
    Inputs,      \* what a review is given and what is answered to it
    LineOfNone,  \* the line that stands for no line: 1_000_000
    NoLine       \* a finding's line is None

Tools == {"ruff", "semgrep", "ripgrep", "docs_lookup"}
Severities == <<"high", "medium", "low">>

Space == " "  \* the sign of a line of context
NoSign == ""    \* an empty line has no sign
Character == STRING \ {NoSign}
Line == Seq(Seq(Character)) \ {<<>>}
Hunk == [start : Nat, old : Nat, new : Nat, body : Seq(Line)]
File == [path : Seq(STRING), hunks : Seq(Hunk)]
Finding == [sev : {"high", "medium", "low"}, file : Nat, line : Int \cup {NoLine},
            msg : STRING]

\* The file of a finding is a number, in the order of the names.
ASSUME InputAssumption ==
    /\ LineOfNone \in Nat /\ NoLine \notin Int
    /\ \A in \in Inputs :
          /\ in.docker \in BOOLEAN
          /\ in.files \in Seq(File)
          /\ in.fix \in BOOLEAN /\ (in.fix => Len(in.files) = 1)
          /\ in.calls \in Seq([tool : Tools, argued : BOOLEAN])
          /\ in.findings \in Seq(Finding)

VARIABLES
    input,    \* the files of the diff, whether its headers are repaired first,
              \* whether there is a docker, the plan's calls, the findings
    at,       \* where the review is
    diff,     \* the files of the diff: a path and hunks each
    written,  \* how many of them materialize_workspace has written
    ws,       \* the workspace: the lines of the file at each path
    box,      \* the container of the current tool call
    orphans,  \* containers whose client was killed
    answers,  \* tool_results, with what there was to find
    body      \* the findings in the order of the comment

vars == <<input, at, diff, written, ws, box, orphans, answers, body>>

\* A call that has no container.
Box(is, dirty, rc, out) == [is |-> is, dirty |-> dirty, rc |-> rc, out |-> out]
NoBox == Box("none", FALSE, 0, "none")

DataInit ==
    /\ input \in Inputs
    /\ at = IF input.fix THEN "edited" ELSE "workspace"
    /\ diff = input.files
    /\ written = 0
    /\ ws = << >>
    /\ box = NoBox
    /\ orphans = 0
    /\ answers = <<>>
    /\ body = <<>>

----------------------------------------------------------------------------
(* fix_eval_set_headers.py.                                                *)

Blank == << <<>> >>
Sign(l) == IF l = Blank THEN NoSign ELSE IF l[1] = <<>> THEN "split" ELSE Head(l[1])
Signed(s, signs) == Cardinality({i \in 1..Len(s) : Sign(s[i]) \in signs})

\* An empty line, or a lone "+" or "-".
Artifact(l) == l \in {Blank, << <<"+">> >>, << <<"-">> >>}

\* Mutant of Strip: one artifact is dropped, not all.
StripOne(s) ==
    IF s # <<>> /\ Artifact(s[Len(s)]) THEN SubSeq(s, 1, Len(s) - 1) ELSE s

\* The lengths at which nothing but artifacts is cut off.
Cuts(s) == {n \in 0..Len(s) : \A i \in (n + 1)..Len(s) : Artifact(s[i])}

Strip(s) == SubSeq(s, 1, CHOOSE n \in Cuts(s) : \A m \in Cuts(s) : n <= m)

\* The header is recomputed from the body; its start is kept.
FixHunk(h) ==
    LET lines == Strip(h.body) IN
    [start |-> h.start, body |-> lines,
     old |-> Signed(lines, {Space, "-"}), new |-> Signed(lines, {Space, "+"})]

FixDiff(file) ==
    [file EXCEPT !.hunks = [i \in DOMAIN file.hunks |-> FixHunk(file.hunks[i])]]

FixHeaders ==
    /\ at = "edited"
    /\ diff' = [i \in DOMAIN diff |-> FixDiff(diff[i])]
    /\ at' = "workspace"
    /\ UNCHANGED <<input, written, ws, box, orphans, answers, body>>

----------------------------------------------------------------------------
(* PatchSet of unidiff, and materialize_workspace.                         *)

\* unidiff takes an empty line for a line of context.
OldLines(s) == Signed(s, {Space, "-", NoSign})
NewLines(s) == Signed(s, {Space, "+", NoSign})

Signs == {Space, "+", "-", NoSign, "\\"}

\* Where the counts of the header are met for the first time the hunk ends,
\* whatever the body holds after it.
Ends(h) ==
    {k \in 1..Len(h.body) : LET s == SubSeq(h.body, 1, k) IN
        /\ OldLines(s) = h.old /\ NewLines(s) = h.new
        /\ \A i \in 1..k : Sign(h.body[i]) \in Signs}

\* A hunk with no body takes the next line of the diff for its own, whatever it
\* is, and fails: there may be none, neither a hunk nor a file.
Parses(h, more) == IF h.body = <<>> THEN h.old = 0 /\ h.new = 0 /\ ~more ELSE Ends(h) # {}

Length(h) == IF h.body = <<>> THEN 0 ELSE CHOOSE k \in Ends(h) : \A e \in Ends(h) : k <= e

\* Lines after the end of a hunk are no part of it; but for empty ones and the
\* no-newline marker they also end the file, so that no hunk may follow.
Trails(h) == \E i \in (Length(h) + 1)..Len(h.body) : Sign(h.body[i]) \notin {NoSign, "\\"}

PatchSetParses ==
    \A f \in 1..Len(diff) : LET hunks == diff[f].hunks IN
        \A i \in 1..Len(hunks) :
            /\ Parses(hunks[i], i < Len(hunks) \/ f < Len(diff))
            /\ i < Len(hunks) => ~Trails(hunks[i])

\* str(hunk) shows an empty line as the context it was taken for.
Rendered(l) == IF l = Blank THEN << <<Space>> >> ELSE l

\* splitlines() of it: each piece of each line by itself.
Positions(file) ==
    UNION {UNION {{<<i, j, k>> : k \in DOMAIN Rendered(file.hunks[i].body[j])} :
                  j \in 1..Length(file.hunks[i])} : i \in DOMAIN file.hunks}

Piece(file, p) == Rendered(file.hunks[p[1]].body[p[2]])[p[3]]

\* Mutant of Kept: removed lines are kept too.
KeptWithRemoved(p) == p # <<>> /\ Head(p) \in {Space, "+", "-"}

Kept(p) == p # <<>> /\ Head(p) \in {Space, "+"}

KeptAt(file) == {p \in Positions(file) : Kept(Piece(file, p))}

\* The loops: hunk by hunk, line by line, piece by piece.
Earlier(file) ==
    {q \in KeptAt(file) \X KeptAt(file) :
        \E d \in 1..3 : /\ q[1][d] < q[2][d]
                        /\ \A e \in 1..(d - 1) : q[1][e] = q[2][e]}

\* Context and added lines without their sign; of nothing, one empty line.
Content(file) ==
    LET kept == Listed(Earlier(file), KeptAt(file))
    IN  IF kept = <<>> THEN << <<>> >>
        ELSE [n \in DOMAIN kept |-> Tail(Piece(file, kept[n]))]

ParentOf(q, path) == Len(q) < Len(path) /\ q = SubSeq(path, 1, Len(q))

\* A parent of the path is a file, or the path is a directory.
Blocked(path) == \E q \in DOMAIN ws : ParentOf(q, path) \/ ParentOf(path, q)

\* An empty diff is no error: unidiff is not asked.
PatchSetFails ==
    /\ at = "workspace" /\ written = 0 /\ ~PatchSetParses
    /\ at' = "raised"
    /\ UNCHANGED <<input, diff, written, ws, box, orphans, answers, body>>

Materializing == at = "workspace" /\ PatchSetParses

WriteFile ==
    /\ Materializing /\ written < Len(diff)
    /\ LET file == diff[written + 1] IN
          /\ ~Blocked(file.path)
          /\ ws' = [q \in (DOMAIN ws) \cup {file.path} |->
                       IF q = file.path THEN Content(file) ELSE ws[q]]
    /\ written' = written + 1
    /\ UNCHANGED <<input, at, diff, box, orphans, answers, body>>

\* mkdir or write_text raises, and the review is over.
WriteFails ==
    /\ Materializing /\ written < Len(diff)
    /\ Blocked(diff[written + 1].path)
    /\ at' = "raised"
    /\ UNCHANGED <<input, diff, written, ws, box, orphans, answers, body>>

\* The graph starts; parse_diff reads the same text, and the plan is made.
WorkspaceDone ==
    /\ Materializing /\ written = Len(diff)
    /\ at' = "tools"
    /\ UNCHANGED <<input, diff, written, ws, box, orphans, answers, body>>

----------------------------------------------------------------------------
(* run_tool and the tools of tools/.  A container is on its own: it ends    *)
(* when it likes or not at all.  dirty is whether there was something to    *)
(* find, out how much of it was printed.                                    *)

Call == input.calls[Len(answers) + 1]
Calling(tools) == /\ at = "tools" /\ Len(answers) < Len(input.calls)
                  /\ Call.tool \in tools
Sandboxed == {"ruff", "semgrep", "ripgrep"}

\* One ToolResult: what its text says, or that it is an error, of which those
\* of a timeout are told apart.
ToolResult(says, b) ==
    [tool |-> Call.tool, says |-> says, dirty |-> b.dirty, rc |-> b.rc, out |-> b.out]

Answered(says, b) ==
    /\ answers' = Append(answers, ToolResult(says, b))
    /\ box' = NoBox
    /\ UNCHANGED <<input, at, diff, written, ws, body>>

EmptyWorkspace == ws = << >>

\* The call cannot be made: "(no pattern provided)", "(workspace is empty)".
Refused ==
    \/ Call.tool # "semgrep" /\ ~Call.argued
    \/ Call.tool \in {"semgrep", "ripgrep"} /\ EmptyWorkspace

Refuse ==
    /\ Calling(Tools) /\ box = NoBox /\ Refused
    /\ Answered("note", NoBox)
    /\ UNCHANGED orphans

NoDocker ==
    /\ Calling(Sandboxed) /\ box = NoBox /\ ~Refused /\ ~input.docker
    /\ Answered("error", NoBox)
    /\ UNCHANGED orphans

StartContainer ==
    /\ Calling(Sandboxed) /\ box = NoBox /\ ~Refused /\ input.docker
    /\ \E dirty \in BOOLEAN : box' = Box("running", dirty, 0, "none")
    /\ UNCHANGED <<input, at, diff, written, ws, orphans, answers, body>>

\* What a container that did its work prints: all there was to find, but for
\* ripgrep, which stops at 50 matches of a file, and nothing or, as Ruff may, that
\* there was nothing.
Printed(tool, dirty) ==
    IF dirty THEN {"all"} \cup (IF tool = "ripgrep" THEN {"part"} ELSE {})
    ELSE {"none"} \cup (IF tool = "ruff" THEN {"passed"} ELSE {})

\* And ends with: Ruff with 1 if it found something, ripgrep if it did not,
\* Semgrep may if it did.
Finished(tool, dirty) ==
    {o \in [rc : {0, 1}, out : Printed(tool, dirty)] :
        /\ tool = "ruff" => (o.rc = 1 <=> dirty)
        /\ tool = "ripgrep" => (o.rc = 0 <=> dirty)
        /\ tool = "semgrep" => (o.rc = 1 => dirty)}

\* And of one that did not: a tool's own error, docker's, a kill for memory; an
\* uncaught exception ends Semgrep with 1.
Broken(tool, dirty) ==
    [rc : {2, 125, 137} \cup (IF tool = "semgrep" THEN {1} ELSE {}),
     out : {"none"} \cup (IF dirty THEN {"part"} ELSE {})]

ContainerEnds ==
    /\ box.is = "running"
    /\ \E o \in Finished(Call.tool, box.dirty) \cup Broken(Call.tool, box.dirty) :
          box' = Box("ended", box.dirty, o.rc, o.out)
    /\ UNCHANGED <<input, at, diff, written, ws, orphans, answers, body>>

\* Mutant of Says: ripgrep is read as the other two are.
SaysByOutput(tool, b) ==
    CASE tool = "semgrep" /\ b.rc \notin {0, 1} /\ b.out = "none" -> "error"
      [] tool # "semgrep" /\ b.rc # 0 /\ b.out = "none" -> "error"
      [] b.out \in {"none", "passed"} -> "clean"
      [] OTHER -> "found"

RuffSays(b) == IF b.rc # 0 /\ b.out = "none" THEN "error"
               ELSE IF b.out \in {"none", "passed"} THEN "clean" ELSE "found"
SemgrepSays(b) == IF b.rc \notin {0, 1} /\ b.out = "none" THEN "error"
                  ELSE IF b.out = "none" THEN "clean" ELSE "found"
RipgrepSays(b) == IF b.rc = 1 THEN "clean" ELSE IF b.rc # 0 THEN "error"
                  ELSE IF b.out = "none" THEN "clean" ELSE "found"

Says(tool, b) == CASE tool = "ruff" -> RuffSays(b)
                   [] tool = "semgrep" -> SemgrepSays(b)
                   [] tool = "ripgrep" -> RipgrepSays(b)

\* Mutant of TakeOutput: the next call finds the container of this one.
TakeOutputAndKeep ==
    /\ box.is = "ended"
    /\ answers' = Append(answers, ToolResult(Says(Call.tool, box), box))
    /\ UNCHANGED <<input, at, diff, written, ws, box, orphans, body>>

TakeOutput ==
    /\ box.is = "ended"
    /\ Answered(Says(Call.tool, box), box)
    /\ UNCHANGED orphans

\* Mutant of Timeout: no limit for Semgrep.
TimeoutOfTheQuickTools ==
    /\ box.is # "none" /\ Call.tool # "semgrep"
    /\ Answered("timeout", box)
    /\ orphans' = orphans + (IF box.is = "running" THEN 1 ELSE 0)

\* The client is killed, not the container.
Timeout ==
    /\ box.is # "none"
    /\ Answered("timeout", box)
    /\ orphans' = orphans + (IF box.is = "running" THEN 1 ELSE 0)

OrphanEnds ==
    /\ orphans > 0
    /\ orphans' = orphans - 1
    /\ UNCHANGED <<input, at, diff, written, ws, box, answers, body>>

\* PyPI: the package, its absence, any other answer or none as a note; what
\* cannot be read raises.
LookUpDocs ==
    /\ Calling({"docs_lookup"}) /\ ~Refused
    /\ \E dirty \in BOOLEAN, says \in {"found", "clean", "note", "error"} :
          /\ says = "found" => dirty
          /\ says = "clean" => ~dirty
          /\ Answered(says, Box("none", dirty, 0, IF says = "found" THEN "all" ELSE "none"))
    /\ UNCHANGED orphans

----------------------------------------------------------------------------
(* format_review.py.                                                       *)

\* Mutant of SortLine: no line sorts as line zero.
SortLineFirst(f) == IF f.line = NoLine THEN 0 ELSE f.line

SortLine(f) == IF f.line = NoLine THEN LineOfNone ELSE f.line

Before(f, g) == f.file < g.file \/ (f.file = g.file /\ SortLine(f) < SortLine(g))

\* sorted() is stable: what the key does not tell apart stays as it was.
Ahead(findings, D) ==
    {q \in D \X D : \/ Before(findings[q[1]], findings[q[2]])
                    \/ ~Before(findings[q[2]], findings[q[1]]) /\ q[1] < q[2]}

Group(findings, sev) ==
    LET D == {i \in DOMAIN findings : findings[i].sev = sev}
        p == Listed(Ahead(findings, D), D)
    IN  [n \in DOMAIN p |-> findings[p[n]]]

Format(findings) ==
    Group(findings, Severities[1]) \o Group(findings, Severities[2])
        \o Group(findings, Severities[3])

\* The tools are done, the critique answers, and its findings are formatted.
FormatReview ==
    /\ at = "tools" /\ Len(answers) = Len(input.calls)
    /\ body' = Format(input.findings)
    /\ at' = "done"
    /\ UNCHANGED <<input, diff, written, ws, box, orphans, answers>>

----------------------------------------------------------------------------

ClientStep ==
    \/ FixHeaders \/ PatchSetFails \/ WriteFile \/ WriteFails \/ WorkspaceDone
    \/ Refuse \/ NoDocker \/ StartContainer \/ TakeOutput \/ Timeout
    \/ LookUpDocs \/ FormatReview

DataNext == ClientStep \/ ContainerEnds \/ OrphanEnds

\* The review's own steps are taken: nothing of it waits but for the client of
\* a container, and that for no longer than its timeout.  Containers may hang.
DataSpec == DataInit /\ [][DataNext]_vars /\ WF_vars(ClientStep)

----------------------------------------------------------------------------
(* What is promised.                                                       *)

Places == {"edited", "workspace", "tools", "done", "raised"}

\* The shape of the state at every step of a review: files are written once
\* and in their order, there is an answer per call that was made and a
\* container for the call under way only, and a container that nobody waits
\* for belongs to a call that timed out (run_tool.py 39-66).
DataTypeOK ==
    /\ at \in Places
    /\ written <= Len(diff)
    /\ DOMAIN ws = {diff[f].path : f \in 1..written}
    /\ Len(answers) <= Len(input.calls)
    /\ \A i \in DOMAIN answers : answers[i].tool = input.calls[i].tool
    /\ box.is # "none" => at = "tools" /\ Len(answers) < Len(input.calls)
    /\ orphans <= Cardinality({i \in DOMAIN answers : answers[i].says = "timeout"})
    /\ Len(body) = IF at = "done" THEN Len(input.findings) ELSE 0

\* The lines of the new file a diff shows: by the hunks' headers, which number
\* them, and not in the way the workspace is made.
Shown(h) == {j \in 1..Len(h.body) : Sign(h.body[j]) \in {Space, "+", NoSign}}
PostImage(file) ==
    UNION {LET h == file.hunks[i] IN
              {<<h.start + Cardinality({k \in Shown(h) : k < j}), h.body[j]>> : j \in Shown(h)} :
           i \in DOMAIN file.hunks}
UpTo(image, n) == {p \in image : p[1] <= n}

\* A header that counts its body as git does, hunks one after the other, and
\* no line that Python takes for two.
Regular(file) ==
    \A i \in 1..Len(file.hunks) : LET h == file.hunks[i] IN
        /\ OldLines(h.body) = h.old /\ NewLines(h.body) = h.new
        /\ \A j \in 1..Len(h.body) : Len(h.body[j]) = 1
        /\ i > 1 => h.start >= file.hunks[i - 1].start + file.hunks[i - 1].new
        /\ h.new > 0 => h.start > 0

Overwritten(f) == \E g \in (f + 1)..Len(diff) : diff[g].path = diff[f].path

\* workspace.py promises "the post-diff version of changed files", and what is
\* there is what the diff shows of it: every line of the new file that a hunk
\* shows, in order and with its text, and no other.  Its number is that of the
\* line less the lines before it that no hunk shows, so that what a tool says of
\* a line is never said of one further down than it is, and is right where
\* the diff shows the file from its beginning.
WorkspaceIsThePostImage ==
    at \in {"tools", "done"} =>
        \A f \in 1..Len(diff) : LET file == diff[f] image == PostImage(file) IN
            Regular(file) /\ ~Overwritten(f) =>
                /\ Len(ws[file.path]) = IF image = {} THEN 1 ELSE Cardinality(image)
                /\ \A p \in image : LET n == Cardinality(UpTo(image, p[1])) IN
                      /\ n <= p[1]
                      /\ ws[file.path][n] = IF p[2] = Blank THEN <<>> ELSE Tail(p[2][1])

\* All of a hunk is read that its body shows.
ReadWhole(h, more) ==
    /\ Parses(h, more)
    /\ NewLines(SubSeq(h.body, 1, Length(h))) = NewLines(h.body)
    /\ OldLines(SubSeq(h.body, 1, Length(h))) = OldLines(h.body)

\* "Idempotent on a clean file" (fix_eval_set_headers.py 7), and more: repairing
\* once is enough for every file, and a repaired hunk of signed lines is read to
\* its end, unless it holds an empty line.  That is no line for the script and
\* a line of context for unidiff, which then cuts the hunk or refuses it.  Nor is
\* one that the script has emptied read, unless it is the last.
RepairIsFinal ==
    input.fix /\ at # "edited" =>
        \A i \in 1..Len(diff[1].hunks) :
            LET h == diff[1].hunks[i] more == i < Len(diff[1].hunks) IN
            /\ FixHunk(h) = h
            /\ (\A j \in 1..Len(h.body) : Sign(h.body[j]) \in Signs)
               => (ReadWhole(h, more) <=> /\ \A j \in 1..Len(h.body) : h.body[j] # Blank
                                          /\ h.body = <<>> => ~more)

\* What the critique is told of a tool is so: "no findings" and "no matches"
\* when there were none, findings when there are, and an error never of a
\* container that did its work in time.  It is not so of a Semgrep that ends with
\* 1 and says nothing, which counts as a clean run (semgrep_tool.py 75-83); nor
\* is it all there was, of a ripgrep that found more than 50 in a file
\* (ripgrep_tool.py 10), or of a Ruff or a Semgrep that dies having said
\* something.
AnswersAreTrue ==
    \A i \in DOMAIN answers : LET a == answers[i] IN
        /\ a.says = "clean" => ~a.dirty \/ (a.tool = "semgrep" /\ a.rc = 1)
        /\ a.says = "found" =>
              a.dirty /\ (a.out # "all" => (a.rc = 0 <=> a.tool = "ripgrep"))
        /\ a.says = "error" /\ a.tool \in Sandboxed /\ input.docker =>
              [rc |-> a.rc, out |-> a.out] \notin Finished(a.tool, a.dirty)

Rank(f) == CHOOSE i \in DOMAIN Severities : Severities[i] = f.sev
SameKey(f, g) == f.sev = g.sev /\ f.file = g.file /\ SortLine(f) = SortLine(g)
Shuffles(s) ==
    {[i \in DOMAIN s |-> s[p[i]]] :
        p \in {p \in [DOMAIN s -> DOMAIN s] : \A j \in DOMAIN s : \E i \in DOMAIN s : p[i] = j}}

\* format_review.py 5 promises output that is "stable, diff-friendly ... across
\* runs": the comment has the findings by severity, file and line, those of a
\* file without a line last (19), and the same findings in another order make
\* the same comment.  It is so unless two findings share severity, file and
\* line; and a line past the number that stands for none comes after it.
BodyIsCanonical ==
    at = "done" =>
        /\ body \in Shuffles(input.findings)
        /\ \A i, j \in DOMAIN body : i < j =>
              /\ Rank(body[i]) <= Rank(body[j])
              /\ Rank(body[i]) = Rank(body[j]) =>
                    /\ body[i].file <= body[j].file
                    /\ (body[i].file = body[j].file /\ body[i].line = NoLine
                          /\ body[j].line # NoLine) => body[j].line >= LineOfNone
        /\ (\A i, j \in DOMAIN body : i # j => ~SameKey(body[i], body[j]))
              => \A s \in Shuffles(input.findings) : Format(s) = body

\* However the containers of a review behave, and if they never end, the review
\* gets an answer to each of its calls and comes to its comment
\* (ruff_tool.py 62-73, semgrep_tool.py 58-69, ripgrep_tool.py 59-70).
ToolsFinish == (at = "tools") ~> (at = "done")
=============================================================================
