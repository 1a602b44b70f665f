---------------------------- MODULE MCReviewData ----------------------------
EXTENDS ReviewData

CONSTANTS MaxBody, MaxFindings

\* The lines a body is made of: context, added, removed, an added line with
\* nothing on it, an empty line, the no-newline marker, a line that is none of
\* these, an added line with a form feed in it, and one that begins with it.
Ctx == << <<" ", "c">> >>
Add == << <<"+", "a">> >>
Rem == << <<"-", "r">> >>
LoneAdd == << <<"+">> >>
Marker == << <<"\\">> >>
Alien == << <<"x">> >>
Broken2 == << <<"+", "b">>, <<" ", "b">> >>
Feed == << <<>>, <<"+", "f">> >>
Lines == {Ctx, Add, Rem, LoneAdd, Blank, Marker, Alien, Broken2, Feed}

UpToN(S, n) == UNION {[1..k -> S] : k \in 0..n}

AHunk(s, o, n, b) == [start |-> s, old |-> o, new |-> n, body |-> b]
Right(s, b) == AHunk(s, OldLines(b), NewLines(b), b)
AFile(p, hs) == [path |-> p, hunks |-> hs]

Case(files, fix, docker, calls, findings) ==
    [files |-> files, fix |-> fix, docker |-> docker, calls |-> calls,
     findings |-> findings]

\* One hunk of any body, its header right, one short of it, or one past it, as
\* it is or repaired first.
Bodies == {Case(<<AFile(<<"a">>, <<h>>)>>, fix, TRUE, <<>>, <<>>) :
             fix \in BOOLEAN,
             h \in UNION {{Right(3, b),
                           AHunk(3, OldLines(b) + 1, NewLines(b), b),
                           AHunk(3, OldLines(b), IF NewLines(b) = 0 THEN 0 ELSE NewLines(b) - 1, b)} :
                            b \in UpToN(Lines, MaxBody)}}

\* Two hunks of one file, with or without something between them; the repair
\* leaves nothing of the last of these bodies.
Small == {<<Ctx>>, <<Add, Ctx>>, <<Rem>>, <<Add, Marker>>, <<LoneAdd>>}
Pairs == {Case(<<AFile(<<"a">>, <<Right(s, b), Right(s + Len(b) + gap, c)>>)>>,
               fix, TRUE, <<>>, <<>>) :
             s \in {1, 2}, gap \in {0, 2}, b \in Small, c \in Small, fix \in BOOLEAN}

\* Files that share a path, or stand where another has its directory; a file
\* that is deleted, and one of which no line changes.
Some == {<<>>, <<Right(1, <<Add, Ctx>>)>>, <<Right(0, <<Rem>>)>>}
Trees == {Case(fs, FALSE, TRUE, <<>>, <<>>) : fs \in
            UNION {[1..k -> {AFile(p, hs) : p \in {<<"a">>, <<"b">>, <<"a", "b">>}, hs \in Some}] :
                     k \in 0..2}}

\* Plans of up to two calls, on a workspace with a file or with none.
AnyCall == {[tool |-> t, argued |-> g] : t \in Tools, g \in BOOLEAN}
Plans == {Case(fs, FALSE, docker, calls, <<>>) :
            fs \in {<<>>, <<AFile(<<"a">>, <<Right(1, <<Add>>)>>)>>},
            docker \in BOOLEAN, calls \in UpToN(AnyCall, 2)}

\* Findings with and without a line, one of them past the line of none.
AFinding(v, f, l, m) == [sev |-> v, file |-> f, line |-> l, msg |-> m]
AnyFinding ==
    {AFinding(v, f, l, "x") : v \in {"high", "low"}, f \in {1, 2},
                            l \in {NoLine, 1, LineOfNone + 1}}
    \cup {AFinding("high", 1, l, "y") : l \in {1, LineOfNone}}
Comments == {Case(<<>>, FALSE, TRUE, <<>>, fs) : fs \in UpToN(AnyFinding, MaxFindings)}

MCInputs == Bodies \cup Pairs \cup Trees \cup Plans \cup Comments
=============================================================================
