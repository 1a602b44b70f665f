----------------------------- MODULE MemoryLoop -----------------------------
(***************************************************************************)
(* The memory loop: reviews read labelled memories into their prompt        *)
(* (nodes/critique.py) and store their findings unlabelled                  *)
(* (nodes/write_memory.py, memory.py), while people label what is stored    *)
(* from sessions of the command line (scripts/label_memory.py).             *)
(*                                                                          *)
(* Every operation of MemoryStore opens its own PostgreSQL connection and   *)
(* transaction.  A memory is named by the review that found it and its      *)
(* place in that review's findings.                                         *)
(***************************************************************************)
EXTENDS Naturals, FiniteSets

CONSTANTS
    Reviews,   \* reviews that run with a memory store
    Sessions,  \* runs of label_memory.py
    Repo,      \* Repo[r]: the repository of review r
    Scope,     \* Scope[s]: the repositories session s lists (--repo, or all)
    Batch,     \* Batch[r]: how many findings review r stores
    K,         \* memories in a prompt
    Limit      \* --limit: memories listed by a session

Memories == UNION {{r} \X (1..Batch[r]) : r \in Reviews}

ASSUME MemoryAssumption ==
    /\ Batch \in [Reviews -> Nat]
    /\ DOMAIN Repo = Reviews /\ DOMAIN Scope = Sessions
    /\ IsFiniteSet(Reviews)
    /\ K \in Nat /\ Limit \in Nat

VARIABLES
    phase,     \* phase[r]: where review r is
    inserted,  \* inserted[r]: rows its open transaction has inserted
    started,   \* started[r]: created_at of its rows, the start of the transaction
    rows,      \* the committed memories
    accepted,  \* accepted[m]: was_accepted of m: "null", "yes", "no"
    prompt,    \* prompt[r]: the memories in r's prompt, each with its outcome
    session,   \* session[s]: idle, open, closed
    todo,      \* todo[s]: what session s listed and has not come to yet
    verdicts,  \* history: the verdicts people gave, <<memory, verdict>>
    unseen     \* history: unseen[s]: memories judged since session s listed

review == <<phase, inserted, started, prompt>>
people == <<session, todo>>
vars == <<review, rows, accepted, people, verdicts, unseen>>

Verdicts == {"yes", "no"}

TypeOK ==
    /\ phase \in [Reviews -> {"reading", "critiqued", "storing", "stored", "raised"}]
    /\ \A r \in Reviews : inserted[r] \in 0..Batch[r]
    /\ started \in [Reviews -> Nat]
    /\ rows \subseteq Memories
    /\ accepted \in [Memories -> Verdicts \cup {"null"}]
    /\ prompt \in [Reviews -> SUBSET (Memories \X Verdicts)]
    /\ session \in [Sessions -> {"idle", "open", "closed"}]
    /\ todo \in [Sessions -> SUBSET Memories]
    /\ verdicts \subseteq Memories \X Verdicts
    /\ unseen \in [Sessions -> SUBSET Memories]

Init ==
    /\ phase = [r \in Reviews |-> "reading"]
    /\ inserted = [r \in Reviews |-> 0]
    /\ started = [r \in Reviews |-> 0]
    /\ rows = {}
    /\ accepted = [m \in Memories |-> "null"]
    /\ prompt = [r \in Reviews |-> {}]
    /\ session = [s \in Sessions |-> "idle"]
    /\ todo = [s \in Sessions |-> {}]
    /\ verdicts = {}
    /\ unseen = [s \in Sessions |-> {}]

Goto(r, p) == phase' = [phase EXCEPT ![r] = p]

----------------------------------------------------------------------------
(* A review.                                                               *)

\* Mutant of Labelled: only_labeled is left at its default.
AnyLabel(repo) == {m \in rows : Repo[m[1]] = repo}

\* The rows that the query of retrieve_similar may return: only_labeled=True.
Labelled(repo) == {m \in rows : Repo[m[1]] = repo /\ accepted[m] # "null"}

\* "ACCEPTED" if was_accepted, "REJECTED" otherwise: NULL would be rejected.
Outcome(m) == IF accepted[m] = "yes" THEN "yes" ELSE "no"

\* retrieve_similar and the prompt.  The HNSW index is approximate and filters
\* after its search, so any K or fewer of the labelled rows may come back.
Retrieve(r) ==
    /\ phase[r] = "reading"
    /\ \E S \in SUBSET Labelled(Repo[r]) :
          /\ Cardinality(S) <= K
          /\ prompt' = [prompt EXCEPT ![r] = {<<m, Outcome(m)>> : m \in S}]
    /\ Goto(r, "critiqued")
    /\ UNCHANGED <<inserted, started, rows, accepted, people, verdicts, unseen>>

\* The embedding, the connection or any statement fails: the transaction, if
\* there is one, is rolled back and the exception ends the review.
Raise(r) ==
    /\ phase[r] \in {"reading", "critiqued", "storing"}
    /\ Goto(r, "raised")
    /\ UNCHANGED <<inserted, started, rows, accepted, prompt, people, verdicts, unseen>>

\* Nothing to store when there are no findings; otherwise embed the diff once
\* and begin the transaction of the batch.
Begin(r) ==
    /\ phase[r] = "critiqued"
    /\ IF Batch[r] = 0 THEN Goto(r, "stored") /\ UNCHANGED started
       ELSE /\ Goto(r, "storing")
            /\ started' = [started EXCEPT ![r] = Cardinality({q \in Reviews : started[q] > 0}) + 1]
    /\ UNCHANGED <<inserted, rows, accepted, prompt, people, verdicts, unseen>>

\* Mutant of Insert: the connection is in autocommit mode.
InsertAndCommit(r) ==
    /\ phase[r] = "storing" /\ inserted[r] < Batch[r]
    /\ inserted' = [inserted EXCEPT ![r] = @ + 1]
    /\ rows' = rows \cup {<<r, inserted[r] + 1>>}
    /\ UNCHANGED <<phase, started, accepted, prompt, people, verdicts, unseen>>

\* Mutant of Insert: the loop runs once too often.
InsertOneMore(r) ==
    /\ phase[r] = "storing" /\ inserted[r] <= Batch[r]
    /\ inserted' = [inserted EXCEPT ![r] = @ + 1]
    /\ UNCHANGED <<phase, started, rows, accepted, prompt, people, verdicts, unseen>>

\* One INSERT of the batch, visible to nobody yet.
Insert(r) ==
    /\ phase[r] = "storing" /\ inserted[r] < Batch[r]
    /\ inserted' = [inserted EXCEPT ![r] = @ + 1]
    /\ UNCHANGED <<phase, started, rows, accepted, prompt, people, verdicts, unseen>>

\* The connection's context manager commits; if the connection breaks on the
\* answer the rows are in although store_findings raises.
Commit(r) ==
    /\ phase[r] = "storing" /\ inserted[r] = Batch[r]
    /\ rows' = rows \cup {r} \X (1..inserted[r])
    /\ Goto(r, "stored") \/ Goto(r, "raised")
    /\ UNCHANGED <<inserted, started, accepted, prompt, people, verdicts, unseen>>

----------------------------------------------------------------------------
(* A labelling session.                                                    *)

\* Mutant of Unlabelled: the WHERE clause loses was_accepted IS NULL.
InScope(s) == {m \in rows : Repo[m[1]] \in Scope[s]}

Unlabelled(s) == {m \in rows : Repo[m[1]] \in Scope[s] /\ accepted[m] = "null"}

\* list_unlabeled: the Limit oldest unlabelled rows; rows of one transaction
\* have the same age.
List(s) ==
    /\ session[s] = "idle"
    /\ \E S \in SUBSET Unlabelled(s) :
          /\ S = Unlabelled(s) \/ Cardinality(S) = Limit
          /\ Cardinality(S) <= Limit
          /\ \A m \in S, n \in Unlabelled(s) \ S : started[m[1]] <= started[n[1]]
          /\ todo' = [todo EXCEPT ![s] = S]
    /\ session' = [session EXCEPT ![s] = "open"]
    /\ unseen' = [unseen EXCEPT ![s] = {}]
    /\ UNCHANGED <<review, rows, accepted, verdicts>>

Come(s, m) ==
    /\ session[s] = "open" /\ m \in todo[s]
    /\ \A n \in todo[s] : started[m[1]] <= started[n[1]]
    /\ todo' = [todo EXCEPT ![s] = @ \ {m}]

\* "a" or "r": label updates the row, whatever its was_accepted is by now.
Label(s) ==
    /\ \E m \in todo[s], v \in Verdicts :
          /\ Come(s, m)
          /\ accepted' = [accepted EXCEPT ![m] = v]
          /\ verdicts' = verdicts \cup {<<m, v>>}
          /\ unseen' = [t \in Sessions |-> unseen[t] \cup {m}]
    /\ UNCHANGED <<review, rows, session>>

\* "s"
Skip(s) ==
    /\ \E m \in todo[s] : Come(s, m)
    /\ UNCHANGED <<review, rows, accepted, session, verdicts, unseen>>

\* "q", the end of the list, an error or a closed terminal.
Close(s) ==
    /\ session[s] = "open"
    /\ session' = [session EXCEPT ![s] = "closed"]
    /\ todo' = [todo EXCEPT ![s] = {}]
    /\ UNCHANGED <<review, rows, accepted, verdicts, unseen>>

----------------------------------------------------------------------------
Next ==
    \/ \E r \in Reviews : Retrieve(r) \/ Raise(r) \/ Begin(r) \/ Insert(r) \/ Commit(r)
    \/ \E s \in Sessions : List(s) \/ Label(s) \/ Skip(s) \/ Close(s)

Spec == Init /\ [][Next]_vars
----------------------------------------------------------------------------
(* Properties.                                                             *)

\* The findings of a review become memories all together or not at all, whatever
\* fails between the first INSERT and the commit.
BatchIsAtomic ==
    \A r \in Reviews :
        \/ \A m \in rows : m[1] # r
        \/ {r} \X (1..Batch[r]) \subseteq rows

\* An outcome in a prompt is a verdict a person gave on that memory: no finding
\* is suppressed because nobody has judged it yet.
OutcomesAreVerdicts == \A r \in Reviews : prompt[r] \subseteq verdicts

\* A session offers a memory that already has a verdict only when the verdict
\* was given after the session had listed its memories.
OnlyLateVerdictsAreOffered ==
    \A s \in Sessions : \A m \in todo[s] : accepted[m] # "null" => m \in unseen[s]

\* The command line says that it walks through memories with was_accepted IS
\* NULL, one at a time: so it never changes a verdict that was given.  The code
\* walks through the memories that had none when it started.
VerdictsStand ==
    [][\A m \in Memories : accepted[m] # "null" => accepted'[m] = accepted[m]]_vars
=============================================================================
