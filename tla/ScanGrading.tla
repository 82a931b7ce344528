----------------------------- MODULE ScanGrading -----------------------------
(***************************************************************************)
(* How a security scan is graded: the findings of the CLI's report, the    *)
(* waivers in force when the scan started and spec.policy give the summary *)
(* of the report and the condition Compliant.  A level is its rank in      *)
(* SecurityLevels, lowest first, and Unknown when the CLI names another or *)
(* none.  The extension of a finding is its Name; an id may be found in    *)
(* several extensions, and a report may repeat a finding.                  *)
(***************************************************************************)
EXTENDS Integers, Sequences, SequencesExt, FiniteSets

CONSTANTS
  Ids,          \* Ids of vulnerabilities.
  Extensions,   \* What they are found in.
  Ranks,        \* The levels, 0..n.
  MaxFindings   \* Bound: length of the CLI's report.

Unknown  == -1
NoFailOn == -2
Levels   == Ranks \cup {Unknown}

\* LevelIndex counts from 0.
ConstantsOK == Ranks \subseteq Nat /\ MaxFindings \in Nat

Vulnerabilities == [id : Ids, name : Extensions, level : Levels]

VARIABLES
  found,     \* The Vulnerabilities of the CLI's report.
  waivers,   \* The ids that are waived, as of the snapshot.
  failOn,    \* spec.policy.failOn, or NoFailOn.
  graded     \* The report and the verdict, once the scan is graded.

vars == <<found, waivers, failOn, graded>>

NotGraded == [compliant |-> "NotScanned"]

-----------------------------------------------------------------------------
(* grade.                                                                  *)

key(v) == <<v.id, v.name>>

\* Mutant: findings with the same id are duplicates.
seenById(fs, v) == \E i \in DOMAIN fs : fs[i].vulnerability.id = v.id

seen(fs, v) == \E i \in DOMAIN fs : key(fs[i].vulnerability) = key(v)

Nothing == [findings |-> <<>>, total |-> 0, waived |-> 0, highest |-> Unknown,
            counts |-> [l \in Levels |-> 0]]

\* waiverFor: the snapshot names ids of spec.policy.ignore, so one is found.
waivedOff(r, v) ==
  [r EXCEPT !.findings = Append(@, [vulnerability |-> v, waived |-> TRUE]), !.waived = @ + 1]

\* LevelIndex of no level is that of an unknown one.
counted(r, v) ==
  [r EXCEPT !.findings = Append(@, [vulnerability |-> v, waived |-> FALSE]), !.total = @ + 1,
            !.counts[v.level] = @ + 1, !.highest = IF v.level > @ THEN v.level ELSE @]

\* The first of each id and extension stands.
withFinding(r, v) ==
  IF seen(r.findings, v) THEN r
  ELSE IF v.id \in waivers THEN waivedOff(r, v) ELSE counted(r, v)

\* After so many of the findings.
grading[k \in 0..Len(found)] ==
  IF k = 0 THEN Nothing ELSE withFinding(grading[k - 1], found[k])

grade == grading[Len(found)]

summary(r) ==
  [total |-> r.total, waived |-> r.waived, highest |-> r.highest,
   levels |-> [l \in Ranks |-> r.counts[l]]]

unwaived(fs) == {i \in DOMAIN fs : ~fs[i].waived}
level(f) == f.vulnerability.level

\* Mutant: a finding at the threshold passes.
violationsAbove(fs) == {i \in unwaived(fs) : level(fs[i]) > failOn}

violations(fs) == {i \in unwaived(fs) : level(fs[i]) >= failOn}

verdictOf(fs) ==
  CASE failOn = NoFailOn                          -> "Unknown"
    [] failOn # NoFailOn /\ violations(fs) = {}   -> "True"
    [] OTHER                                      -> "False"

-----------------------------------------------------------------------------
Init ==
  /\ found \in BoundedSeq(Vulnerabilities, MaxFindings)
  /\ waivers \in SUBSET Ids
  /\ failOn \in Ranks \cup {NoFailOn}
  /\ graded = NotGraded

Grade ==
  /\ graded = NotGraded
  /\ graded' = [findings |-> grade.findings, summary |-> summary(grade),
                compliant |-> verdictOf(grade.findings)]
  /\ UNCHANGED <<found, waivers, failOn>>

Next == Grade
Spec == Init /\ [][Next]_vars

-----------------------------------------------------------------------------
(* Properties.                                                             *)

\* What an alert on Compliant relies on: the condition is False exactly when
\* the CLI reported a finding, not waived, at failOn or above.  A finding of an
\* unknown level never is, and of two reports of one finding the first counts.
VerdictIsOfTheReport ==
  graded # NotGraded /\ failOn # NoFailOn =>
    (graded.compliant = "False" <=>
       \E i \in DOMAIN found :
         /\ found[i].level >= failOn /\ found[i].id \notin waivers
         /\ \A j \in 1..i-1 : key(found[j]) # key(found[i]))

\* The summary tells of every finding once: its counts are those of the
\* different findings of the report, those of an unknown level are in the total
\* and in no level, and the verdict can be read from it.
SummaryIsComplete ==
  graded # NotGraded =>
    LET s == graded.summary
        fs == graded.findings
    IN  /\ s.total + s.waived = Cardinality({key(found[i]) : i \in DOMAIN found})
        /\ s.total = Cardinality(unwaived(fs)) /\ s.waived = Cardinality(DOMAIN fs \ unwaived(fs))
        /\ \A l \in Ranks : s.levels[l] = Cardinality({i \in unwaived(fs) : level(fs[i]) = l})
        /\ failOn # NoFailOn => (graded.compliant = "False" <=> s.highest >= failOn)
=============================================================================
