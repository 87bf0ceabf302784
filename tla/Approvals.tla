------------------------------- MODULE Approvals -------------------------------
(***************************************************************************)
(* The gate of audit-risk and the approvals that open it                   *)
(* (src/engine/src/cli.rs, run_check_command, run_approve_command and      *)
(* apply_active_approvals).                                                *)
(*                                                                         *)
(* A check (or report) scans files, gives every finding the effect of the  *)
(* rule policy, releases the findings an approval covers, and records      *)
(* findings, fingerprints and decision in the audit log.  An approve       *)
(* command copies the fingerprint of a finding out of the latest review in *)
(* the log.  No lock is held from one of these steps to the next: files    *)
(* change, the clock moves and other commands append in between.           *)
(*                                                                         *)
(* The log is the append-only trail that AuditLog implements, possibly     *)
(* shared by several workspaces.  A hash is represented by what it commits *)
(* to.  A file holds at most one finding; the growth of the whole graph    *)
(* since the baseline is a finding of no file, which says only how much it *)
(* grew.                                                                   *)
(***************************************************************************)
EXTENDS GatePolicy, Sequences, FiniteSets

CONSTANTS
  Workspace,   \* the workspaces that share one audit log
  NFiles,      \* the files 1..NFiles of a workspace, in the order they are scanned
  Content,     \* what a file can hold: [rule, level, says, rest], where a finding says
               \* the explanation and the line, and only the hash tells the rest apart
  Gone,        \* the one of them that stands for no file
  NoRule,      \* the rule of harmless contents
  Growth,      \* what of the graph can have grown, of the same fields as a content
  Job,         \* the commands that may be running at one time
  Trees,       \* the contents the workspaces may have at first
  Scans,       \* what a check may look at: [files, grown]
  MaxCommands, MaxEdits, MaxTime \* bounds: commands, edits, clock

File == 1..NFiles
Whole == 0     \* the place of a finding of no file: its path is empty
Time == 0..MaxTime
Risky == {c \in Content : c.rule # NoRule}

ASSUME ContentAssumption ==
  /\ NFiles \in Nat
  /\ \A c \in Content \cup Growth : c.level \in 2..5 /\ c.rule \in Rule \cup {NoRule}
  /\ Gone \in Content /\ Gone.rule = NoRule
ASSUME ApprovalBounds ==
  /\ Trees \subseteq [File -> Content] 
  /\ \A s \in Scans : s.files \subseteq File /\ s.grown \subseteq Growth
  /\ MaxCommands \in Nat /\ MaxEdits \in Nat /\ MaxTime \in Nat

VARIABLES
  content,  \* the files of every workspace
  log,      \* the audit log
  now,      \* the clock
  draft,    \* the entry each running command is preparing
  steady,   \* history: no file changed while a check was at work
  commands, edits  \* bounds

vars == <<content, log, now, draft, steady, commands, edits>>

-----------------------------------------------------------------------------
(* Findings and fingerprints *)

Id == (2..5) \X Nat
Finding == [id : Id, file : File, seen : Risky] \cup [id : Id, file : {Whole}, seen : Growth]
Fingerprints == [root : Workspace, file : File \cup {Whole}, rule : Rule \cup {NoRule}, level : 2..5,
                 says : {c.says : c \in Content \cup Growth}, evidence : SUBSET Content]

\* The findings of a scan: a finding is named by its level and its position among
\* the findings of that level, growth of the graph before the contents of files.
Findings(w, scan) ==
  LET found == {<<Whole, g>> : g \in scan.grown} \cup
               {<<f, content[w][f]>> : f \in {g \in scan.files : content[w][g] \in Risky}}
      Position(x) == Cardinality({y \in found : y[1] < x[1] /\ y[2].level = x[2].level})
  IN  {[id |-> <<x[2].level, Position(x)>>, file |-> x[1], seen |-> x[2]] : x \in found}

\* Fault: the evidence is left out of fingerprints.
Evidence_None(w, file) == {}

\* finding_evidence_hash: the hash of the file as it is now, if there is one.
Evidence(w, file) == IF file \in File THEN {content[w][file]} \ {Gone} ELSE {}

\* The finding as the scan described it, with the evidence there is when the
\* fingerprint is taken.
Fingerprint(w, finding) ==
  [root |-> w, file |-> finding.file, rule |-> finding.seen.rule, level |-> finding.seen.level,
   says |-> finding.seen.says, evidence |-> Evidence(w, finding.file)]

-----------------------------------------------------------------------------
(* The audit log.  A review_check entry has the fields                        *)
(*   ws, findings, decision, released, prints  (a fingerprint per finding)    *)
(* and, as history, asOf and upTo: the clock and the length of the log when   *)
(* the approvals were applied.                                                *)

Approval == [tool : {"approval.granted"}, ws : Workspace, id : Id,
             print : Fingerprints, until : Nat]

Reviews == {i \in 1..Len(log) : log[i].tool = "review_check"}
Grants == {i \in 1..Len(log) : log[i].tool = "approval.granted"}

\* Fault: approvals do not expire.
Active_Expired(w, id) == {i \in Grants : log[i].ws = w /\ log[i].id = id}

\* Fault: an approval expires a tick early.
Active_Early(w, id) ==
  {i \in Grants : log[i].ws = w /\ log[i].id = id /\ log[i].until > now + 1}

\* The unexpired approvals given in a workspace for a finding id.
Active(w, id) == {i \in Grants : log[i].ws = w /\ log[i].id = id /\ log[i].until > now}

\* The last of them decides, and releases the finding if the fingerprint matches.
Releases(w, finding) ==
  \E i \in Active(w, finding.id) :
    /\ \A k \in Active(w, finding.id) : k <= i
    /\ log[i].print = Fingerprint(w, finding)

-----------------------------------------------------------------------------
Idle == [tool |-> "none"]

TypeOK ==
  /\ content \in [Workspace -> [File -> Content]]
  /\ \A i \in Grants : log[i] \in Approval
  /\ \A i \in Reviews :
       /\ log[i].findings \subseteq Finding /\ log[i].released \subseteq log[i].findings
       /\ log[i].decision \in GateEffect
       /\ log[i].asOf \in Time /\ log[i].upTo \in 0..(i - 1)
       /\ \A f \in log[i].findings : log[i].prints[f] \in Fingerprints
  /\ now \in Time
  /\ \A j \in Job :
       draft[j].tool \in {"none", "scan", "gate", "review_check", "approval.granted"}
  /\ steady \in BOOLEAN
  /\ commands \in 0..MaxCommands
  /\ edits \in 0..MaxEdits

Init ==
  /\ \E tree \in Trees : content = [w \in Workspace |-> tree]
  /\ log = << >>
  /\ now = 0
  /\ draft = [j \in Job |-> Idle]
  /\ steady = TRUE
  /\ commands = 0
  /\ edits = 0

StartCommand(j) ==
  /\ draft[j] = Idle
  /\ commands < MaxCommands
  /\ commands' = commands + 1

\* A check scans the files git or --files-from gave it, and compares the graph with
\* the baseline if it is an ordinary one.
Scan(j, w, scan) ==
  /\ StartCommand(j)
  /\ draft' = [draft EXCEPT ![j] =
       [tool |-> "scan", ws |-> w, findings |-> Findings(w, scan)]]
  /\ UNCHANGED <<content, log, now, steady, edits>>

\* Policy and approvals are applied.
Decide(j) ==
  /\ draft[j].tool = "scan"
  /\ LET d == draft[j]
         released == {f \in d.findings : EffectOf(f.seen.rule) # "allow" /\ Releases(d.ws, f)}
         decision == Strongest({EffectOf(f.seen.rule) : f \in d.findings \ released})
     IN  draft' = [draft EXCEPT ![j] =
           [tool |-> "gate", ws |-> d.ws, findings |-> d.findings,
            released |-> released, decision |-> decision,
            asOf |-> now, upTo |-> Len(log)]]
  /\ UNCHANGED <<content, log, now, steady, commands, edits>>

\* The fingerprints that go on record are taken.
TakePrints(j) ==
  /\ draft[j].tool = "gate"
  /\ LET d == draft[j]
     IN  draft' = [draft EXCEPT ![j] =
           [tool |-> "review_check", ws |-> d.ws, findings |-> d.findings,
            released |-> d.released, decision |-> d.decision, asOf |-> d.asOf, upTo |-> d.upTo,
            prints |-> [f \in d.findings |-> Fingerprint(d.ws, f)]]]
  /\ UNCHANGED <<content, log, now, steady, commands, edits>>

\* An approve command finds the id the user gave in the latest review of the log,
\* and refuses an expiry date that has passed.
Cite(j, w, until) ==
  /\ StartCommand(j)
  /\ until > now
  /\ \E latest \in Reviews :
       /\ \A k \in Reviews : k <= latest
       /\ \E f \in log[latest].findings :
            draft' = [draft EXCEPT ![j] =
              [tool |-> "approval.granted", ws |-> w, id |-> f.id,
               print |-> log[latest].prints[f], until |-> until]]
  /\ UNCHANGED <<content, log, now, steady, edits>>

\* The entry is appended and the command returns: a check its decision, an
\* approve command "recorded".
Record(j) ==
  /\ draft[j].tool \in {"review_check", "approval.granted"}
  /\ log' = Append(log, draft[j])
  /\ draft' = [draft EXCEPT ![j] = Idle]
  /\ UNCHANGED <<content, now, steady, commands, edits>>

\* An error (a refused append among them) or a crash ends the command.
Abandon(j) ==
  /\ draft[j] # Idle
  /\ draft' = [draft EXCEPT ![j] = Idle]
  /\ UNCHANGED <<content, log, now, steady, commands, edits>>

\* Somebody edits, deletes or creates a file.
Edit(w, f, c) ==
  /\ edits < MaxEdits
  /\ c # content[w][f]
  /\ content' = [content EXCEPT ![w][f] = c]
  /\ edits' = edits + 1
  /\ steady' = (steady /\ \A j \in Job : draft[j].tool \notin {"scan", "gate"})
  /\ UNCHANGED <<log, now, draft, commands>>

Tick ==
  /\ now < MaxTime
  /\ now' = now + 1
  /\ UNCHANGED <<content, log, draft, steady, commands, edits>>

Next ==
  \/ \E j \in Job :
       \/ \E w \in Workspace, scan \in Scans : Scan(j, w, scan)
       \/ Decide(j) \/ TakePrints(j) \/ Record(j) \/ Abandon(j)
       \/ \E w \in Workspace, until \in Time \cup {MaxTime + 1} : Cite(j, w, until)
  \/ \E w \in Workspace, f \in File, c \in Content : Edit(w, f, c)
  \/ Tick

Spec == Init /\ [][Next]_vars

-----------------------------------------------------------------------------
(* Properties, of the entries a reader finds in the log *)

\* The grants in force for a finding of the i-th entry when its gate was decided.
InForce(i, f) ==
  {k \in Grants : /\ k <= log[i].upTo /\ log[i].asOf < log[k].until
                  /\ log[k].ws = log[i].ws /\ log[k].id = f.id}

\* The finding as it stands in the i-th entry had been reviewed in this workspace
\* before the k-th entry; of growth it can only be said that one of the same
\* words had been, which another growth by as much would be, too.
ReviewedBefore(k, i, f) ==
  \E m \in Reviews : m < k /\ log[m].ws = log[i].ws /\ \E g \in log[m].findings :
    /\ g.id = f.id /\ g.file = f.file /\ g.seen.rule = f.seen.rule /\ g.seen.says = f.seen.says
    /\ f.file \in File => g.seen = f.seen

\* A command exits with 0 under a threshold that the policy's effect on one of its
\* findings reaches only if this finding was reviewed in this workspace, then approved,
\* and the approval had not expired: one of a file with these very contents, one of
\* no file in these words.  Approvals do not cross workspaces, survive edits of the
\* file they are of or pass from one finding to another that takes its id.
PassMeansReviewed ==
  \A i \in Reviews, failOn \in {"off", "warn", "require_approval", "block"} :
    ~Fails(log[i].decision, failOn) =>
      \A f \in {g \in log[i].findings : Fails(EffectOf(g.seen.rule), failOn)} :
        \E k \in InForce(i, f) : ReviewedBefore(k, i, f)

\* So it is as long as no file changes under a check that is at work.
SteadyPassMeansReviewed == steady => PassMeansReviewed

\* Even when files change under a running check, a finding is released only by an
\* unexpired approval of this workspace that names its rule, its file and its words.
ReleaseIsApproved ==
  \A i \in Reviews : \A f \in log[i].released :
    \E k \in InForce(i, f) :
      /\ log[k].print.root = log[i].ws
      /\ log[k].print.file = f.file
      /\ log[k].print.rule = f.seen.rule
      /\ log[k].print.says = f.seen.says

\* As long as no file changes under a check, an unexpired approval of a finding is
\* honoured, unless a later approval took its id over.
ApprovalHonoured ==
  steady => \A i \in Reviews : \A f \in log[i].findings \ log[i].released :
    EffectOf(f.seen.rule) # "allow" =>
      \A k \in InForce(i, f) :
        log[k].print = log[i].prints[f] => \E m \in InForce(i, f) : m > k
=============================================================================
