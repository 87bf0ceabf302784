--------------------------- MODULE Approvals_proofs ---------------------------
(***************************************************************************)
(* Proofs about Approvals, for any workspaces, files, contents, policy and *)
(* number of running commands, and whatever changes under them.            *)
(*                                                                         *)
(* A check that has applied the approvals carries its decision with it     *)
(* until the entry is in the log. The approvals it used stay in force for  *)
(* it because the log only grows: their positions, and what they say, are  *)
(* the same when the entry is appended as when they were read.             *)
(*                                                                         *)
(* While no file changes under a running check, what a check decided is    *)
(* what its scan saw, the fingerprints it records are of what it saw, and  *)
(* a grant carries the fingerprint of a review before it in the log. So    *)
(* the approval behind a pass leads back to a review of the same contents, *)
(* or, where a finding has no file, of the same words; and of two          *)
(* approvals of one finding the later decides.                             *)
(***************************************************************************)
EXTENDS Approvals, TLAPS

\* The approval at k covers finding f of a review in workspace w.
Covers(k, w, f) ==
  /\ log[k].tool = "approval.granted"
  /\ log[k].ws = w
  /\ log[k].id = f.id
  /\ log[k].print.root = w
  /\ log[k].print.file = f.file
  /\ log[k].print.rule = f.seen.rule
  /\ log[k].print.says = f.seen.says

\* Every finding a review released is covered by an approval that it could read
\* and that had not expired.
Justified(e) ==
  /\ e.upTo \in 0..Len(log)
  /\ \A f \in e.released : \E k \in 1..e.upTo :
       Covers(k, e.ws, f) /\ e.asOf < log[k].until

LogIsSequence == \E S : log \in Seq(S)

IInv ==
  /\ LogIsSequence
  /\ DOMAIN draft = Job
  /\ \A j \in Job : draft[j].tool \in {"gate", "review_check"} => Justified(draft[j])
  /\ \A i \in Reviews : Justified(log[i])

-----------------------------------------------------------------------------
\* What is justified stays so when the log grows.
LEMMA JustifiedStays ==
  ASSUME LogIsSequence, NEW x, log' = Append(log, x), NEW e, Justified(e)
  PROVE  Justified(e)'
<1>1. PICK S : log \in Seq(S)
  BY DEF LogIsSequence
<1>2. log \in Seq(S \cup {x}) /\ x \in S \cup {x}
  BY <1>1
<1>3. Len(log') = Len(log) + 1 /\ \A k \in 1..Len(log) : log'[k] = log[k]
  BY <1>2
<1>4. Len(log) \in Nat
  BY <1>1
<1>5. e.upTo \in 0..Len(log')
  BY <1>3, <1>4 DEF Justified
<1>6. ASSUME NEW f \in e.released
      PROVE  \E k \in 1..e.upTo : Covers(k, e.ws, f)' /\ e.asOf < log'[k].until
  <2>1. PICK k \in 1..e.upTo : Covers(k, e.ws, f) /\ e.asOf < log[k].until
    BY DEF Justified
  <2>2. log'[k] = log[k]
    BY <1>3, <1>4 DEF Justified
  <2>3. QED
    BY <2>1, <2>2 DEF Covers
<1>7. QED
  BY <1>5, <1>6 DEF Justified

\* A check releases only what the approvals it reads cover.
LEMMA ReleasesCovered ==
  ASSUME NEW w, NEW f, Releases(w, f), LogIsSequence
  PROVE  \E k \in 1..Len(log) : Covers(k, w, f) /\ now < log[k].until
<1>1. PICK k \in Active(w, f.id) : log[k].print = Fingerprint(w, f)
  BY DEF Releases
<1>2. k \in 1..Len(log) /\ log[k].tool = "approval.granted"
  BY <1>1 DEF Active, Grants
<1>3. log[k].ws = w /\ log[k].id = f.id /\ log[k].until > now
  BY <1>1 DEF Active
<1>4. /\ log[k].print.root = w /\ log[k].print.file = f.file
      /\ log[k].print.rule = f.seen.rule /\ log[k].print.says = f.seen.says
  BY <1>1 DEF Fingerprint
<1>5. now < log[k].until
  BY <1>3
<1>6. QED
  BY <1>2, <1>3, <1>4, <1>5 DEF Covers

LEMMA IInvInit == Init => IInv
<1> SUFFICES ASSUME Init PROVE IInv
  OBVIOUS
<1>1. log \in Seq({}) /\ Len(log) = 0
  BY DEF Init
<1>2. Reviews = {}
  BY <1>1 DEF Reviews
<1>3. \A j \in Job : draft[j].tool = "none"
  BY DEF Init, Idle
<1>4. QED
  BY <1>1, <1>2, <1>3 DEF Init, IInv, LogIsSequence

\* A step that leaves the log alone has to justify only the draft it changes.
LEMMA DraftStep ==
  ASSUME IInv, log' = log, NEW j \in Job, NEW d, draft' = [draft EXCEPT ![j] = d],
         d.tool \in {"gate", "review_check"} => Justified(d)
  PROVE  IInv'
<1>1. LogIsSequence' /\ DOMAIN draft' = Job
  BY DEF IInv, LogIsSequence
<1>2. \A k \in Job : draft'[k] = IF k = j THEN d ELSE draft[k]
  BY DEF IInv
<1>3. ASSUME NEW k \in Job, draft'[k].tool \in {"gate", "review_check"}
      PROVE  Justified(draft[k])'
  <2>1. Justified(draft'[k])
    BY <1>2, <1>3 DEF IInv
  <2>2. QED
    BY <2>1 DEF Justified, Covers
<1>4. ASSUME NEW i \in Reviews' PROVE Justified(log[i])'
  <2>1. i \in Reviews
    BY DEF Reviews
  <2>2. QED
    BY <2>1 DEF IInv, Justified, Covers
<1>5. QED
  BY <1>1, <1>3, <1>4 DEF IInv

LEMMA IInvStep == IInv /\ [Next]_vars => IInv'
<1> SUFFICES ASSUME IInv, [Next]_vars PROVE IInv'
  OBVIOUS
<1>1. ASSUME NEW j \in Job, NEW w \in Workspace, NEW scan \in Scans, Scan(j, w, scan)
      PROVE  IInv'
  <2> DEFINE new == [tool |-> "scan", ws |-> w, findings |-> Findings(w, scan)]
  <2>1. draft' = [draft EXCEPT ![j] = new] /\ log' = log
    BY <1>1 DEF Scan
  <2>2. new.tool = "scan"
    OBVIOUS
  <2> HIDE DEF new
  <2>3. QED
    BY <2>1, <2>2, DraftStep
<1>2. ASSUME NEW j \in Job, Decide(j) PROVE IInv'
  <2> DEFINE d == draft[j]
             released == {f \in d.findings :
                            EffectOf(f.seen.rule) # "allow" /\ Releases(d.ws, f)}
             decision == Strongest({EffectOf(f.seen.rule) : f \in d.findings \ released})
             new == [tool |-> "gate", ws |-> d.ws, findings |-> d.findings,
                     released |-> released, decision |-> decision,
                     asOf |-> now, upTo |-> Len(log)]
  <2>1. draft' = [draft EXCEPT ![j] = new] /\ log' = log
    BY <1>2 DEF Decide
  <2>2. Justified(new)
    <3>1. Len(log) \in Nat
      BY DEF IInv, LogIsSequence
    <3>2. ASSUME NEW f \in released
          PROVE  \E k \in 1..Len(log) : Covers(k, d.ws, f) /\ now < log[k].until
      BY ReleasesCovered DEF IInv
    <3>3. /\ new.upTo = Len(log) /\ new.released = released
          /\ new.ws = d.ws /\ new.asOf = now
      OBVIOUS
    <3> HIDE DEF new, released, decision, d
    <3>4. QED
      BY <3>1, <3>2, <3>3 DEF Justified
  <2> HIDE DEF new
  <2>3. QED
    BY <2>1, <2>2, DraftStep
<1>3. ASSUME NEW j \in Job, TakePrints(j) PROVE IInv'
  <2> DEFINE d == draft[j]
             new == [tool |-> "review_check", ws |-> d.ws, findings |-> d.findings,
                     released |-> d.released, decision |-> d.decision, asOf |-> d.asOf,
                     upTo |-> d.upTo, prints |-> [f \in d.findings |-> Fingerprint(d.ws, f)]]
  <2>1. draft' = [draft EXCEPT ![j] = new] /\ log' = log /\ d.tool = "gate"
    BY <1>3 DEF TakePrints
  <2>2. Justified(d)
    BY <2>1 DEF IInv
  <2>3. /\ new.upTo = d.upTo /\ new.released = d.released
        /\ new.ws = d.ws /\ new.asOf = d.asOf
    OBVIOUS
  <2>4. Justified(new)
    BY <2>2, <2>3 DEF Justified
  <2> HIDE DEF new
  <2>5. QED
    BY <2>1, <2>4, DraftStep
<1>4. ASSUME NEW j \in Job, NEW w \in Workspace, NEW until, Cite(j, w, until) PROVE IInv'
  <2>1. PICK latest \in Reviews : \E g \in log[latest].findings :
          draft' = [draft EXCEPT ![j] =
            [tool |-> "approval.granted", ws |-> w, id |-> g.id,
             print |-> log[latest].prints[g], until |-> until]]
    BY <1>4 DEF Cite
  <2>2. PICK f \in log[latest].findings :
          draft' = [draft EXCEPT ![j] =
            [tool |-> "approval.granted", ws |-> w, id |-> f.id,
             print |-> log[latest].prints[f], until |-> until]]
    BY <2>1
  <2> DEFINE new == [tool |-> "approval.granted", ws |-> w, id |-> f.id,
                     print |-> log[latest].prints[f], until |-> until]
  <2>3. draft' = [draft EXCEPT ![j] = new] /\ log' = log /\ new.tool = "approval.granted"
    BY <1>4, <2>2 DEF Cite
  <2> HIDE DEF new
  <2>4. QED
    BY <2>3, DraftStep
<1>5. ASSUME NEW j \in Job, Record(j) PROVE IInv'
  <2> DEFINE d == draft[j]
  <2>1. /\ log' = Append(log, d)
        /\ draft' = [draft EXCEPT ![j] = Idle]
        /\ d.tool \in {"review_check", "approval.granted"}
    BY <1>5 DEF Record
  <2>2. PICK S : log \in Seq(S)
    BY DEF IInv, LogIsSequence
  <2>3. /\ log' \in Seq(S \cup {d}) /\ Len(log) \in Nat /\ Len(log') = Len(log) + 1
        /\ \A i \in 1..Len(log) : log'[i] = log[i]
        /\ log'[Len(log) + 1] = d
    <3>1. log \in Seq(S \cup {d}) /\ d \in S \cup {d}
      BY <2>2
    <3>2. QED
      BY <2>1, <3>1
  <2>4. ASSUME NEW k \in Job, draft'[k].tool \in {"gate", "review_check"}
        PROVE  Justified(draft[k])'
    <3>1. k # j /\ draft'[k] = draft[k]
      BY <2>1, <2>4 DEF IInv, Idle
    <3>2. Justified(draft[k])
      BY <2>4, <3>1 DEF IInv
    <3>3. PICK e : e = draft[k]
      OBVIOUS
    <3>4. Justified(e)'
      BY <2>1, <3>2, <3>3, JustifiedStays DEF IInv
    <3>5. QED
      BY <3>1, <3>3, <3>4 DEF Justified, Covers
  <2>5. ASSUME NEW i \in Reviews' PROVE Justified(log[i])'
    <3>1. PICK e : e = log'[i]
      OBVIOUS
    <3>2. Justified(e)
      <4>1. CASE i \in 1..Len(log)
        BY <2>3, <3>1, <4>1 DEF Reviews, IInv
      <4>2. CASE i = Len(log) + 1
        BY <2>3, <3>1, <4>2 DEF Reviews, IInv
      <4>3. QED
        BY <2>3, <4>1, <4>2 DEF Reviews
    <3>3. Justified(e)'
      BY <2>1, <3>2, JustifiedStays DEF IInv
    <3>4. QED
      BY <3>1, <3>3 DEF Justified, Covers
  <2>6. QED
    BY <2>1, <2>3, <2>4, <2>5 DEF IInv, LogIsSequence
<1>6. ASSUME NEW j \in Job, Abandon(j) PROVE IInv'
  <2>1. draft' = [draft EXCEPT ![j] = Idle] /\ log' = log
    BY <1>6 DEF Abandon
  <2>2. Idle.tool = "none"
    BY DEF Idle
  <2>3. QED
    BY <2>1, <2>2, DraftStep
<1>7. CASE UNCHANGED <<log, draft>>
  BY <1>7 DEF IInv, LogIsSequence, Reviews, Justified, Covers
<1>8. ASSUME NEW w \in Workspace, NEW f \in File, NEW c \in Content, Edit(w, f, c)
      PROVE  UNCHANGED <<log, draft>>
  BY <1>8 DEF Edit
<1>9. QED
  BY <1>1, <1>2, <1>3, <1>4, <1>5, <1>6, <1>7, <1>8 DEF Next, Tick, vars

-----------------------------------------------------------------------------
(* What entries and drafts say as long as no file changes under a check. *)

\* The fingerprint of a finding whose file, if it has one, is as the scan saw it.
Expected(w, f) ==
  [root |-> w, file |-> f.file, rule |-> f.seen.rule, level |-> f.seen.level, says |-> f.seen.says,
   evidence |-> IF f.file \in File THEN {f.seen} ELSE {}]

IsFinding(f) == f = [id |-> f.id, file |-> f.file, seen |-> f.seen]

\* The file of a finding, if it has one, is as the scan saw it.
Unchanged(w, f) == f.file \in File => content[w][f.file] = f.seen /\ f.seen # Gone

\* The approvals in force for a finding of a review whose gate is decided.
Standing(e, f) ==
  {k \in 1..e.upTo : /\ log[k].tool = "approval.granted" /\ e.asOf < log[k].until
                     /\ log[k].ws = e.ws /\ log[k].id = f.id}

EffectsLeft(e) == {EffectOf(f.seen.rule) : f \in e.findings \ e.released}

\* The gate: what is released is approved as it stands, what is not has no such
\* approval that is the last one, and the rest decides.
Decided(e) ==
  /\ e.upTo \in 0..Len(log)
  /\ e.decision = Strongest(EffectsLeft(e))
  /\ \A f \in e.released : \E k \in Standing(e, f) : log[k].print = Expected(e.ws, f)
  /\ \A f \in e.findings \ e.released : EffectOf(f.seen.rule) # "allow" =>
       \A k \in Standing(e, f) :
         log[k].print = Expected(e.ws, f) => \E m \in Standing(e, f) : m > k

\* The print of a grant is that of a finding of a review among the first n entries.
Cited(e, n) ==
  \E m \in Reviews : m <= n /\
    \E f \in log[m].findings : f.id = e.id /\ log[m].prints[f] = e.print

Sound(e) ==
  /\ e.tool \in {"scan", "gate", "review_check"} => \A f \in e.findings : IsFinding(f)
  /\ e.tool \in {"gate", "review_check"} => Decided(e)
  /\ e.tool = "review_check" => \A f \in e.findings : e.prints[f] = Expected(e.ws, f)

\* The files are as the scan of a running check saw them.
Undisturbed(e) ==
  e.tool \in {"scan", "gate"} => \A f \in e.findings : Unchanged(e.ws, f)

SteadyInv ==
  /\ \A j \in Job : Sound(draft[j]) /\ Undisturbed(draft[j])
  /\ \A j \in Job : draft[j].tool = "approval.granted" => Cited(draft[j], Len(log))
  /\ \A i \in 1..Len(log) : Sound(log[i])
  /\ \A i \in Grants : Cited(log[i], i - 1)

Shape == LogIsSequence /\ DOMAIN draft = Job
SInv == Shape /\ (steady => SteadyInv)

\* Ranks are comparable, so a set of effects has a strongest one.
LEMMA RankRange == \A x : Rank(x) \in {0, 1, 2, 3}
BY DEF Rank

LEMMA StrongestFails ==
  ASSUME NEW effects, NEW e \in effects, NEW failOn, Fails(e, failOn)
  PROVE  Fails(Strongest(effects), failOn)
<1>1. CASE \A d \in effects : Rank(d) = 0
  <2>1. Strongest(effects) = "allow" /\ Rank("allow") = 0 /\ Rank(e) = 0
    BY <1>1 DEF Strongest, Rank
  <2>2. QED
    BY <2>1 DEF Fails
<1>2. CASE ~ \A d \in effects : Rank(d) = 0
  <2>1. \E m \in effects : \A d \in effects : Rank(d) <= Rank(m)
    <3>1. CASE \E m \in effects : Rank(m) = 3
      BY <3>1, RankRange
    <3>2. CASE (\E m \in effects : Rank(m) = 2) /\ ~ \E m \in effects : Rank(m) = 3
      BY <3>2, RankRange
    <3>3. CASE ~ \E m \in effects : Rank(m) \in {2, 3}
      BY <1>2, <3>3, RankRange
    <3>4. QED
      BY <3>1, <3>2, <3>3
  <2>2. PICK m : m = Strongest(effects)
    OBVIOUS
  <2>3. \A d \in effects : Rank(d) <= Rank(m)
    BY <1>2, <2>1, <2>2 DEF Strongest
  <2>4. Rank(e) <= Rank(m) /\ Rank(e) >= Rank(failOn) /\ failOn # "off"
    BY <2>3 DEF Fails
  <2>5. Rank(m) >= Rank(failOn)
    BY <2>4, RankRange
  <2>6. QED
    BY <2>2, <2>4, <2>5 DEF Fails
<1>3. QED
  BY <1>1, <1>2

\* The log grows at its end.
LEMMA LogGrows ==
  ASSUME LogIsSequence, NEW x, log' = Append(log, x)
  PROVE  /\ LogIsSequence' /\ Len(log) \in Nat /\ Len(log') = Len(log) + 1
         /\ \A k \in 1..Len(log) : log'[k] = log[k]
         /\ log'[Len(log) + 1] = x
<1>1. PICK S : log \in Seq(S)
  BY DEF LogIsSequence
<1>2. log \in Seq(S \cup {x}) /\ x \in S \cup {x}
  BY <1>1
<1>3. QED
  BY <1>2 DEF LogIsSequence

\* What is sound, or cited, stays so when the log grows.
LEMMA SoundStays ==
  ASSUME LogIsSequence, NEW x, log' = Append(log, x), NEW e, Sound(e)
  PROVE  Sound(e)'
<1>1. /\ Len(log) \in Nat /\ Len(log') = Len(log) + 1
      /\ \A k \in 1..Len(log) : log'[k] = log[k]
  BY LogGrows
<1>2. ASSUME Decided(e) PROVE Decided(e)'
  <2>1. e.upTo \in 0..Len(log)
    BY <1>2 DEF Decided
  <2>2. \A k \in 1..e.upTo : log'[k] = log[k]
    BY <1>1, <2>1
  <2>3. \A f : Standing(e, f)' = Standing(e, f)
    BY <2>2 DEF Standing
  <2>4. \A f : \A k \in Standing(e, f) : log'[k].print = log[k].print
    BY <2>2 DEF Standing
  <2>5. e.upTo \in 0..Len(log')
    BY <1>1, <2>1
  <2>6. \A f \in e.released : \E k \in Standing(e, f)' : log'[k].print = Expected(e.ws, f)
    BY <1>2, <2>3, <2>4 DEF Decided
  <2>7. \A f \in e.findings \ e.released : EffectOf(f.seen.rule) # "allow" =>
          \A k \in Standing(e, f)' :
            log'[k].print = Expected(e.ws, f) => \E m \in Standing(e, f)' : m > k
    BY <1>2, <2>3, <2>4 DEF Decided
  <2>8. QED
    BY <1>2, <2>5, <2>6, <2>7 DEF Decided, EffectsLeft
<1>3. QED
  BY <1>2 DEF Sound

LEMMA CitedStays ==
  ASSUME LogIsSequence, NEW x, log' = Append(log, x), NEW e, NEW n, Cited(e, n)
  PROVE  Cited(e, n)'
<1>1. PICK m \in Reviews :
        m <= n /\ \E f \in log[m].findings : f.id = e.id /\ log[m].prints[f] = e.print
  BY DEF Cited
<1>2. m \in Reviews' /\ log'[m] = log[m]
  BY LogGrows DEF Reviews
<1>3. QED
  BY <1>1, <1>2 DEF Cited

LEMMA SInvInit == Init => SInv
<1> SUFFICES ASSUME Init PROVE SInv
  OBVIOUS
<1>1. LogIsSequence /\ DOMAIN draft = Job /\ Len(log) = 0
  BY IInvInit DEF IInv, Init
<1>2. \A j \in Job : draft[j].tool = "none"
  BY DEF Init, Idle
<1>3. \A j \in Job : Sound(draft[j]) /\ Undisturbed(draft[j])
  BY <1>2 DEF Sound, Undisturbed
<1>4. 1..Len(log) = {} /\ Grants = {}
  BY <1>1 DEF Grants
<1>5. QED
  BY <1>1, <1>2, <1>3, <1>4 DEF SInv, SteadyInv, Shape

\* A step that leaves log and files alone has to answer only for the draft it changes.
LEMMA SoundDraftStep ==
  ASSUME SInv, UNCHANGED <<log, content, steady>>, NEW j \in Job, NEW d,
         draft' = [draft EXCEPT ![j] = d],
         steady => /\ Sound(d) /\ Undisturbed(d)
                   /\ d.tool = "approval.granted" => Cited(d, Len(log))
  PROVE  SInv'
<1>1. Shape'
  BY DEF SInv, Shape, LogIsSequence
<1> SUFFICES ASSUME steady PROVE SteadyInv'
  BY <1>1 DEF SInv
<1>2. \A k \in Job : draft'[k] = IF k = j THEN d ELSE draft[k]
  BY DEF SInv, Shape
<1>3. \A e : Sound(e)' <=> Sound(e)
  BY DEF Sound, Decided, Standing, EffectsLeft
<1>4. \A e, n : Cited(e, n)' <=> Cited(e, n)
  BY DEF Cited, Reviews
<1>5. \A e : Undisturbed(e)' <=> Undisturbed(e)
  BY DEF Undisturbed, Unchanged
<1>6. ASSUME NEW k \in Job
      PROVE  /\ Sound(draft[k])' /\ Undisturbed(draft[k])'
             /\ draft'[k].tool = "approval.granted" => Cited(draft[k], Len(log))'
  <2>1. PICK e : e = draft'[k]
    OBVIOUS
  <2>2. /\ Sound(e) /\ Undisturbed(e)
        /\ e.tool = "approval.granted" => Cited(e, Len(log))
    BY <1>2, <2>1 DEF SInv, SteadyInv
  <2>3. /\ Sound(e)' /\ Undisturbed(e)'
        /\ e.tool = "approval.granted" => Cited(e, Len(log))'
    BY <1>3, <1>4, <1>5, <2>2 DEF Cited, Reviews
  <2>4. QED
    BY <2>1, <2>3 DEF Sound, Decided, Standing, EffectsLeft, Cited, Undisturbed
<1>7. \A i \in 1..Len(log) : Sound(log[i])'
  <2> SUFFICES ASSUME NEW i \in 1..Len(log) PROVE Sound(log[i])'
    OBVIOUS
  <2>1. PICK e : e = log[i]
    OBVIOUS
  <2>2. Sound(e)'
    BY <1>3, <2>1 DEF SInv, SteadyInv
  <2>3. QED
    BY <2>1, <2>2 DEF Sound, Decided, Standing, EffectsLeft
<1>8. \A i \in Grants : Cited(log[i], i - 1)'
  BY DEF SInv, SteadyInv, Cited, Reviews
<1>9. QED
  BY <1>6, <1>7, <1>8 DEF SteadyInv, Grants

\* A scan describes the files as they are.
LEMMA ScanSound ==
  ASSUME NEW w, NEW scan, NEW f \in Findings(w, scan)
  PROVE  IsFinding(f) /\ Unchanged(w, f)
<1> DEFINE found == {<<Whole, g>> : g \in scan.grown} \cup
                    {<<g, content[w][g]>> : g \in {h \in scan.files : content[w][h] \in Risky}}
<1>1. PICK x \in found : \E n : f = [id |-> n, file |-> x[1], seen |-> x[2]]
  BY DEF Findings
<1>2. f.file = x[1] /\ f.seen = x[2]
  BY <1>1
<1>3. IsFinding(f)
  BY <1>1, <1>2 DEF IsFinding
<1>4. CASE \E g : x = <<Whole, g>>
  <2>1. f.file \notin File
    BY <1>2, <1>4, ContentAssumption DEF File, Whole
  <2>2. QED
    BY <1>3, <2>1 DEF Unchanged
<1>5. CASE \E g : x = <<g, content[w][g]>> /\ content[w][g] \in Risky
  BY <1>2, <1>3, <1>5, ContentAssumption DEF Unchanged, Risky
<1>6. QED
  BY <1>1, <1>4, <1>5

LEMMA PrintExpected ==
  ASSUME NEW w, NEW f, Unchanged(w, f)
  PROVE  Fingerprint(w, f) = Expected(w, f)
<1>1. Evidence(w, f.file) = IF f.file \in File THEN {f.seen} ELSE {}
  BY DEF Evidence, Unchanged
<1>2. QED
  BY <1>1 DEF Fingerprint, Expected

\* Deciding over a scan that nothing disturbed.
LEMMA DecideSound ==
  ASSUME LogIsSequence, NEW d, \A f \in d.findings : Unchanged(d.ws, f),
         NEW e, e.upTo = Len(log), e.asOf = now, e.ws = d.ws, e.findings = d.findings,
         e.released = {f \in d.findings :
                         EffectOf(f.seen.rule) # "allow" /\ Releases(d.ws, f)},
         e.decision = Strongest(EffectsLeft(e))
  PROVE  Decided(e)
<1>1. Len(log) \in Nat
  BY DEF LogIsSequence
<1>2. \A f : Standing(e, f) = Active(d.ws, f.id)
  <2>1. \A k : log[k].until > now <=> now < log[k].until
    OBVIOUS
  <2>2. QED
    BY <2>1 DEF Standing, Active, Grants
<1>3. \A f \in d.findings : Fingerprint(d.ws, f) = Expected(d.ws, f)
  BY PrintExpected
<1>4. ASSUME NEW f \in e.released
      PROVE  \E k \in Standing(e, f) : log[k].print = Expected(e.ws, f)
  BY <1>2, <1>3 DEF Releases
<1>5. ASSUME NEW f \in e.findings \ e.released, EffectOf(f.seen.rule) # "allow",
             NEW k \in Standing(e, f), log[k].print = Expected(e.ws, f)
      PROVE  \E m \in Standing(e, f) : m > k
  <2>1. ~ Releases(d.ws, f)
    BY <1>5
  <2>2. PICK m \in Active(d.ws, f.id) : ~(m <= k)
    BY <1>2, <1>3, <1>5, <2>1 DEF Releases
  <2>3. m \in 1..Len(log) /\ k \in 1..Len(log)
    BY <1>2, <1>5, <2>2 DEF Active, Grants
  <2>4. m > k
    BY <1>1, <2>2, <2>3
  <2>5. QED
    BY <1>2, <2>2, <2>4
<1>6. QED
  BY <1>1, <1>4, <1>5 DEF Decided

LEMMA SInvStep == SInv /\ [Next]_vars => SInv'
<1> SUFFICES ASSUME SInv, [Next]_vars PROVE SInv'
  OBVIOUS
<1>1. ASSUME NEW j \in Job, NEW w \in Workspace, NEW scan \in Scans, Scan(j, w, scan)
      PROVE  SInv'
  <2> DEFINE new == [tool |-> "scan", ws |-> w, findings |-> Findings(w, scan)]
  <2>1. draft' = [draft EXCEPT ![j] = new] /\ UNCHANGED <<log, content, steady>>
    BY <1>1 DEF Scan
  <2>2. new.tool = "scan" /\ new.ws = w /\ new.findings = Findings(w, scan)
    OBVIOUS
  <2> HIDE DEF new
  <2>3. Sound(new) /\ Undisturbed(new)
    BY <2>2, ScanSound DEF Sound, Undisturbed
  <2>4. QED
    BY <2>1, <2>2, <2>3, SoundDraftStep
<1>2. ASSUME NEW j \in Job, Decide(j) PROVE SInv'
  <2>1. PICK d : d = draft[j]
    OBVIOUS
  <2> DEFINE released == {f \in d.findings :
                            EffectOf(f.seen.rule) # "allow" /\ Releases(d.ws, f)}
             decision == Strongest({EffectOf(f.seen.rule) : f \in d.findings \ released})
             new == [tool |-> "gate", ws |-> d.ws, findings |-> d.findings,
                     released |-> released, decision |-> decision,
                     asOf |-> now, upTo |-> Len(log)]
  <2>2. /\ draft' = [draft EXCEPT ![j] = new] /\ UNCHANGED <<log, content, steady>>
        /\ d.tool = "scan"
    BY <1>2, <2>1 DEF Decide
  <2>3. /\ new.tool = "gate" /\ new.ws = d.ws /\ new.findings = d.findings
        /\ new.released = released /\ new.asOf = now /\ new.upTo = Len(log)
        /\ new.decision = Strongest(EffectsLeft(new))
    BY DEF EffectsLeft
  <2> HIDE DEF new
  <2>4. steady => Sound(new) /\ Undisturbed(new)
    <3> SUFFICES ASSUME steady PROVE Sound(new) /\ Undisturbed(new)
      OBVIOUS
    <3>1. /\ \A f \in d.findings : IsFinding(f)
          /\ \A f \in d.findings : Unchanged(d.ws, f)
      BY <2>1, <2>2 DEF SInv, SteadyInv, Sound, Undisturbed
    <3>2. Decided(new)
      BY <2>3, <3>1, DecideSound DEF SInv, Shape
    <3>3. QED
      BY <2>3, <3>1, <3>2 DEF Sound, Undisturbed
  <2>5. QED
    BY <2>2, <2>3, <2>4, SoundDraftStep
<1>3. ASSUME NEW j \in Job, TakePrints(j) PROVE SInv'
  <2>1. PICK d : d = draft[j]
    OBVIOUS
  <2> DEFINE new == [tool |-> "review_check", ws |-> d.ws, findings |-> d.findings,
                     released |-> d.released, decision |-> d.decision, asOf |-> d.asOf,
                     upTo |-> d.upTo, prints |-> [f \in d.findings |-> Fingerprint(d.ws, f)]]
  <2>2. /\ draft' = [draft EXCEPT ![j] = new] /\ UNCHANGED <<log, content, steady>>
        /\ d.tool = "gate"
    BY <1>3, <2>1 DEF TakePrints
  <2>3. /\ new.tool = "review_check" /\ new.ws = d.ws /\ new.findings = d.findings
        /\ new.released = d.released /\ new.asOf = d.asOf /\ new.upTo = d.upTo
        /\ new.decision = d.decision
        /\ \A f \in d.findings : new.prints[f] = Fingerprint(d.ws, f)
    OBVIOUS
  <2> HIDE DEF new
  <2>4. steady => Sound(new) /\ Undisturbed(new)
    <3> SUFFICES ASSUME steady PROVE Sound(new) /\ Undisturbed(new)
      OBVIOUS
    <3>1. /\ \A f \in d.findings : IsFinding(f)
          /\ \A f \in d.findings : Unchanged(d.ws, f)
          /\ Decided(d)
      BY <2>1, <2>2 DEF SInv, SteadyInv, Sound, Undisturbed
    <3>2. \A f : Standing(new, f) = Standing(d, f)
      BY <2>3 DEF Standing
    <3>3. EffectsLeft(new) = EffectsLeft(d)
      BY <2>3 DEF EffectsLeft
    <3>4. Decided(new)
      BY <2>3, <3>1, <3>2, <3>3 DEF Decided
    <3>5. \A f \in new.findings : new.prints[f] = Expected(new.ws, f)
      BY <2>3, <3>1, PrintExpected
    <3>6. QED
      BY <2>3, <3>1, <3>4, <3>5 DEF Sound, Undisturbed
  <2>5. QED
    BY <2>2, <2>3, <2>4, SoundDraftStep
<1>4. ASSUME NEW j \in Job, NEW w \in Workspace, NEW until, Cite(j, w, until) PROVE SInv'
  <2>1. PICK latest \in Reviews : \E g \in log[latest].findings :
          draft' = [draft EXCEPT ![j] =
            [tool |-> "approval.granted", ws |-> w, id |-> g.id,
             print |-> log[latest].prints[g], until |-> until]]
    BY <1>4 DEF Cite
  <2>2. PICK f \in log[latest].findings :
          draft' = [draft EXCEPT ![j] =
            [tool |-> "approval.granted", ws |-> w, id |-> f.id,
             print |-> log[latest].prints[f], until |-> until]]
    BY <2>1
  <2> DEFINE new == [tool |-> "approval.granted", ws |-> w, id |-> f.id,
                     print |-> log[latest].prints[f], until |-> until]
  <2>3. /\ draft' = [draft EXCEPT ![j] = new] /\ UNCHANGED <<log, content, steady>>
        /\ new.tool = "approval.granted" /\ new.id = f.id
        /\ new.print = log[latest].prints[f]
    BY <1>4, <2>2 DEF Cite
  <2> HIDE DEF new
  <2>4. Sound(new) /\ Undisturbed(new)
    BY <2>3 DEF Sound, Undisturbed
  <2>5. Cited(new, Len(log))
    <3>1. latest <= Len(log)
      BY DEF Reviews, SInv, Shape, LogIsSequence
    <3>2. QED
      BY <2>3, <3>1 DEF Cited
  <2>6. QED
    BY <2>3, <2>4, <2>5, SoundDraftStep
<1>5. ASSUME NEW j \in Job, Record(j) PROVE SInv'
  <2>1. PICK d : d = draft[j]
    OBVIOUS
  <2>2. /\ log' = Append(log, d) /\ UNCHANGED <<content, steady>>
        /\ draft' = [draft EXCEPT ![j] = Idle]
        /\ d.tool \in {"review_check", "approval.granted"}
    BY <1>5, <2>1 DEF Record
  <2>3. LogIsSequence /\ DOMAIN draft = Job
    BY DEF SInv, Shape
  <2>4. /\ LogIsSequence' /\ Len(log) \in Nat /\ Len(log') = Len(log) + 1
        /\ \A k \in 1..Len(log) : log'[k] = log[k]
        /\ log'[Len(log) + 1] = d
    BY <2>2, <2>3, LogGrows
  <2>5. Shape'
    BY <2>2, <2>3, <2>4 DEF Shape
  <2> SUFFICES ASSUME steady PROVE SteadyInv'
    BY <2>2, <2>5 DEF SInv
  <2>6. SteadyInv
    BY DEF SInv
  <2>7. ASSUME NEW k \in Job
        PROVE  /\ Sound(draft[k])' /\ Undisturbed(draft[k])'
               /\ draft'[k].tool = "approval.granted" => Cited(draft[k], Len(log))'
    <3>1. PICK e : e = draft'[k]
      OBVIOUS
    <3>2. CASE k = j
      <4>1. e = Idle /\ e.tool = "none"
        BY <2>2, <2>3, <3>1, <3>2 DEF Idle
      <4>2. QED
        BY <3>1, <4>1 DEF Sound, Undisturbed
    <3>3. CASE k # j
      <4>1. e = draft[k]
        BY <2>2, <2>3, <3>1, <3>3
      <4>2. /\ Sound(e) /\ Undisturbed(e)
            /\ e.tool = "approval.granted" => Cited(e, Len(log))
        BY <2>6, <4>1 DEF SteadyInv
      <4>3. Sound(e)'
        BY <2>2, <2>3, <4>2, SoundStays
      <4>4. Undisturbed(e)'
        BY <2>2, <4>2 DEF Undisturbed, Unchanged
      <4>5. ASSUME e.tool = "approval.granted" PROVE Cited(e, Len(log))'
        <5>1. PICK n : n = Len(log)
          OBVIOUS
        <5>2. Cited(e, n)'
          BY <2>2, <2>3, <4>2, <4>5, <5>1, CitedStays
        <5>3. QED
          BY <2>4, <5>1, <5>2 DEF Cited, Reviews
      <4>6. QED
        BY <3>1, <4>3, <4>4, <4>5 DEF Sound, Decided, Standing, EffectsLeft, Cited, Undisturbed
    <3>4. QED
      BY <3>2, <3>3
  <2>8. ASSUME NEW i \in 1..Len(log') PROVE Sound(log[i])'
    <3>1. PICK e : e = log'[i]
      OBVIOUS
    <3>2. Sound(e)
      <4>1. CASE i \in 1..Len(log)
        BY <2>4, <2>6, <3>1, <4>1 DEF SteadyInv
      <4>2. CASE i = Len(log) + 1
        BY <2>1, <2>4, <2>6, <3>1, <4>2 DEF SteadyInv
      <4>3. QED
        BY <2>4, <4>1, <4>2
    <3>3. Sound(e)'
      BY <2>2, <2>3, <3>2, SoundStays
    <3>4. QED
      BY <3>1, <3>3 DEF Sound, Decided, Standing, EffectsLeft
  <2>9. ASSUME NEW i \in Grants' PROVE Cited(log[i], i - 1)'
    <3>1. PICK e : e = log'[i]
      OBVIOUS
    <3>2. Cited(e, i - 1)
      <4>1. CASE i \in 1..Len(log)
        BY <2>4, <2>6, <3>1, <4>1 DEF SteadyInv, Grants
      <4>2. CASE i = Len(log) + 1
        <5>1. i - 1 = Len(log) /\ e = d /\ d.tool = "approval.granted"
          BY <2>4, <3>1, <4>2 DEF Grants
        <5>2. QED
          BY <2>1, <2>6, <5>1 DEF SteadyInv
      <4>3. QED
        BY <2>4, <4>1, <4>2 DEF Grants
    <3>3. Cited(e, i - 1)'
      BY <2>2, <2>3, <3>2, CitedStays
    <3>4. QED
      BY <3>1, <3>3 DEF Cited
  <2>10. QED
    BY <2>7, <2>8, <2>9 DEF SteadyInv
<1>6. ASSUME NEW j \in Job, Abandon(j) PROVE SInv'
  <2>1. draft' = [draft EXCEPT ![j] = Idle] /\ UNCHANGED <<log, content, steady>>
    BY <1>6 DEF Abandon
  <2>2. Idle.tool = "none"
    BY DEF Idle
  <2>3. Sound(Idle) /\ Undisturbed(Idle)
    BY <2>2 DEF Sound, Undisturbed
  <2>4. QED
    BY <2>1, <2>2, <2>3, SoundDraftStep
<1>7. ASSUME UNCHANGED <<log, draft>>,
             steady' => steady /\ (content' = content \/
                                   \A j \in Job : draft[j].tool \notin {"scan", "gate"})
      PROVE  SInv'
  <2>1. Shape'
    BY <1>7 DEF SInv, Shape, LogIsSequence
  <2> SUFFICES ASSUME steady' PROVE SteadyInv'
    BY <2>1 DEF SInv
  <2>2. SteadyInv
    BY <1>7 DEF SInv
  <2>3. \A e : Sound(e)' <=> Sound(e)
    BY <1>7 DEF Sound, Decided, Standing, EffectsLeft
  <2>4. ASSUME NEW j \in Job PROVE Sound(draft[j])'
    <3>1. PICK e : e = draft[j]
      OBVIOUS
    <3>2. Sound(e)'
      BY <2>2, <2>3, <3>1 DEF SteadyInv
    <3>3. QED
      BY <1>7, <3>1, <3>2 DEF Sound, Decided, Standing, EffectsLeft
  <2>5. ASSUME NEW i \in 1..Len(log) PROVE Sound(log[i])'
    <3>1. PICK e : e = log[i]
      OBVIOUS
    <3>2. Sound(e)'
      BY <2>2, <2>3, <3>1 DEF SteadyInv
    <3>3. QED
      BY <1>7, <3>1, <3>2 DEF Sound, Decided, Standing, EffectsLeft
  <2>6. \A j \in Job : Undisturbed(draft[j])'
    BY <1>7, <2>2 DEF SteadyInv, Undisturbed, Unchanged
  <2>7. /\ \A j \in Job : draft[j].tool = "approval.granted" => Cited(draft[j], Len(log))'
        /\ \A i \in Grants : Cited(log[i], i - 1)'
    BY <1>7, <2>2 DEF SteadyInv, Cited, Reviews
  <2>8. QED
    BY <1>7, <2>4, <2>5, <2>6, <2>7 DEF SteadyInv, Grants
<1>8. ASSUME NEW w \in Workspace, NEW f \in File, NEW c \in Content, Edit(w, f, c)
      PROVE  SInv'
  BY <1>7, <1>8 DEF Edit
<1>9. CASE Tick
  BY <1>7, <1>9 DEF Tick
<1>10. CASE UNCHANGED vars
  BY <1>7, <1>10 DEF vars
<1>11. QED
  BY <1>1, <1>2, <1>3, <1>4, <1>5, <1>6, <1>8, <1>9, <1>10 DEF Next

\* The grants in force that a property names are those a decision is sound about.
LEMMA InForceIs ==
  ASSUME SInv, NEW i \in Reviews, Decided(log[i]), NEW f
  PROVE  InForce(i, f) = Standing(log[i], f)
BY DEF InForce, Standing, Grants, Decided, SInv, Shape, LogIsSequence

-----------------------------------------------------------------------------
\* Whatever is edited, recorded or abandoned meanwhile, a check releases a finding
\* only if its workspace had an unexpired approval under the finding's id for the
\* same file, rule and words when the gate was decided.
THEOREM ReleasesAreApproved == Spec => []ReleaseIsApproved
<1>1. IInv => ReleaseIsApproved
  <2> SUFFICES ASSUME IInv, NEW i \in Reviews, NEW f \in log[i].released
               PROVE  \E k \in InForce(i, f) :
                        /\ log[k].print.root = log[i].ws
                        /\ log[k].print.file = f.file
                        /\ log[k].print.rule = f.seen.rule
                        /\ log[k].print.says = f.seen.says
    BY DEF ReleaseIsApproved
  <2>1. Justified(log[i]) /\ Len(log) \in Nat
    BY DEF IInv, LogIsSequence
  <2>2. PICK k \in 1..log[i].upTo :
          Covers(k, log[i].ws, f) /\ log[i].asOf < log[k].until
    BY <2>1 DEF Justified
  <2>3. k \in Grants /\ k <= log[i].upTo
    BY <2>1, <2>2 DEF Justified, Covers, Grants
  <2>4. k \in InForce(i, f)
    BY <2>2, <2>3 DEF InForce, Covers
  <2>5. QED
    BY <2>2, <2>4 DEF Covers
<1>2. QED
  BY <1>1, IInvInit, IInvStep, PTL DEF Spec

\* As long as no file changes under a check, every unexpired approval of a finding that
\* stands as it was approved releases it, unless a later approval under its id took over:
\* for any number of workspaces, commands, approvals and edits.
THEOREM ApprovalsHonoured == Spec => []ApprovalHonoured
<1>1. SInv => ApprovalHonoured
  <2> SUFFICES ASSUME SInv, steady, NEW i \in Reviews,
                      NEW f \in log[i].findings \ log[i].released,
                      EffectOf(f.seen.rule) # "allow",
                      NEW k \in InForce(i, f), log[k].print = log[i].prints[f]
               PROVE  \E m \in InForce(i, f) : m > k
    BY DEF ApprovalHonoured
  <2>1. Sound(log[i]) /\ log[i].tool = "review_check"
    BY DEF SInv, SteadyInv, Reviews
  <2>2. Decided(log[i]) /\ log[i].prints[f] = Expected(log[i].ws, f)
    BY <2>1 DEF Sound
  <2>3. InForce(i, f) = Standing(log[i], f)
    BY <2>2, InForceIs
  <2>4. QED
    BY <2>2, <2>3 DEF Decided
<1>2. QED
  BY <1>1, SInvInit, SInvStep, PTL DEF Spec

\* As long as no file changes under a check, a command that exits with 0 although one of
\* its findings reaches the threshold does so because this finding was reviewed in this
\* workspace, then approved, and the approval had not expired: a finding of a file with
\* these very contents, growth of the whole graph in these words, whatever it was that
\* grew (finding_evidence_hash, cli.rs:2345, has no evidence for it).
THEOREM PassIsReviewed == Spec => []SteadyPassMeansReviewed
<1>1. SInv => SteadyPassMeansReviewed
  <2> SUFFICES ASSUME SInv, steady, NEW i \in Reviews, NEW failOn,
                      ~Fails(log[i].decision, failOn),
                      NEW f \in log[i].findings, Fails(EffectOf(f.seen.rule), failOn)
               PROVE  \E k \in InForce(i, f) : ReviewedBefore(k, i, f)
    BY DEF SteadyPassMeansReviewed, PassMeansReviewed
  <2>1. SteadyInv /\ Len(log) \in Nat
    BY DEF SInv, Shape, LogIsSequence
  <2>2. \A m \in Reviews : Sound(log[m]) /\ log[m].tool = "review_check"
    BY <2>1 DEF SteadyInv, Reviews
  <2>3. Decided(log[i]) /\ IsFinding(f)
    BY <2>2 DEF Sound
  <2>4. f \in log[i].released
    <3> SUFFICES ASSUME f \notin log[i].released PROVE FALSE
      OBVIOUS
    <3>1. EffectOf(f.seen.rule) \in EffectsLeft(log[i])
      BY DEF EffectsLeft
    <3>2. Fails(Strongest(EffectsLeft(log[i])), failOn)
      BY <3>1, StrongestFails
    <3>3. QED
      BY <2>3, <3>2 DEF Decided
  <2>5. PICK k \in Standing(log[i], f) : log[k].print = Expected(log[i].ws, f)
    BY <2>3, <2>4 DEF Decided
  <2>6. k \in InForce(i, f)
    BY <2>3, <2>5, InForceIs
  <2>7. k \in Grants /\ log[k].id = f.id
    BY <2>6 DEF InForce
  <2>8. PICK m \in Reviews : m <= k - 1 /\
          \E g \in log[m].findings : g.id = log[k].id /\ log[m].prints[g] = log[k].print
    BY <2>1, <2>7 DEF SteadyInv, Cited
  <2>9. PICK g \in log[m].findings : g.id = log[k].id /\ log[m].prints[g] = log[k].print
    BY <2>8
  <2>10. IsFinding(g) /\ Expected(log[m].ws, g) = Expected(log[i].ws, f)
    BY <2>2, <2>5, <2>9 DEF Sound
  <2>11. /\ log[m].ws = log[i].ws /\ g.file = f.file
         /\ g.seen.rule = f.seen.rule /\ g.seen.says = f.seen.says
    BY <2>10 DEF Expected
  <2>12. f.file \in File => g.seen = f.seen
    <3> SUFFICES ASSUME f.file \in File PROVE g.seen = f.seen
      OBVIOUS
    <3>1. {g.seen} = {f.seen}
      BY <2>10, <2>11 DEF Expected
    <3>2. QED
      BY <3>1
  <2>13. m < k
    BY <2>7, <2>8 DEF Grants, Reviews
  <2>14. ReviewedBefore(k, i, f)
    BY <2>7, <2>9, <2>11, <2>12, <2>13 DEF ReviewedBefore
  <2>15. QED
    BY <2>6, <2>14
<1>2. QED
  BY <1>1, SInvInit, SInvStep, PTL DEF Spec
=============================================================================
