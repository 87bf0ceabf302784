---------------------------- MODULE AuditLog_proofs ----------------------------
(***************************************************************************)
(* Proofs about AuditLog and AuditEdits, for any number of processes, any  *)
(* contents, any history and any way a write may be interrupted.           *)
(*                                                                         *)
(* The chain is unbroken because a record is chained to the last line of   *)
(* the log while the lock is held, and nobody else writes until it has     *)
(* been written. The inductive invariant says so: the holder of the lock   *)
(* is the only process past lock(), and what it is about to write (or has  *)
(* half written) still follows the line it read.                           *)
(*                                                                         *)
(* The log implements AuditTrail: a write that finishes a record adds its  *)
(* one entry, and every other step leaves the complete lines as they are.  *)
(*                                                                         *)
(* When others edit the log, its lines still carry hashes that the program *)
(* computed, each from the hash of a record that it had written before;    *)
(* the verifier recomputes them, so a line it accepts is the one written,  *)
(* and the line above it the one written before.                           *)
(***************************************************************************)
EXTENDS AuditEdits, SequenceTheorems, WellFoundedInduction, TLAPS

\* The digest an append derives from the first m lines.
DigestAt(lines, m) ==
  IF m = 0 THEN NoDigest
  ELSE IF lines[m].kind = "record" THEN lines[m].hash ELSE RawHash(lines[m])

CleanTo(lines, m) == \A i \in 1..m : ~IsTorn(lines[i])

Critical == {"reading", "writing", "partial", "closing"}

OneHolder == \A p \in Proc : pc[p] \in Critical => lock = p

PreparedFollowsTail ==
  \A p \in Proc : pc[p] = "writing" =>
    /\ CleanTo(file, Len(file))
    /\ onto[p] = open
    /\ \E t \in Text : rec[p] = Record(t, DigestAt(file, Len(file)))

HalfWritten ==
  \A p \in Proc : pc[p] = "partial" =>
    /\ file # << >>
    /\ CleanTo(file, Len(file) - 1)
    /\ onto[p] => IsTorn(file[Len(file)])
    /\ ~onto[p] => \E t \in Text : rec[p] = Record(t, DigestAt(file, Len(file) - 1))

OpenHasLine == open => file # << >>

IInv ==
  /\ TypeOK /\ OneHolder /\ OpenHasLine
  /\ PreparedFollowsTail /\ HalfWritten
  /\ DamageOnlyAtEnd /\ ChainUnbroken

-----------------------------------------------------------------------------
(* Lines and chains *)

\* A record is a line, and so are the two kinds of unhashed lines.
LEMMA LineTypes ==
  ASSUME NEW t \in Text, NEW prev \in Digest
  PROVE  /\ Record(t, prev) \in Line
         /\ TornLine(t) \in Line
         /\ LegacyLine(t) \in Line
<1>1. NoDigest \in Digest
  BY DEF NoDigest, Digest
<1>2. EntryHash(t, prev) \in Digest
  BY DEF EntryHash, Digest
<1>3. QED
  BY <1>1, <1>2 DEF Record, TornLine, LegacyLine, Line

\* So is a line cut off or run together, whatever it holds.
LEMMA TornType ==
  ASSUME NEW t \in Text
  PROVE  TornLine(t) \in Line
<1>1. NoDigest \in Digest
  BY DEF NoDigest, Digest
<1>2. QED
  BY <1>1, LineTypes

\* The digest derived from a prefix of the log is a digest.
LEMMA DigestType ==
  ASSUME NEW lines \in Seq(Line), NEW m \in 0..Len(lines)
  PROVE  DigestAt(lines, m) \in Digest
<1>1. CASE m = 0
  BY <1>1 DEF DigestAt, NoDigest, Digest
<1>2. CASE m # 0
  <2>1. lines[m] \in Line
    BY <1>2
  <2>2. lines[m].hash \in Digest /\ lines[m].text \in Text
    BY <2>1 DEF Line
  <2>3. RawHash(lines[m]) \in Digest
    BY <2>2 DEF RawHash, Digest
  <2>4. QED
    BY <1>2, <2>2, <2>3 DEF DigestAt
<1>3. QED
  BY <1>1, <1>2

\* The digest an append takes from the log is the one of its whole length.
LEMMA TailDigestIs ==
  ASSUME NEW lines \in Seq(Line)
  PROVE  TailDigest(lines) = DigestAt(lines, Len(lines))
BY DEF TailDigest, DigestAt

\* The heart of the argument: a log that keeps the first m lines of a good chain
\* and has one line more is a good chain, when that line is no record, or is a
\* record chained to line m.
LEMMA ChainExtends ==
  ASSUME NEW lines \in Seq(Line), NEW new \in Seq(Line), NEW m \in 0..Len(lines),
         ChainHolds(lines),
         Len(new) = m + 1,
         \A i \in 1..m : new[i] = lines[i],
         \/ new[m + 1].kind # "record"
         \/ \E t \in Text : new[m + 1] = Record(t, DigestAt(lines, m))
  PROVE  ChainHolds(new)
<1> SUFFICES ASSUME NEW i \in 1..(m + 1), new[i].kind = "record"
             PROVE  HashMatches(new[i]) /\ FollowsChain(new, i)
  BY DEF ChainHolds
<1>1. CASE i \in 1..m
  <2>1. new[i] = lines[i] /\ i \in 1..Len(lines)
    BY <1>1
  <2>2. HashMatches(lines[i]) /\ FollowsChain(lines, i)
    BY <2>1 DEF ChainHolds
  <2>3. \A j \in 1..(i - 1) : new[j] = lines[j]
    BY <1>1
  <2>4. {j \in 1..(i - 1) : new[j].kind = "record"}
          = {j \in 1..(i - 1) : lines[j].kind = "record"}
    BY <2>3
  <2>5. FollowsChain(new, i)
    <3> DEFINE before(s) == {j \in 1..(i - 1) : s[j].kind = "record"}
    <3>1. CASE before(lines) = {} /\ lines[i].prev = NoDigest
      BY <2>1, <2>4, <3>1 DEF FollowsChain
    <3>2. CASE \E j \in before(lines) : /\ \A k \in before(lines) : k <= j
                                       /\ lines[i].prev = lines[j].hash
      <4>1. PICK j \in before(lines) : /\ \A k \in before(lines) : k <= j
                                       /\ lines[i].prev = lines[j].hash
        BY <3>2
      <4>2. j \in before(new) /\ new[i].prev = new[j].hash
        BY <2>1, <2>3, <2>4, <4>1
      <4>3. \A k \in before(new) : k <= j
        BY <2>4, <4>1
      <4>4. QED
        BY <4>2, <4>3 DEF FollowsChain
    <3>3. CASE i > 1 /\ lines[i - 1].kind # "record" /\ lines[i].prev = RawHash(lines[i - 1])
      <4>1. new[i - 1] = lines[i - 1]
        BY <1>1, <2>3, <3>3
      <4>2. QED
        BY <2>1, <3>3, <4>1 DEF FollowsChain
    <3>4. QED
      BY <2>2, <3>1, <3>2, <3>3 DEF FollowsChain
  <2>6. QED
    BY <2>1, <2>2, <2>5
<1>2. CASE i = m + 1
  <2>1. PICK t \in Text : new[i] = Record(t, DigestAt(lines, m))
    BY <1>2
  <2>2. new[i].prev = DigestAt(lines, m) /\ HashMatches(new[i])
    BY <2>1 DEF Record, HashMatches
  <2>3. CASE m = 0
    <3>1. new[i].prev = NoDigest
      BY <2>2, <2>3 DEF DigestAt
    <3>2. {j \in 1..(i - 1) : new[j].kind = "record"} = {}
      BY <1>2, <2>3
    <3>3. QED
      BY <2>2, <3>1, <3>2 DEF FollowsChain
  <2>4. CASE m # 0 /\ lines[m].kind = "record"
    <3>1. m \in {j \in 1..(i - 1) : new[j].kind = "record"}
      BY <1>2, <2>4
    <3>2. new[i].prev = new[m].hash
      BY <2>2, <2>4 DEF DigestAt
    <3>3. \A k \in {j \in 1..(i - 1) : new[j].kind = "record"} : k <= m
      BY <1>2
    <3>4. QED
      BY <2>2, <3>1, <3>2, <3>3 DEF FollowsChain
  <2>5. CASE m # 0 /\ lines[m].kind # "record"
    <3>1. new[i].prev = RawHash(new[i - 1]) /\ new[i - 1].kind # "record" /\ i > 1
      BY <1>2, <2>2, <2>5 DEF DigestAt
    <3>2. QED
      BY <2>2, <3>1 DEF FollowsChain
  <2>6. QED
    BY <2>3, <2>4, <2>5
<1>3. QED
  BY <1>1, <1>2

-----------------------------------------------------------------------------
(* The invariant *)

\* A log without damage up to some line has none in a shorter prefix or in a log
\* that agrees with it there.
LEMMA CleanIsNotMalformed ==
  ASSUME NEW lines \in Seq(Line)
  PROVE  ~Malformed(lines) <=> CleanTo(lines, Len(lines))
BY DEF Malformed, CleanTo

\* The invariant holds of any log an older version may have left.
LEMMA IInvInit == Init => IInv
<1> SUFFICES ASSUME Init PROVE IInv
  OBVIOUS
<1> USE DEF Init
<1>1. PICK t0 \in Text : t0 = (CHOOSE t \in Text : TRUE)
  BY TextAssumption
<1>2. TornLine(t0) \in Line
  <2>1. NoDigest \in Digest
    BY DEF NoDigest, Digest
  <2>2. QED
    BY <2>1, LineTypes
<1>3. file \in Seq({LegacyLine(t) : t \in Text})
  BY HistoryAssumption
<1>4. \A t \in Text : LegacyLine(t) \in Line
  BY LineTypes DEF LegacyLine, Line, NoDigest, Digest
<1>5. file \in Seq(Line)
  BY <1>3, <1>4
<1>6. \A i \in 1..Len(file) : file[i].kind = "legacy"
  BY <1>3 DEF LegacyLine
<1>7. TypeOK
  BY <1>1, <1>2, <1>5, HistoryAssumption DEF TypeOK
<1>8. ChainUnbroken /\ DamageOnlyAtEnd
  BY <1>6 DEF ChainUnbroken, ChainHolds, DamageOnlyAtEnd, IsTorn
<1>9. OneHolder /\ PreparedFollowsTail /\ HalfWritten /\ OpenHasLine
  BY DEF OneHolder, PreparedFollowsTail, HalfWritten, OpenHasLine, Critical
<1>10. QED
  BY <1>7, <1>8, <1>9 DEF IInv

\* Steps that leave the log and everybody's record alone only have to respect the lock.
LEMMA QuietStep ==
  ASSUME IInv, UNCHANGED <<file, open, rec, onto>>,
         lock' \in Proc \cup {NoProc},
         pc' \in [Proc -> {"idle", "waiting", "reading", "writing", "partial", "closing"}],
         commands' \in Nat, acked' \subseteq Line,
         OneHolder',
         \A p \in Proc : pc'[p] \in {"writing", "partial"} => pc[p] = pc'[p]
  PROVE  IInv'
<1>1. TypeOK'
  BY DEF IInv, TypeOK
<1>2. PreparedFollowsTail'
  <2> SUFFICES ASSUME NEW p \in Proc, pc'[p] = "writing"
               PROVE /\ CleanTo(file, Len(file))
                     /\ onto[p] = open
                     /\ \E t \in Text : rec[p] = Record(t, DigestAt(file, Len(file)))
    BY DEF PreparedFollowsTail, CleanTo, DigestAt
  <2>1. pc[p] = "writing"
    OBVIOUS
  <2>2. QED
    BY <2>1 DEF IInv, PreparedFollowsTail
<1>3. HalfWritten'
  <2> SUFFICES ASSUME NEW p \in Proc, pc'[p] = "partial"
               PROVE /\ file # << >>
                     /\ CleanTo(file, Len(file) - 1)
                     /\ onto[p] => IsTorn(file[Len(file)])
                     /\ ~onto[p] => \E t \in Text :
                          rec[p] = Record(t, DigestAt(file, Len(file) - 1))
    BY DEF HalfWritten, CleanTo, DigestAt
  <2>1. pc[p] = "partial"
    OBVIOUS
  <2>2. QED
    BY <2>1 DEF IInv, HalfWritten
<1>4. OpenHasLine' /\ DamageOnlyAtEnd' /\ ChainUnbroken'
  BY DEF IInv, OpenHasLine, DamageOnlyAtEnd, ChainUnbroken, ChainHolds,
         HashMatches, FollowsChain
<1>5. QED
  BY <1>1, <1>2, <1>3, <1>4 DEF IInv

\* A step of the lock's holder leaves every other process outside the section it
\* guards, so the conditions on the others' records say nothing.
LEMMA AloneInside ==
  ASSUME IInv, NEW p \in Proc, pc[p] \in Critical,
         NEW q \in Proc, q # p
  PROVE  pc[q] \notin Critical
BY ProcAssumption DEF IInv, OneHolder

\* What a write leaves: m lines of the old log and one more.
LEMMA WriteStep ==
  ASSUME IInv, NEW p \in Proc, pc[p] \in {"writing", "partial"},
         NEW m \in 0..Len(file),
         file' \in Seq(Line), Len(file') = m + 1,
         \A i \in 1..m : file'[i] = file[i],
         CleanTo(file, m),
         \/ file'[m + 1].kind # "record"
         \/ \E t \in Text : file'[m + 1] = Record(t, DigestAt(file, m))
  PROVE  /\ ChainUnbroken'
         /\ DamageOnlyAtEnd'
         /\ file' # << >>
         /\ CleanTo(file', m)
<1>1. ChainHolds(file')
  BY ChainExtends DEF IInv, TypeOK, ChainUnbroken
<1>2. CleanTo(file', m)
  BY DEF CleanTo
<1>3. DamageOnlyAtEnd'
  <2> SUFFICES ASSUME NEW i \in 1..Len(file'), IsTorn(file'[i]) PROVE i = Len(file')
    BY DEF DamageOnlyAtEnd, IsTorn
  <2>1. QED
    BY <1>2 DEF CleanTo
<1>4. QED
  BY <1>1, <1>2, <1>3 DEF ChainUnbroken, ChainHolds, HashMatches, FollowsChain

\* Every step of every process preserves the invariant.
LEMMA IInvStep == IInv /\ [Next]_vars => IInv'
<1> SUFFICES ASSUME IInv, [Next]_vars PROVE IInv'
  OBVIOUS
<1> USE DEF IInv, TypeOK
<1>1. ASSUME NEW p \in Proc, Start(p) PROVE IInv'
  <2>1. OneHolder'
    BY <1>1 DEF Start, OneHolder, Critical
  <2>2. \A q \in Proc : pc'[q] \in {"writing", "partial"} => pc[q] = pc'[q]
    BY <1>1 DEF Start
  <2>3. QED
    BY <1>1, <2>1, <2>2, QuietStep DEF Start
<1>2. ASSUME NEW p \in Proc, Acquire(p) PROVE IInv'
  <2>1. OneHolder'
    BY <1>2, ProcAssumption DEF Acquire, OneHolder, Critical
  <2>2. \A q \in Proc : pc'[q] \in {"writing", "partial"} => pc[q] = pc'[q]
    BY <1>2 DEF Acquire
  <2>3. QED
    BY <1>2, <2>1, <2>2, QuietStep DEF Acquire
<1>3. ASSUME NEW p \in Proc, Refuse(p) PROVE IInv'
  <2>1. OneHolder'
    BY <1>3, AloneInside DEF Refuse, OneHolder, Critical
  <2>2. \A q \in Proc : pc'[q] \in {"writing", "partial"} => pc[q] = pc'[q]
    BY <1>3 DEF Refuse
  <2>3. QED
    BY <1>3, <2>1, <2>2, QuietStep DEF Refuse
<1>4. ASSUME NEW p \in Proc, Prepare(p) PROVE IInv'
  <2>1. pc[p] \in Critical
    BY <1>4 DEF Prepare, Critical
  <2>2. PICK t \in Text : rec' = [rec EXCEPT ![p] = Record(t, TailDigest(file))]
    BY <1>4 DEF Prepare
  <2>3. TailDigest(file) = DigestAt(file, Len(file)) /\ TailDigest(file) \in Digest
    BY TailDigestIs, DigestType
  <2>4. TypeOK'
    BY <1>4, <2>2, <2>3, LineTypes DEF Prepare
  <2>5. OneHolder'
    BY <1>4 DEF Prepare, OneHolder, Critical
  <2>6. CleanTo(file, Len(file))
    BY <1>4, CleanIsNotMalformed DEF Prepare
  <2>7. \A q \in Proc : q # p => pc'[q] \notin {"writing", "partial"}
    BY <1>4, <2>1, AloneInside DEF Prepare, Critical
  <2>8. PreparedFollowsTail'
    <3> SUFFICES ASSUME NEW q \in Proc, pc'[q] = "writing"
                 PROVE /\ CleanTo(file, Len(file))'
                       /\ onto'[q] = open'
                       /\ (\E u \in Text : rec[q] = Record(u, DigestAt(file, Len(file))))'
      BY DEF PreparedFollowsTail
    <3>1. q = p /\ file' = file /\ open' = open
      BY <1>4, <2>7 DEF Prepare
    <3>2. rec'[p] = Record(t, DigestAt(file, Len(file))) /\ onto'[p] = open
      BY <1>4, <2>2, <2>3 DEF Prepare
    <3>3. CleanTo(file, Len(file))'
      BY <2>6, <3>1 DEF CleanTo
    <3>4. QED
      BY <3>1, <3>2, <3>3 DEF DigestAt
  <2>9. HalfWritten'
    BY <1>4, <2>7 DEF Prepare, HalfWritten
  <2>10. OpenHasLine' /\ DamageOnlyAtEnd' /\ ChainUnbroken'
    BY <1>4 DEF Prepare, OpenHasLine, DamageOnlyAtEnd, ChainUnbroken, ChainHolds,
                HashMatches, FollowsChain
  <2>11. QED
    BY <2>4, <2>5, <2>8, <2>9, <2>10
<1>5. ASSUME NEW p \in Proc, WriteAll(p) PROVE IInv'
  <2>1. pc[p] = "writing" /\ pc[p] \in Critical
    BY <1>5 DEF WriteAll, Critical
  <2>2. PICK t \in Text : rec[p] = Record(t, DigestAt(file, Len(file)))
    BY <2>1 DEF PreparedFollowsTail
  <2>3. CleanTo(file, Len(file)) /\ rec[p] \in Line /\ TornLine(rec[p].text) \in Line
    <3>1. rec[p] \in Line /\ rec[p].text \in Text
      BY DEF Line
    <3>2. QED
      BY <2>1, <3>1, TornType DEF PreparedFollowsTail
  <2>4. ChainUnbroken' /\ DamageOnlyAtEnd' /\ file' # << >> /\ file' \in Seq(Line)
    <3>1. CASE open
      <4>1. file # << >> /\ file' = [file EXCEPT ![Len(file)] = TornLine(rec[p].text)]
        BY <1>5, <3>1 DEF WriteAll, Landed, OpenHasLine
      <4>2. CleanTo(file, Len(file) - 1)
        BY <2>3 DEF CleanTo
      <4>3. file'[Len(file)].kind # "record"
        BY <4>1 DEF TornLine
      <4>4. QED
        BY <2>1, <2>3, <4>1, <4>2, <4>3, WriteStep
    <3>2. CASE ~open
      <4>1. file' = Append(file, rec[p])
        BY <1>5, <3>2 DEF WriteAll, Landed
      <4>2. QED
        BY <2>1, <2>2, <2>3, <4>1, WriteStep
    <3>3. QED
      BY <3>1, <3>2
  <2>5. TypeOK'
    BY <1>5, <2>4 DEF WriteAll
  <2>6. \A q \in Proc : pc'[q] \notin {"writing", "partial"}
    BY <1>5, <2>1, AloneInside DEF WriteAll, Critical
  <2>7. OneHolder'
    BY <1>5 DEF WriteAll, OneHolder, Critical
  <2>8. PreparedFollowsTail' /\ HalfWritten' /\ OpenHasLine'
    BY <2>4, <2>6 DEF PreparedFollowsTail, HalfWritten, OpenHasLine
  <2>9. QED
    BY <2>4, <2>5, <2>7, <2>8
<1>6. ASSUME NEW p \in Proc, WritePart(p) PROVE IInv'
  <2>1. pc[p] = "writing" /\ pc[p] \in Critical
    BY <1>6 DEF WritePart, Critical
  <2>2. PICK t \in Text : rec[p] = Record(t, DigestAt(file, Len(file)))
    BY <2>1 DEF PreparedFollowsTail
  <2>3. /\ CleanTo(file, Len(file)) /\ onto[p] = open
        /\ rec[p] \in Line /\ TornLine(rec[p].text) \in Line
    <3>1. rec[p] \in Line /\ rec[p].text \in Text
      BY DEF Line
    <3>2. QED
      BY <2>1, <3>1, TornType DEF PreparedFollowsTail
  <2>4. PICK line \in {rec[p], TornLine(rec[p].text)} : file' = Landed(line)
    BY <1>6 DEF WritePart
  <2>5. line \in Line /\ TornLine(line.text) \in Line
    BY <2>3, <2>4 DEF TornLine
  <2>6. /\ ChainUnbroken' /\ DamageOnlyAtEnd' /\ file' # << >> /\ file' \in Seq(Line)
        /\ CleanTo(file', Len(file') - 1)
        /\ onto[p] => IsTorn(file'[Len(file')])
        /\ ~onto[p] => DigestAt(file', Len(file') - 1) = DigestAt(file, Len(file))
    <3>1. CASE open
      <4>1. file # << >> /\ file' = [file EXCEPT ![Len(file)] = TornLine(line.text)]
        BY <2>4, <3>1 DEF Landed, OpenHasLine
      <4>2. CleanTo(file, Len(file) - 1)
        BY <2>3 DEF CleanTo
      <4>3. Len(file') = Len(file) /\ IsTorn(file'[Len(file)]) /\ file'[Len(file)].kind # "record"
        BY <4>1 DEF TornLine, IsTorn
      <4>4. file' \in Seq(Line) /\ \A i \in 1..(Len(file) - 1) : file'[i] = file[i]
        BY <2>5, <4>1
      <4>5. PICK m \in 0..Len(file) : m = Len(file) - 1
        <5>1. file # << >> => Len(file) \in Nat /\ Len(file) # 0
          OBVIOUS
        <5>2. Len(file) - 1 \in 0..Len(file)
          BY <4>1, <5>1
        <5>3. QED
          BY <5>2
      <4>6. /\ Len(file') = m + 1 /\ CleanTo(file, m)
            /\ \A i \in 1..m : file'[i] = file[i]
            /\ file'[m + 1].kind # "record"
        BY <4>2, <4>3, <4>4, <4>5
      <4>7. ChainUnbroken' /\ DamageOnlyAtEnd' /\ file' # << >> /\ CleanTo(file', m)
        BY <2>1, <4>4, <4>6, WriteStep
      <4>8. onto[p] /\ m = Len(file') - 1 /\ IsTorn(file'[Len(file')])
        BY <2>3, <3>1, <4>3, <4>5, <4>6
      <4>9. QED
        BY <4>4, <4>7, <4>8
    <3>2. CASE ~open
      <4>1. file' = Append(file, line)
        BY <2>4, <3>2 DEF Landed
      <4>2. \/ line.kind # "record"
            \/ \E u \in Text : line = Record(u, DigestAt(file, Len(file)))
        BY <2>2, <2>4 DEF TornLine
      <4>3. /\ file' \in Seq(Line) /\ Len(file') = Len(file) + 1
            /\ \A i \in 1..Len(file) : file'[i] = file[i]
            /\ file'[Len(file) + 1] = line
        BY <2>5, <4>1
      <4>4. ChainUnbroken' /\ DamageOnlyAtEnd' /\ file' # << >> /\ CleanTo(file', Len(file))
        BY <2>1, <2>3, <4>2, <4>3, WriteStep
      <4>5. DigestAt(file', Len(file)) = DigestAt(file, Len(file))
        BY <4>3 DEF DigestAt
      <4>6. QED
        BY <2>3, <3>2, <4>3, <4>4, <4>5
    <3>3. QED
      BY <3>1, <3>2
  <2>7. TypeOK'
    BY <1>6, <2>6 DEF WritePart
  <2>8. \A q \in Proc : q # p => pc'[q] \notin {"writing", "partial"}
    BY <1>6, <2>1, AloneInside DEF WritePart, Critical
  <2>9. pc'[p] = "partial" /\ onto' = onto /\ rec' = rec
    BY <1>6 DEF WritePart
  <2>10. OneHolder'
    BY <1>6 DEF WritePart, OneHolder, Critical
  <2>11. PreparedFollowsTail' /\ OpenHasLine'
    BY <2>6, <2>8, <2>9 DEF PreparedFollowsTail, OpenHasLine
  <2>12. HalfWritten'
    <3> SUFFICES ASSUME NEW q \in Proc, pc'[q] = "partial"
                 PROVE /\ file' # << >>
                       /\ CleanTo(file', Len(file') - 1)
                       /\ onto'[q] => IsTorn(file'[Len(file')])
                       /\ ~onto'[q] => \E u \in Text :
                            rec'[q] = Record(u, DigestAt(file', Len(file') - 1))
      BY DEF HalfWritten, CleanTo, DigestAt
    <3>1. q = p
      BY <2>8
    <3>2. QED
      BY <2>2, <2>6, <2>9, <3>1
  <2>13. QED
    BY <2>6, <2>7, <2>10, <2>11, <2>12
<1>7. ASSUME NEW p \in Proc, WriteRest(p) PROVE IInv'
  <2>1. pc[p] = "partial" /\ pc[p] \in Critical
    BY <1>7 DEF WriteRest, Critical
  <2>2. /\ file # << >> /\ CleanTo(file, Len(file) - 1)
        /\ onto[p] => IsTorn(file[Len(file)])
        /\ ~onto[p] => \E t \in Text : rec[p] = Record(t, DigestAt(file, Len(file) - 1))
    BY <2>1 DEF HalfWritten
  <2>3. ChainUnbroken' /\ DamageOnlyAtEnd' /\ file' # << >> /\ file' \in Seq(Line)
    <3>1. CASE onto[p]
      <4>1. file' = file
        BY <1>7, <3>1 DEF WriteRest
      <4>2. QED
        BY <2>2, <4>1 DEF ChainUnbroken, DamageOnlyAtEnd, ChainHolds, HashMatches, FollowsChain
    <3>2. CASE ~onto[p]
      <4>1. file' = [file EXCEPT ![Len(file)] = rec[p]]
        BY <1>7, <3>2 DEF WriteRest
      <4>2. /\ file' \in Seq(Line) /\ Len(file') = (Len(file) - 1) + 1
            /\ \A i \in 1..(Len(file) - 1) : file'[i] = file[i]
            /\ file'[(Len(file) - 1) + 1] = rec[p]
            /\ Len(file) - 1 \in 0..Len(file)
        BY <2>2, <4>1
      <4>3. QED
        BY <2>1, <2>2, <3>2, <4>2, WriteStep
    <3>3. QED
      BY <3>1, <3>2
  <2>4. TypeOK'
    BY <1>7, <2>3 DEF WriteRest
  <2>5. \A q \in Proc : pc'[q] \notin {"writing", "partial"}
    BY <1>7, <2>1, AloneInside DEF WriteRest, Critical
  <2>6. OneHolder'
    BY <1>7 DEF WriteRest, OneHolder, Critical
  <2>7. PreparedFollowsTail' /\ HalfWritten' /\ OpenHasLine'
    BY <2>3, <2>5 DEF PreparedFollowsTail, HalfWritten, OpenHasLine
  <2>8. QED
    BY <2>3, <2>4, <2>6, <2>7
<1>8. ASSUME NEW p \in Proc, Return(p) PROVE IInv'
  <2>1. OneHolder'
    BY <1>8, AloneInside DEF Return, OneHolder, Critical
  <2>2. \A q \in Proc : pc'[q] \in {"writing", "partial"} => pc[q] = pc'[q]
    BY <1>8 DEF Return
  <2>3. acked' \subseteq Line
    BY <1>8 DEF Return
  <2>4. QED
    BY <1>8, <2>1, <2>2, <2>3, QuietStep DEF Return
<1>9. ASSUME NEW p \in Proc, Abandon(p) PROVE IInv'
  <2>1. OneHolder'
    BY <1>9, AloneInside, ProcAssumption DEF Abandon, OneHolder, Critical
  <2>2. \A q \in Proc : pc'[q] \in {"writing", "partial"} => pc[q] = pc'[q]
    BY <1>9 DEF Abandon
  <2>3. QED
    BY <1>9, <2>1, <2>2, QuietStep DEF Abandon
<1>10. CASE UNCHANGED vars
  <2>1. OneHolder'
    BY <1>10 DEF vars, OneHolder
  <2>2. QED
    BY <1>10, <2>1, QuietStep DEF vars
<1>11. QED
  BY <1>1, <1>2, <1>3, <1>4, <1>5, <1>6, <1>7, <1>8, <1>9, <1>10 DEF Next, Progress

-----------------------------------------------------------------------------
(* Acknowledged records.  A record is acknowledged once it is in the log or   *)
(* has run into a line without a newline; until a half-written line is        *)
(* finished, the acknowledged records are all above it.                       *)

HeldIn(lines, m, r) == \E i \in 1..m : lines[i] = r

AckedAbovePart ==
  \A p \in Proc : pc[p] = "partial" /\ ~onto[p] =>
    \A r \in acked : HeldIn(file, Len(file) - 1, r)

WrittenOrDamaged ==
  \A p \in Proc : pc[p] = "closing" =>
    HeldIn(file, Len(file), rec[p]) \/ Malformed(file)

AckInv == LossIsNoticed /\ AckedAbovePart /\ WrittenOrDamaged

\* Steps that leave the log alone, begin no write and acknowledge only what the
\* invariant vouches for.
LEMMA AckQuietStep ==
  ASSUME AckInv, UNCHANGED <<file, rec, onto>>,
         \A p \in Proc : pc'[p] \in {"partial", "closing"} => pc[p] = pc'[p],
         \A r \in acked' : r \in acked \/ HeldIn(file, Len(file), r) \/ Malformed(file),
         (\E p \in Proc : pc'[p] = "partial") => acked' = acked
  PROVE  AckInv'
<1>1. LossIsNoticed'
  BY DEF AckInv, LossIsNoticed, HeldIn, Malformed, IsTorn
<1>2. AckedAbovePart'
  BY DEF AckInv, AckedAbovePart, HeldIn
<1>3. WrittenOrDamaged'
  BY DEF AckInv, WrittenOrDamaged, HeldIn, Malformed, IsTorn
<1>4. QED
  BY <1>1, <1>2, <1>3 DEF AckInv

\* Nothing is lost in a log without damage that gets one more line.
LEMMA AckedStay ==
  ASSUME LossIsNoticed, NEW m \in Nat, m >= Len(file), ~Malformed(file), file \in Seq(Line),
         file' \in Seq(Line), Len(file') = m + 1,
         \A i \in 1..Len(file) : file'[i] = file[i]
  PROVE  \A r \in acked : HeldIn(file', m, r)
<1>1. \A r \in acked : HeldIn(file, Len(file), r)
  BY DEF LossIsNoticed, HeldIn
<1>2. QED
  BY <1>1 DEF HeldIn

\* A torn last line is damage.
LEMMA TornIsMalformed ==
  ASSUME NEW lines \in Seq(Line), lines # << >>, IsTorn(lines[Len(lines)])
  PROVE  Malformed(lines)
BY DEF Malformed

LEMMA AckInvStep == IInv /\ AckInv /\ [Next]_vars => AckInv'
<1> SUFFICES ASSUME IInv, AckInv, [Next]_vars PROVE AckInv'
  OBVIOUS
<1> USE DEF IInv, TypeOK
<1>1. ASSUME NEW p \in Proc,
             Start(p) \/ Acquire(p) \/ Refuse(p) \/ Abandon(p) \/ Prepare(p)
      PROVE  AckInv'
  <2>1. file' = file /\ acked' = acked
    BY <1>1 DEF Start, Acquire, Refuse, Abandon, Prepare
  <2>2. \A q \in Proc : pc'[q] \in {"partial", "closing"} => pc[q] = pc'[q]
    BY <1>1 DEF Start, Acquire, Refuse, Abandon, Prepare
  <2>3. CASE Prepare(p)
    <3>1. \A q \in Proc : pc'[q] \in {"partial", "closing"} =>
            q # p /\ rec'[q] = rec[q] /\ onto'[q] = onto[q]
      BY <2>3 DEF Prepare
    <3>2. LossIsNoticed'
      BY <2>1 DEF AckInv, LossIsNoticed, Malformed, IsTorn
    <3>3. AckedAbovePart'
      BY <2>1, <2>2, <3>1 DEF AckInv, AckedAbovePart, HeldIn
    <3>4. WrittenOrDamaged'
      BY <2>1, <2>2, <3>1 DEF AckInv, WrittenOrDamaged, HeldIn, Malformed, IsTorn
    <3>5. QED
      BY <3>2, <3>3, <3>4 DEF AckInv
  <2>4. CASE ~Prepare(p)
    <3>1. UNCHANGED <<rec, onto>>
      BY <1>1, <2>4 DEF Start, Acquire, Refuse, Abandon
    <3>2. QED
      BY <2>1, <2>2, <3>1, AckQuietStep
  <2>5. QED
    BY <2>3, <2>4
<1>2. ASSUME NEW p \in Proc, Return(p) PROVE AckInv'
  <2>1. HeldIn(file, Len(file), rec[p]) \/ Malformed(file)
    BY <1>2 DEF Return, AckInv, WrittenOrDamaged
  <2>2. \A q \in Proc : pc'[q] \in {"partial", "closing"} => pc[q] = pc'[q]
    BY <1>2 DEF Return
  <2>3. \A q \in Proc : pc'[q] # "partial"
    BY <1>2, AloneInside DEF Return, Critical
  <2>4. QED
    BY <1>2, <2>1, <2>2, <2>3, AckQuietStep DEF Return
<1>3. ASSUME NEW p \in Proc, WriteAll(p) \/ WritePart(p) PROVE AckInv'
  <2>1. pc[p] = "writing" /\ pc[p] \in Critical
    BY <1>3 DEF WriteAll, WritePart, Critical
  <2>2. \A q \in Proc : q # p => pc'[q] \notin {"partial", "closing"}
    BY <1>3, <2>1, AloneInside DEF WriteAll, WritePart, Critical
  <2>3. ~Malformed(file) /\ onto[p] = open
    BY <2>1, CleanIsNotMalformed DEF PreparedFollowsTail
  <2>4. rec[p] \in Line /\ TornLine(rec[p].text) \in Line
    BY LineTypes DEF Line, TornLine, NoDigest, Digest
  <2>5. PICK line \in {rec[p], TornLine(rec[p].text)} :
          /\ file' = Landed(line)
          /\ WriteAll(p) => line = rec[p]
    BY <1>3 DEF WriteAll, WritePart
  <2>6. TornLine(line.text) \in Line /\ line \in Line
    BY <2>4, <2>5 DEF TornLine
  <2>7. acked' = acked /\ rec' = rec /\ onto' = onto
    BY <1>3 DEF WriteAll, WritePart
  <2>8. CASE open
    <3>1. file # << >> /\ file' = [file EXCEPT ![Len(file)] = TornLine(line.text)]
      BY <2>5, <2>8 DEF Landed, OpenHasLine
    <3>2. file' \in Seq(Line) /\ file' # << >> /\ IsTorn(file'[Len(file')])
      BY <2>6, <3>1 DEF TornLine, IsTorn
    <3>3. Malformed(file')
      BY <3>2, TornIsMalformed
    <3>4. QED
      BY <2>2, <2>3, <2>7, <2>8, <3>3
      DEF AckInv, LossIsNoticed, AckedAbovePart, WrittenOrDamaged, Malformed, IsTorn
  <2>9. CASE ~open
    <3>1. file' = Append(file, line)
      BY <2>5, <2>9 DEF Landed
    <3>2. /\ file' \in Seq(Line) /\ Len(file') = Len(file) + 1
          /\ \A i \in 1..Len(file) : file'[i] = file[i]
          /\ file'[Len(file')] = line
      BY <2>6, <3>1
    <3>3. \A r \in acked : HeldIn(file', Len(file), r)
      BY <2>3, <3>2, AckedStay DEF AckInv
    <3>4. LossIsNoticed' /\ AckedAbovePart'
      BY <2>7, <3>2, <3>3 DEF LossIsNoticed, AckedAbovePart, HeldIn
    <3>5. WrittenOrDamaged'
      <4>1. CASE WriteAll(p)
        BY <2>2, <2>5, <2>7, <3>2, <4>1 DEF WrittenOrDamaged, HeldIn
      <4>2. CASE WritePart(p)
        <5>1. pc'[p] = "partial"
          BY <4>2 DEF WritePart
        <5>2. QED
          BY <2>2, <5>1 DEF WrittenOrDamaged
      <4>3. QED
        BY <1>3, <4>1, <4>2
    <3>6. QED
      BY <3>4, <3>5 DEF AckInv
  <2>10. QED
    BY <2>8, <2>9
<1>4. ASSUME NEW p \in Proc, WriteRest(p) PROVE AckInv'
  <2>1. pc[p] = "partial" /\ pc[p] \in Critical /\ acked' = acked /\ rec' = rec
    BY <1>4 DEF WriteRest, Critical
  <2>2. \A q \in Proc : pc'[q] # "partial" /\ (q # p => pc'[q] # "closing")
    BY <1>4, <2>1, AloneInside DEF WriteRest, Critical
  <2>3. file # << >> /\ (onto[p] => IsTorn(file[Len(file)]))
    BY <2>1 DEF HalfWritten
  <2>4. CASE onto[p]
    <3>1. file' = file /\ Malformed(file)
      BY <1>4, <2>3, <2>4, TornIsMalformed DEF WriteRest
    <3>2. QED
      BY <2>2, <3>1
      DEF AckInv, LossIsNoticed, AckedAbovePart, WrittenOrDamaged, Malformed, IsTorn
  <2>5. CASE ~onto[p]
    <3>1. file' = [file EXCEPT ![Len(file)] = rec[p]]
      BY <1>4, <2>5 DEF WriteRest
    <3>2. /\ Len(file') = Len(file) /\ Len(file) \in Nat \ {0}
          /\ \A i \in 1..(Len(file) - 1) : file'[i] = file[i]
          /\ file'[Len(file')] = rec[p]
      BY <2>3, <3>1
    <3>3. \A r \in acked : HeldIn(file, Len(file) - 1, r)
      BY <2>1, <2>5 DEF AckInv, AckedAbovePart
    <3>4. LossIsNoticed' /\ AckedAbovePart' /\ WrittenOrDamaged'
      BY <2>1, <2>2, <3>2, <3>3
      DEF LossIsNoticed, AckedAbovePart, WrittenOrDamaged, HeldIn
    <3>5. QED
      BY <3>4 DEF AckInv
  <2>6. QED
    BY <2>4, <2>5
<1>5. CASE UNCHANGED vars
  BY <1>5, AckQuietStep DEF vars
<1>6. QED
  BY <1>1, <1>2, <1>3, <1>4, <1>5 DEF Next, Progress

-----------------------------------------------------------------------------
(* The refinement of AuditTrail.  A write adds an entry only when it finishes *)
(* a line of its own, and by then every acknowledged record is an entry; all  *)
(* other writes touch the last, unfinished or damaged line.                   *)

PartIsOpen == \A p \in Proc : pc[p] = "partial" => open

TrailInv == IInv /\ AckInv /\ PartIsOpen

LEMMA PartIsOpenStep ==
  ASSUME IInv, PartIsOpen, [Next]_vars
  PROVE  PartIsOpen'
<1> USE DEF IInv, TypeOK
<1>1. ASSUME NEW p \in Proc,
             Start(p) \/ Acquire(p) \/ Refuse(p) \/ Prepare(p) \/ Return(p) \/ Abandon(p)
      PROVE  PartIsOpen'
  <2>1. open' = open /\ \A q \in Proc : pc'[q] = "partial" => pc[q] = "partial"
    BY <1>1 DEF Start, Acquire, Refuse, Prepare, Return, Abandon
  <2>2. QED
    BY <2>1 DEF PartIsOpen
<1>2. ASSUME NEW p \in Proc, WriteAll(p) \/ WriteRest(p) PROVE PartIsOpen'
  <2>1. pc[p] \in Critical /\ pc' = [pc EXCEPT ![p] = "closing"]
    BY <1>2 DEF WriteAll, WriteRest, Critical
  <2>2. \A q \in Proc : pc'[q] # "partial"
    BY <2>1, AloneInside DEF Critical
  <2>3. QED
    BY <2>2 DEF PartIsOpen
<1>3. ASSUME NEW p \in Proc, WritePart(p) PROVE PartIsOpen'
  BY <1>3 DEF WritePart, PartIsOpen
<1>4. CASE UNCHANGED vars
  BY <1>4 DEF vars, PartIsOpen
<1>5. QED
  BY <1>1, <1>2, <1>3, <1>4 DEF Next, Progress

EntriesOf(lines, unfinished) ==
  LET terminated == IF unfinished THEN SubSeq(lines, 1, Len(lines) - 1) ELSE lines
  IN  IF terminated # << >> /\ IsTorn(terminated[Len(terminated)])
      THEN SubSeq(terminated, 1, Len(terminated) - 1) ELSE terminated

LEMMA EntriesNow ==
  Entries = EntriesOf(file, open) /\ Entries' = EntriesOf(file', open')
BY DEF Entries, Terminated, EntriesOf, IsTorn

\* The entries of a log with no damage, or with none above an unfinished last line.
LEMMA CleanEntries ==
  ASSUME NEW lines \in Seq(Line), CleanTo(lines, Len(lines))
  PROVE  EntriesOf(lines, FALSE) = lines
<1>1. lines # << >> => ~IsTorn(lines[Len(lines)])
  BY DEF CleanTo
<1>2. QED
  BY <1>1 DEF EntriesOf

LEMMA OpenEntries ==
  ASSUME NEW lines \in Seq(Line), NEW m \in Nat, m = Len(lines) - 1, CleanTo(lines, m)
  PROVE  EntriesOf(lines, TRUE) = SubSeq(lines, 1, m)
<1>1. PICK upper : upper = SubSeq(lines, 1, m)
  OBVIOUS
<1>2. upper \in Seq(Line) /\ Len(upper) = m /\ \A i \in 1..m : upper[i] = lines[i]
  BY <1>1
<1>3. upper # << >> => ~IsTorn(upper[Len(upper)])
  BY <1>2 DEF CleanTo
<1>4. QED
  BY <1>1, <1>2, <1>3 DEF EntriesOf

\* ... or above a damaged one.
LEMMA DamagedEntries ==
  ASSUME NEW lines \in Seq(Line), NEW m \in Nat, m = Len(lines) - 1, IsTorn(lines[Len(lines)])
  PROVE  EntriesOf(lines, FALSE) = SubSeq(lines, 1, m)
BY DEF EntriesOf

\* A write into the last line, or the beginning of one below it, adds no entry.
LEMMA WriteStutters ==
  ASSUME NEW m \in Nat, Entries = SubSeq(file, 1, m), Entries' = SubSeq(file', 1, m),
         file \in Seq(Line), file' \in Seq(Line), m <= Len(file), m <= Len(file'),
         \A i \in 1..m : file'[i] = file[i],
         acked' = acked
  PROVE  UNCHANGED <<Entries, Readable>>
<1>1. Entries' = Entries
  OBVIOUS
<1>2. Readable' = Readable
  BY <1>1 DEF Readable
<1>3. QED
  BY <1>1, <1>2

\* A line that is finished below the entries is one more entry; everything that was
\* acknowledged is an entry before and after.
LEMMA WriteRecords ==
  ASSUME NEW m \in Nat, Entries = SubSeq(file, 1, m), Entries' = file',
         file \in Seq(Line), file' \in Seq(Line), m <= Len(file), Len(file') = m + 1,
         \A i \in 1..m : file'[i] = file[i],
         acked' = acked, \A r \in acked : HeldIn(file, m, r)
  PROVE  Trail!Record
<1>1. Len(Entries) = m /\ \A i \in 1..m : Entries[i] = file[i] /\ Entries'[i] = file[i]
  OBVIOUS
<1>2. Len(Entries') = Len(Entries) + 1 /\ SubSeq(Entries', 1, Len(Entries)) = Entries
  BY <1>1
<1>3. Readable = acked /\ Readable' = acked
  <2>1. \A r \in acked : \E i \in 1..m : file[i] = r
    BY DEF HeldIn
  <2>2. \A r \in acked : (\E i \in 1..Len(Entries) : Entries[i] = r)
                         /\ \E i \in 1..Len(Entries') : Entries'[i] = r
    BY <1>1, <1>2, <2>1
  <2>3. QED
    BY <2>2 DEF Readable
<1>4. QED
  BY <1>2, <1>3 DEF Trail!Record

LEMMA TrailInit == Init => Trail!Init
<1> SUFFICES ASSUME Init PROVE Trail!Init
  OBVIOUS
<1>1. file \in Histories /\ file \in Seq({LegacyLine(t) : t \in Text}) /\ acked = {}
      /\ open \in BOOLEAN /\ (open => file # << >>)
  BY HistoryAssumption DEF Init
<1>2. file \in Seq(Line) /\ CleanTo(file, Len(file))
  <2>1. \A t \in Text : LegacyLine(t) \in Line
    BY LineTypes DEF LegacyLine, Line, NoDigest, Digest
  <2>2. \A i \in 1..Len(file) : file[i].kind = "legacy"
    BY <1>1 DEF LegacyLine
  <2>3. QED
    BY <1>1, <2>1, <2>2 DEF CleanTo, IsTorn
<1>3. Entries \in Beginnings
  <2>1. CASE open
    <3>1. Len(file) - 1 \in 0..Len(file) /\ CleanTo(file, Len(file) - 1)
      BY <1>1, <1>2, <2>1 DEF CleanTo
    <3>2. Entries = SubSeq(file, 1, Len(file) - 1)
      <4>1. PICK m \in Nat : m = Len(file) - 1
        BY <3>1
      <4>2. QED
        BY <1>2, <2>1, <3>1, <4>1, EntriesNow, OpenEntries
    <3>3. QED
      BY <1>1, <2>1, <3>2 DEF Beginnings
  <2>2. CASE ~open
    <3>1. Entries = file
      BY <1>1, <1>2, <2>2, EntriesNow, CleanEntries
    <3>2. QED
      BY <1>1, <3>1 DEF Beginnings
  <2>3. QED
    BY <1>1, <2>1, <2>2
<1>4. QED
  BY <1>1, <1>3 DEF Trail!Init, Readable

\* Every step of a command adds an entry, acknowledges one, or leaves the trail alone.
LEMMA TrailStep ==
  ASSUME TrailInv, TrailInv', [Next]_vars
  PROVE  [Trail!Next]_<<Entries, Readable>>
<1> USE DEF TrailInv, IInv, TypeOK
<1>1. ASSUME NEW p \in Proc,
             Start(p) \/ Acquire(p) \/ Refuse(p) \/ Prepare(p) \/ Abandon(p)
      PROVE  UNCHANGED <<Entries, Readable>>
  <2>1. UNCHANGED <<file, open, acked>>
    BY <1>1 DEF Start, Acquire, Refuse, Prepare, Abandon
  <2>2. QED
    BY <2>1 DEF Entries, Terminated, Readable, IsTorn
<1>2. ASSUME NEW p \in Proc, Return(p)
      PROVE  Trail!Acknowledge \/ UNCHANGED <<Entries, Readable>>
  <2>1. UNCHANGED <<file, open>> /\ acked' = acked \cup {rec[p]}
    BY <1>2 DEF Return
  <2>2. Entries' = Entries
    BY <2>1 DEF Entries, Terminated, IsTorn
  <2>3. CASE \E i \in 1..Len(Entries) : Entries[i] = rec[p]
    <3>1. PICK i \in 1..Len(Entries) : Entries[i] = rec[p]
      BY <2>3
    <3>2. Readable' = Readable \cup {Entries[i]}
      BY <2>1, <2>2, <3>1 DEF Readable
    <3>3. QED
      BY <2>2, <3>2 DEF Trail!Acknowledge
  <2>4. CASE ~ \E i \in 1..Len(Entries) : Entries[i] = rec[p]
    BY <2>1, <2>2, <2>4 DEF Readable
  <2>5. QED
    BY <2>3, <2>4
<1>3. ASSUME NEW p \in Proc, WriteAll(p) \/ WritePart(p)
      PROVE  Trail!Record \/ UNCHANGED <<Entries, Readable>>
  <2>1. pc[p] = "writing" /\ acked' = acked /\ CleanTo(file, Len(file)) /\ ~Malformed(file)
    BY <1>3, CleanIsNotMalformed DEF WriteAll, WritePart, PreparedFollowsTail
  <2>2. PICK line : file' = Landed(line) /\ (WriteAll(p) => line = rec[p])
    BY <1>3 DEF WriteAll, WritePart
  <2>3. CASE open
    <3>1. /\ file # << >> /\ file' = [file EXCEPT ![Len(file)] = TornLine(line.text)]
      BY <2>2, <2>3 DEF Landed, OpenHasLine
    <3>2. PICK m \in Nat : m = Len(file) - 1
      BY <3>1
    <3>3. /\ Len(file') = Len(file) /\ IsTorn(file'[Len(file')])
          /\ \A i \in 1..m : file'[i] = file[i]
      BY <3>1, <3>2 DEF TornLine, IsTorn
    <3>4. CleanTo(file, m) /\ CleanTo(file', m)
      BY <2>1, <3>2, <3>3 DEF CleanTo
    <3>5. Entries = SubSeq(file, 1, m)
      BY <2>3, <3>2, <3>4, EntriesNow, OpenEntries
    <3>6. Entries' = SubSeq(file', 1, m)
      <4>1. CASE open'
        BY <3>2, <3>3, <3>4, <4>1, EntriesNow, OpenEntries
      <4>2. CASE ~open'
        BY <3>2, <3>3, <4>2, EntriesNow, DamagedEntries
      <4>3. QED
        BY <4>1, <4>2
    <3>7. m <= Len(file) /\ m <= Len(file')
      BY <3>2, <3>3
    <3>8. QED
      BY <2>1, <3>3, <3>5, <3>6, <3>7, WriteStutters
  <2>4. CASE ~open
    <3>1. file' = Append(file, line)
      BY <2>2, <2>4 DEF Landed
    <3>2. PICK m \in Nat : m = Len(file)
      OBVIOUS
    <3>3. Len(file') = m + 1 /\ \A i \in 1..m : file'[i] = file[i]
      BY <3>1, <3>2
    <3>4. Entries = SubSeq(file, 1, m)
      <4>1. Entries = file
        BY <2>1, <2>4, EntriesNow, CleanEntries
      <4>2. QED
        BY <3>2, <4>1
    <3>5. CASE WriteAll(p)
      <4>1. open' = FALSE /\ file'[m + 1] = rec[p] /\ rec[p].kind = "record"
        <5>1. rec[p].kind = "record"
          BY <2>1 DEF PreparedFollowsTail, Record
        <5>2. QED
          <6>1. open' = FALSE /\ line = rec[p] /\ rec[p] \in Line
            BY <2>2, <3>5 DEF WriteAll
          <6>2. QED
            BY <3>1, <3>2, <5>1, <6>1
      <4>2. CleanTo(file', m + 1)
        BY <2>1, <3>2, <3>3, <4>1 DEF CleanTo, IsTorn
      <4>4. Entries' = file'
        BY <3>3, <4>1, <4>2, EntriesNow, CleanEntries
      <4>5. \A r \in acked : HeldIn(file, m, r)
        BY <2>1, <3>2 DEF AckInv, LossIsNoticed, HeldIn
      <4>6. QED
        BY <2>1, <3>2, <3>3, <3>4, <4>4, <4>5, WriteRecords
    <3>6. CASE WritePart(p)
      <4>1. open' = TRUE /\ CleanTo(file', m)
        BY <2>1, <3>2, <3>3, <3>6 DEF WritePart, CleanTo
      <4>2. Entries' = SubSeq(file', 1, m)
        <5>1. m = Len(file') - 1 /\ EntriesOf(file', open') = EntriesOf(file', TRUE)
          BY <3>2, <3>3, <4>1
        <5>2. QED
          BY <4>1, <5>1, EntriesNow, OpenEntries
      <4>3. QED
        BY <2>1, <3>2, <3>3, <3>4, <4>2, WriteStutters
    <3>7. QED
      BY <1>3, <3>5, <3>6
  <2>5. QED
    BY <2>3, <2>4
<1>4. ASSUME NEW p \in Proc, WriteRest(p)
      PROVE  Trail!Record \/ UNCHANGED <<Entries, Readable>>
  <2>1. /\ pc[p] = "partial" /\ open /\ ~open' /\ acked' = acked
        /\ file # << >> /\ CleanTo(file, Len(file) - 1)
    BY <1>4 DEF WriteRest, PartIsOpen, HalfWritten
  <2>2. PICK m \in Nat : m = Len(file) - 1
    BY <2>1
  <2>3. Entries = SubSeq(file, 1, m)
    BY <2>1, <2>2, EntriesNow, OpenEntries
  <2>4. CASE onto[p]
    <3>1. file' = file /\ IsTorn(file'[Len(file')])
      BY <1>4, <2>1, <2>4 DEF WriteRest, HalfWritten
    <3>2. Entries' = SubSeq(file', 1, m)
      BY <2>1, <2>2, <3>1, EntriesNow, DamagedEntries
    <3>3. QED
      BY <2>1, <2>2, <2>3, <3>1, <3>2, WriteStutters
  <2>5. CASE ~onto[p]
    <3>1. file' = [file EXCEPT ![Len(file)] = rec[p]]
      BY <1>4, <2>5 DEF WriteRest
    <3>2. Len(file') = m + 1 /\ file'[m + 1] = rec[p] /\ \A i \in 1..m : file'[i] = file[i]
      BY <2>2, <3>1
    <3>3. rec[p].kind = "record"
      BY <2>1, <2>5 DEF HalfWritten, Record
    <3>4. CleanTo(file', m + 1)
      BY <2>1, <2>2, <3>2, <3>3 DEF CleanTo, IsTorn
    <3>6. Entries' = file'
      BY <2>1, <3>2, <3>4, EntriesNow, CleanEntries
    <3>7. \A r \in acked : HeldIn(file, m, r)
      BY <2>1, <2>2, <2>5 DEF AckInv, AckedAbovePart
    <3>8. QED
      BY <2>1, <2>2, <2>3, <3>2, <3>6, <3>7, WriteRecords
  <2>6. QED
    BY <2>4, <2>5
<1>5. CASE UNCHANGED vars
  BY <1>5 DEF vars, Entries, Terminated, Readable, IsTorn
<1>6. QED
  BY <1>1, <1>2, <1>3, <1>4, <1>5 DEF Next, Progress, Trail!Next

-----------------------------------------------------------------------------
(* Edits by others (AuditEdits).  An edit may change what a line says, and    *)
(* where it is, but not the two hashes it carries: every record in the log    *)
(* has those of one that was written, and one that was written onto another   *)
(* names a record written before it.                                          *)

Same(a, b) == a.kind = b.kind /\ a.prev = b.prev /\ a.hash = b.hash

Genuine == \A i \in 1..Len(file) : file[i].kind = "record" =>
             \E n \in 1..Len(written) : Same(file[i], written[n])

IsEntryHash(d) == \E t \in Text, e \in Digest : d = EntryHash(t, e)
IsRecord(r) == \E t \in Text, e \in Digest : r = Record(t, e)

\* If a digest is a record's hash at all, it is the one of a record written by then.
Anchored(d, n) == IsEntryHash(d) => \E m \in 1..n : written[m].hash = d

Chained == \A n \in 1..Len(written) :
             IsRecord(written[n]) /\ Anchored(written[n].prev, n - 1)

Pending == \A p \in Proc : pc[p] \in {"writing", "partial"} =>
             IsRecord(rec[p]) /\ Anchored(rec[p].prev, Len(written))

EditInv == TypeOK /\ written \in Seq(Line) /\ Genuine /\ Chained /\ Pending

\* A digest determines the content it ends in and the digest it was made from.
LEMMA HashInjective ==
  ASSUME NEW s \in Text, NEW t \in Text, NEW d \in Digest, NEW e \in Digest,
         EntryHash(s, d) = EntryHash(t, e)
  PROVE  s = t /\ d = e
<1>1. d \in Seq({"entry", "raw"} \X Text) /\ e \in Seq({"entry", "raw"} \X Text)
  BY DEF Digest
<1>2. PICK x \in {"entry", "raw"} \X Text : x = <<"entry", s>>
  OBVIOUS
<1>3. PICK y \in {"entry", "raw"} \X Text : y = <<"entry", t>>
  OBVIOUS
<1>4. Append(d, x) = Append(e, y)
  BY <1>2, <1>3 DEF EntryHash
<1>5. d = e /\ x = y
  BY <1>1, <1>4, AppendInjective
<1>6. QED
  BY <1>2, <1>3, <1>5

\* The digest of an unhashed line, or of no line, is no record's hash.
LEMMA RawIsNoEntry ==
  ASSUME NEW line \in Line
  PROVE  ~IsEntryHash(RawHash(line)) /\ ~IsEntryHash(NoDigest)
<1> SUFFICES ASSUME NEW t \in Text, NEW e \in Digest
             PROVE  RawHash(line) # EntryHash(t, e) /\ NoDigest # EntryHash(t, e)
  BY DEF IsEntryHash
<1>1. e \in Seq({"entry", "raw"} \X Text) /\ <<"entry", t>> \in {"entry", "raw"} \X Text
  BY DEF Digest
<1>2. PICK h : h = EntryHash(t, e)
  OBVIOUS
<1>3. Len(h) = Len(e) + 1 /\ h[Len(h)] = <<"entry", t>> /\ Len(e) \in Nat
  BY <1>1, <1>2 DEF EntryHash
<1>4. h # NoDigest
  BY <1>3 DEF NoDigest
<1>5. ASSUME h = RawHash(line) PROVE FALSE
  <2>1. Len(h) = 1 /\ h[1] = <<"raw", line.text>>
    BY <1>5 DEF RawHash
  <2>2. <<"entry", t>> = <<"raw", line.text>>
    BY <1>3, <2>1
  <2>3. QED
    BY <2>2
<1>6. QED
  BY <1>2, <1>4, <1>5

\* A record that matches its hash is the written one whose hashes it carries.
LEMMA SameIsEqual ==
  ASSUME NEW line \in Line, NEW r, IsRecord(r), Same(line, r), HashMatches(line)
  PROVE  line = r
<1>1. PICK t \in Text, e \in Digest : r = Record(t, e)
  BY DEF IsRecord
<1>2. /\ r.kind = "record" /\ r.text = t /\ r.prev = e /\ r.hash = EntryHash(t, e)
      /\ r = [kind |-> "record", text |-> t, prev |-> e, hash |-> EntryHash(t, e)]
  BY <1>1 DEF Record
<1>3. line.text \in Text /\ line.hash = EntryHash(line.text, e)
  BY <1>2 DEF Line, Same, HashMatches
<1>4. line.text = t
  BY <1>2, <1>3, HashInjective DEF Same
<1>5. line = [kind |-> line.kind, text |-> line.text, prev |-> line.prev, hash |-> line.hash]
  BY DEF Line
<1>6. QED
  BY <1>2, <1>4, <1>5 DEF Same

\* Two records with the same hash are the same record.
LEMMA HashIdentifies ==
  ASSUME NEW a, NEW b, IsRecord(a), IsRecord(b), a.hash = b.hash
  PROVE  a = b
<1>1. PICK s \in Text, d \in Digest : a = Record(s, d)
  BY DEF IsRecord
<1>2. PICK t \in Text, e \in Digest : b = Record(t, e)
  BY DEF IsRecord
<1>3. a.hash = EntryHash(s, d) /\ b.hash = EntryHash(t, e)
  BY <1>1, <1>2 DEF Record
<1>4. s = t /\ d = e
  BY <1>3, HashInjective
<1>5. QED
  BY <1>1, <1>2, <1>4

\* What the next append chains to: nothing, an unhashed line, or a written record.
LEMMA TailAnchored ==
  ASSUME EditInv
  PROVE  TailDigest(file) \in Digest /\ Anchored(TailDigest(file), Len(written))
<1>1. file \in Seq(Line)
  BY DEF EditInv, TypeOK
<1>2. TailDigest(file) \in Digest
  BY <1>1, TailDigestIs, DigestType
<1>3. CASE file = << >>
  <2>1. TailDigest(file) = NoDigest /\ \E line : line \in Line
    BY <1>3, TextAssumption, TornType DEF TailDigest
  <2>2. QED
    BY <1>2, <2>1, RawIsNoEntry DEF Anchored
<1>4. CASE file # << >>
  <2>1. PICK last \in Line : last = file[Len(file)]
    BY <1>1, <1>4
  <2>2. CASE last.kind = "record"
    <3>1. PICK n \in 1..Len(written) : Same(last, written[n])
      BY <1>1, <1>4, <2>1, <2>2 DEF EditInv, Genuine
    <3>2. TailDigest(file) = written[n].hash
      BY <1>4, <2>1, <2>2, <3>1 DEF TailDigest, Same
    <3>3. QED
      BY <1>2, <3>2 DEF Anchored
  <2>3. CASE last.kind # "record"
    <3>1. TailDigest(file) = RawHash(last)
      BY <1>4, <2>1, <2>3 DEF TailDigest
    <3>2. QED
      BY <1>2, <2>1, <3>1, RawIsNoEntry DEF Anchored
  <2>4. QED
    BY <2>2, <2>3
<1>5. QED
  BY <1>3, <1>4

\* What was written stays written.
LEMMA AnchoredStays ==
  ASSUME NEW w, NEW d, NEW n \in Nat, Anchored(d, n), n <= Len(written),
         written \in Seq(Line), w \in Seq(Line), Len(w) >= Len(written),
         \A m \in 1..Len(written) : w[m] = written[m], written' = w,
         NEW k \in Nat, n <= k
  PROVE  Anchored(d, k)'
<1>1. ASSUME NEW m \in 1..n PROVE m \in 1..k /\ w[m] = written[m]
  OBVIOUS
<1>2. QED
  BY <1>1 DEF Anchored

\* Steps that leave the log alone and prepare only what is anchored.
LEMMA EditQuiet ==
  ASSUME EditInv, TypeOK', file' = file, written' = written,
         \A p \in Proc : pc'[p] \in {"writing", "partial"} =>
           \/ pc[p] \in {"writing", "partial"} /\ rec'[p] = rec[p]
           \/ IsRecord(rec'[p]) /\ Anchored(rec'[p].prev, Len(written))
  PROVE  EditInv'
<1>1. Genuine' /\ Chained' /\ written' \in Seq(Line)
  BY DEF EditInv, Genuine, Chained, Anchored
<1>2. ASSUME NEW p \in Proc, pc'[p] \in {"writing", "partial"}
      PROVE  IsRecord(rec'[p]) /\ Anchored(rec'[p].prev, Len(written))
  BY <1>2 DEF EditInv, Pending
<1>3. Pending'
  BY <1>2 DEF Pending, Anchored
<1>4. QED
  BY <1>1, <1>3 DEF EditInv

\* A write changes the last line of the log or adds one; the new one is the writer's
\* record, or no record.
LEMMA EditWrite ==
  ASSUME EditInv, NEW p \in Proc, pc[p] \in {"writing", "partial"}, TypeOK', rec' = rec,
         \A q \in Proc : q # p => pc'[q] = pc[q],
         file' # file => /\ Len(file') \in Nat \ {0}
                         /\ file'[Len(file')].kind = "record" => file'[Len(file')] = rec[p]
                         /\ \A i \in 1..(Len(file') - 1) : i \in 1..Len(file) /\ file'[i] = file[i],
         written' = IF file' # file /\ file'[Len(file')].kind = "record"
                    THEN Append(written, file'[Len(file')]) ELSE written
  PROVE  EditInv'
<1>1. PICK r \in Line : r = rec[p]
  BY DEF EditInv, TypeOK
<1>2. IsRecord(r) /\ Anchored(r.prev, Len(written))
  BY <1>1 DEF EditInv, Pending
<1>3. PICK w : w = written'
  OBVIOUS
<1>4. written \in Seq(Line) /\ Len(written) \in Nat
  BY DEF EditInv
<1>5. w = written \/ w = Append(written, r)
  BY <1>1, <1>3
<1>6. /\ w \in Seq(Line) /\ Len(w) >= Len(written) /\ Len(w) \in Nat
      /\ \A m \in 1..Len(written) : w[m] = written[m]
      /\ \A m \in 1..Len(w) : m \in 1..Len(written) \/ (m = Len(written) + 1 /\ w[m] = r)
  <2>1. CASE w = written
    BY <1>4, <2>1
  <2>2. CASE w = Append(written, r)
    BY <1>4, <2>2
  <2>3. QED
    BY <1>5, <2>1, <2>2
<1>7. \A d : \A n \in 0..Len(written) : Anchored(d, n) => Anchored(d, n)' /\ Anchored(d, Len(w))'
  <2> SUFFICES ASSUME NEW d, NEW n \in 0..Len(written), Anchored(d, n)
               PROVE  Anchored(d, n)' /\ Anchored(d, Len(w))'
    OBVIOUS
  <2>1. n \in Nat /\ n <= Len(written) /\ n <= n /\ n <= Len(w) /\ written' = w
    BY <1>3, <1>4, <1>6
  <2>2. Anchored(d, n)'
    BY <1>4, <1>6, <2>1, AnchoredStays
  <2>3. Anchored(d, Len(w))'
    BY <1>4, <1>6, <2>1, AnchoredStays
  <2>4. QED
    BY <2>2, <2>3
<1>8. Chained'
  <2> SUFFICES ASSUME NEW n \in 1..Len(w) PROVE IsRecord(w[n]) /\ Anchored(w[n].prev, n - 1)'
    BY <1>3 DEF Chained, Anchored
  <2>1. CASE n \in 1..Len(written)
    BY <1>4, <1>6, <1>7, <2>1 DEF EditInv, Chained
  <2>2. CASE n = Len(written) + 1 /\ w[n] = r
    BY <1>2, <1>4, <1>7, <2>2
  <2>3. QED
    BY <1>6, <2>1, <2>2
<1>9. Pending'
  <2> SUFFICES ASSUME NEW q \in Proc, pc'[q] \in {"writing", "partial"}
               PROVE  IsRecord(rec[q]) /\ Anchored(rec[q].prev, Len(w))'
    BY <1>3 DEF Pending, Anchored
  <2>1. IsRecord(rec[q]) /\ Anchored(rec[q].prev, Len(written))
    BY <1>1, <1>2 DEF EditInv, Pending
  <2>2. QED
    BY <1>4, <1>7, <2>1
<1>10. Genuine'
  <2> SUFFICES ASSUME NEW i \in 1..Len(file'), file'[i].kind = "record"
               PROVE  \E n \in 1..Len(w) : Same(file'[i], w[n])
    BY <1>3 DEF Genuine, Same
  <2>1. CASE i \in 1..Len(file) /\ file'[i] = file[i]
    <3>1. PICK n \in 1..Len(written) : Same(file[i], written[n])
      BY <2>1 DEF EditInv, Genuine
    <3>2. n \in 1..Len(w) /\ w[n] = written[n]
      BY <1>4, <1>6
    <3>3. QED
      BY <2>1, <3>1, <3>2
  <2>2. CASE file' # file /\ i = Len(file')
    <3>1. file'[i] = r /\ w = Append(written, r)
      BY <1>1, <1>3, <2>2
    <3>2. Len(written) + 1 \in 1..Len(w) /\ w[Len(written) + 1] = r
      BY <1>4, <3>1
    <3>3. QED
      BY <3>1, <3>2 DEF Same
  <2>3. QED
    BY <2>1, <2>2
<1>11. QED
  BY <1>3, <1>6, <1>8, <1>9, <1>10 DEF EditInv

\* Whatever is done to the lines, each keeps the hashes it carries.
LEMMA EditKeeps ==
  ASSUME EditInv, NEW lines \in Seq(Line), Edit(lines),
         \A i \in 1..Len(lines) : \E j \in 1..Len(file) : Same(lines[i], file[j])
  PROVE  EditInv'
<1>1. /\ file' = lines /\ open' \in BOOLEAN
      /\ UNCHANGED <<lock, pc, rec, onto, commands, acked, written>>
  BY DEF Edit
<1>2. TypeOK'
  BY <1>1 DEF EditInv, TypeOK
<1>3. Genuine'
  <2> SUFFICES ASSUME NEW i \in 1..Len(lines), lines[i].kind = "record"
               PROVE  \E n \in 1..Len(written) : Same(lines[i], written[n])
    BY <1>1 DEF Genuine, Same
  <2>1. PICK j \in 1..Len(file) : Same(lines[i], file[j])
    OBVIOUS
  <2>2. PICK n \in 1..Len(written) : Same(file[j], written[n])
    BY <2>1 DEF EditInv, Genuine, Same
  <2>3. QED
    BY <2>1, <2>2 DEF Same
<1>4. Chained' /\ Pending' /\ written' \in Seq(Line)
  BY <1>1 DEF EditInv, Chained, Pending, Anchored
<1>5. QED
  BY <1>2, <1>3, <1>4 DEF EditInv

\* A log put together from lines of the old one.
LEMMA Rearranged ==
  ASSUME EditInv, NEW n \in Nat, NEW lines, lines \in [1..n -> Line], Edit(lines),
         \A i \in 1..n : \E j \in 1..Len(file) : lines[i] = file[j]
  PROVE  EditInv'
<1>1. lines \in Seq(Line)
  BY SeqDef
<1>2. 1..Len(lines) = 1..n
  BY <1>1
<1>3. \A i \in 1..Len(lines) : \E j \in 1..Len(file) : Same(lines[i], file[j])
  BY <1>2 DEF Same
<1>4. QED
  BY <1>1, <1>3, EditKeeps

\* Changing what a line says leaves its kind and its hashes alone.
LEMMA AlteredIs ==
  ASSUME NEW c \in Line, NEW t \in Text
  PROVE  [c EXCEPT !.text = t] \in Line /\ Same([c EXCEPT !.text = t], c)
<1>1. PICK d : d = [c EXCEPT !.text = t]
  OBVIOUS
<1>2. d \in Line /\ Same(d, c)
  BY <1>1 DEF Line, Same
<1>3. QED
  BY <1>1, <1>2

\* One line in place of another.
LEMMA Put ==
  ASSUME NEW lines \in Seq(Line), NEW n \in 1..Len(lines), NEW line \in Line, NEW new, new = [lines EXCEPT ![n] = line]
  PROVE  new \in Seq(Line) /\ Len(new) = Len(lines) /\ \A k \in 1..Len(lines) : new[k] = IF k = n THEN line ELSE lines[k]
BY ExceptSeq

LEMMA EditStep ==
  ASSUME EditInv, Alter \/ Delete \/ Exchange \/ Copy
  PROVE  EditInv'
<1>1. file \in Seq(Line) /\ Len(file) \in Nat /\ \A i \in 1..Len(file) : file[i] \in Line
  BY DEF EditInv, TypeOK
<1>2. CASE Alter
  <2>1. PICK i \in 1..Len(file), t \in Text : Edit([file EXCEPT ![i].text = t])
    BY <1>2 DEF Alter
  <2>2. PICK lines : lines = [file EXCEPT ![i].text = t]
    OBVIOUS
  <2>3. PICK c \in Line : c = [file[i] EXCEPT !.text = t] /\ Same(c, file[i])
    BY <1>1, AlteredIs
  <2>4. lines = [file EXCEPT ![i] = c]
    BY <2>2, <2>3
  <2>5. lines \in Seq(Line) /\ Len(lines) = Len(file)
        /\ \A k \in 1..Len(file) : lines[k] = IF k = i THEN c ELSE file[k]
    BY <1>1, <2>4, Put
  <2>6. \A k \in 1..Len(lines) : \E j \in 1..Len(file) : Same(lines[k], file[j])
    BY <2>3, <2>5 DEF Same
  <2>7. QED
    BY <2>1, <2>2, <2>5, <2>6, EditKeeps
<1>3. CASE Delete
  <2>1. PICK i \in 1..Len(file) :
          Edit([j \in 1..(Len(file) - 1) |-> file[IF j < i THEN j ELSE j + 1]])
    BY <1>3 DEF Delete
  <2>2. PICK lines : lines = [j \in 1..(Len(file) - 1) |-> file[IF j < i THEN j ELSE j + 1]]
    OBVIOUS
  <2>3. PICK n \in Nat : n = Len(file) - 1
    <3>1. Len(file) # 0
      BY <1>1, <1>3 DEF Delete
    <3>2. QED
      BY <1>1, <3>1
  <2>4. \A k \in 1..n : \E j \in 1..Len(file) : lines[k] = file[j]
    BY <1>1, <2>2, <2>3
  <2>5. lines \in [1..n -> Line]
    BY <1>1, <2>2, <2>3
  <2>6. QED
    BY <2>1, <2>2, <2>4, <2>5, Rearranged
<1>4. CASE Exchange
  <2>1. PICK i \in 1..(Len(file) - 1) :
          Edit([file EXCEPT ![i] = file[i + 1], ![i + 1] = file[i]])
    BY <1>4 DEF Exchange
  <2>2. PICK lines : lines = [file EXCEPT ![i] = file[i + 1], ![i + 1] = file[i]]
    OBVIOUS
  <2>3. PICK first : first = [file EXCEPT ![i] = file[i + 1]]
    OBVIOUS
  <2>4. first \in Seq(Line) /\ Len(first) = Len(file)
        /\ \A k \in 1..Len(file) : \E j \in 1..Len(file) : first[k] = file[j]
    <3>1. i \in 1..Len(file) /\ i + 1 \in 1..Len(file) /\ file[i + 1] \in Line
      BY <1>1
    <3>2. first \in Seq(Line) /\ Len(first) = Len(file)
          /\ \A k \in 1..Len(file) : first[k] = IF k = i THEN file[i + 1] ELSE file[k]
      BY <1>1, <2>3, <3>1, Put
    <3>3. QED
      BY <3>1, <3>2
  <2>5. lines = [first EXCEPT ![i + 1] = file[i]]
    BY <2>2, <2>3
  <2>6. lines \in Seq(Line) /\ Len(lines) = Len(file)
        /\ \A k \in 1..Len(file) : \E j \in 1..Len(file) : lines[k] = file[j]
    <3>1. i \in 1..Len(file) /\ i + 1 \in 1..Len(file) /\ file[i] \in Line
      BY <1>1
    <3>2. PICK n \in 1..Len(first), line \in Line : n = i + 1 /\ line = file[i]
      BY <2>4, <3>1
    <3>3. lines = [first EXCEPT ![n] = line] /\ first \in Seq(Line)
      BY <2>4, <2>5, <3>2
    <3>4. lines \in Seq(Line) /\ Len(lines) = Len(first)
          /\ \A k \in 1..Len(first) : lines[k] = IF k = n THEN line ELSE first[k]
      BY <3>3, Put
    <3>5. QED
      BY <2>4, <3>1, <3>2, <3>4
  <2>7. \A k \in 1..Len(lines) : \E j \in 1..Len(file) : Same(lines[k], file[j])
    BY <2>6 DEF Same
  <2>8. QED
    BY <2>1, <2>2, <2>6, <2>7, EditKeeps
<1>5. CASE Copy
  <2>1. PICK i \in 1..Len(file), k \in 0..Len(file) :
          Edit([j \in 1..(Len(file) + 1) |->
                  IF j <= k THEN file[j] ELSE IF j = k + 1 THEN file[i] ELSE file[j - 1]])
    BY <1>5 DEF Copy
  <2>2. PICK lines : lines = [j \in 1..(Len(file) + 1) |->
                  IF j <= k THEN file[j] ELSE IF j = k + 1 THEN file[i] ELSE file[j - 1]]
    OBVIOUS
  <2>3. PICK n \in Nat : n = Len(file) + 1
    BY <1>1
  <2>4. \A m \in 1..n : \E j \in 1..Len(file) : lines[m] = file[j]
    BY <1>1, <2>2, <2>3
  <2>5. lines \in [1..n -> Line]
    BY <1>1, <2>2, <2>3
  <2>6. QED
    BY <2>1, <2>2, <2>4, <2>5, Rearranged
<1>6. QED
  BY <1>2, <1>3, <1>4, <1>5

LEMMA EmptyStays ==
  ASSUME NEW line, file = << >>
  PROVE  [file EXCEPT ![Len(file)] = line] = file
<1>1. PICK lines : lines = [file EXCEPT ![Len(file)] = line]
  OBVIOUS
<1>2. DOMAIN file = {} /\ file \in [{} -> {}]
  OBVIOUS
<1>3. lines \in [{} -> {}]
  BY <1>1, <1>2
<1>4. QED
  BY <1>1, <1>2, <1>3

\* What a write does to the lines of the log.
LEMMA Lands ==
  ASSUME NEW line \in Line, file \in Seq(Line), file' = Landed(line)
  PROVE  /\ file' \in Seq(Line)
         /\ file' # file => /\ Len(file') \in Nat \ {0}
                            /\ file'[Len(file')].kind = "record" => file'[Len(file')] = line
                            /\ \A i \in 1..(Len(file') - 1) : i \in 1..Len(file) /\ file'[i] = file[i]
<1>1. CASE open
  <2>1. PICK torn \in Line : torn = TornLine(line.text)
    BY TornType DEF Line
  <2>2. torn.kind = "torn" /\ file' = [file EXCEPT ![Len(file)] = torn]
    BY <1>1, <2>1 DEF Landed, TornLine
  <2>3. CASE file = << >>
    BY <2>2, <2>3, EmptyStays
  <2>4. CASE file # << >>
    BY <2>2, <2>4
  <2>5. QED
    BY <2>3, <2>4
<1>2. CASE ~open
  BY <1>2 DEF Landed
<1>3. QED
  BY <1>1, <1>2

LEMMA CommandKeeps ==
  ASSUME EditInv, CommandStep
  PROVE  EditInv'
<1> USE DEF EditInv, TypeOK
<1>1. written' = IF file' # file /\ file'[Len(file')].kind = "record"
                 THEN Append(written, file'[Len(file')]) ELSE written
  BY DEF CommandStep
<1>2. ASSUME NEW p \in Proc, Start(p) \/ Acquire(p) \/ Refuse(p) \/ Return(p) \/ Abandon(p)
      PROVE  EditInv'
  <2>1. file' = file /\ written' = written
    BY <1>1, <1>2 DEF Start, Acquire, Refuse, Return, Abandon
  <2>2. TypeOK'
    BY <1>2 DEF Start, Acquire, Refuse, Return, Abandon
  <2>3. \A q \in Proc : pc'[q] \in {"writing", "partial"} =>
          pc[q] \in {"writing", "partial"} /\ rec'[q] = rec[q]
    BY <1>2 DEF Start, Acquire, Refuse, Return, Abandon
  <2>4. QED
    BY <2>1, <2>2, <2>3, EditQuiet
<1>3. ASSUME NEW p \in Proc, Prepare(p) PROVE EditInv'
  <2>1. PICK t \in Text : rec' = [rec EXCEPT ![p] = Record(t, TailDigest(file))]
    BY <1>3 DEF Prepare
  <2>2. TailDigest(file) \in Digest /\ Anchored(TailDigest(file), Len(written))
    BY TailAnchored
  <2>3. file' = file /\ written' = written
    BY <1>1, <1>3 DEF Prepare
  <2>4. rec' \in [Proc -> Line]
    BY <2>1, <2>2, LineTypes
  <2>5. TypeOK'
    BY <1>3, <2>4 DEF Prepare
  <2>6. IsRecord(rec'[p]) /\ rec'[p].prev = TailDigest(file)
    <3>1. rec'[p] = Record(t, TailDigest(file))
      BY <2>1
    <3>2. QED
      BY <2>2, <3>1 DEF IsRecord, Record
  <2>7. \A q \in Proc : q # p => rec'[q] = rec[q] /\ pc'[q] = pc[q]
    BY <1>3, <2>1 DEF Prepare
  <2>8. QED
    BY <2>2, <2>3, <2>5, <2>6, <2>7, EditQuiet
<1>4. ASSUME NEW p \in Proc, WriteAll(p) \/ WritePart(p) PROVE EditInv'
  <2>1. /\ pc[p] = "writing" /\ rec' = rec /\ UNCHANGED <<lock, onto, commands, acked>>
        /\ pc' \in {[pc EXCEPT ![p] = "closing"], [pc EXCEPT ![p] = "partial"]}
        /\ open' \in BOOLEAN
    BY <1>4 DEF WriteAll, WritePart
  <2>2. PICK r \in Line : r = rec[p]
    OBVIOUS
  <2>3. TornLine(r.text) \in Line /\ TornLine(r.text).kind = "torn"
    BY TornType DEF Line, TornLine
  <2>4. PICK line \in {r, TornLine(r.text)} : file' = Landed(line)
    BY <1>4, <2>2 DEF WriteAll, WritePart
  <2>5. line \in Line /\ (line.kind = "record" => line = r)
    BY <2>3, <2>4
  <2>6. /\ file' \in Seq(Line)
        /\ file' # file => /\ Len(file') \in Nat \ {0}
                           /\ file'[Len(file')].kind = "record" => file'[Len(file')] = rec[p]
                           /\ \A i \in 1..(Len(file') - 1) : i \in 1..Len(file) /\ file'[i] = file[i]
    BY <2>2, <2>4, <2>5, Lands
  <2>7. TypeOK' /\ \A q \in Proc : q # p => pc'[q] = pc[q]
    BY <2>1, <2>6
  <2>8. QED
    BY <1>1, <2>1, <2>6, <2>7, EditWrite
<1>5. ASSUME NEW p \in Proc, WriteRest(p) PROVE EditInv'
  <2>1. /\ pc[p] = "partial" /\ rec' = rec /\ UNCHANGED <<lock, onto, commands, acked>>
        /\ pc' = [pc EXCEPT ![p] = "closing"] /\ open' \in BOOLEAN
        /\ file' = file \/ file' = [file EXCEPT ![Len(file)] = rec[p]]
    BY <1>5 DEF WriteRest
  <2>2. /\ file' \in Seq(Line)
        /\ file' # file => /\ Len(file') \in Nat \ {0}
                           /\ file'[Len(file')].kind = "record" => file'[Len(file')] = rec[p]
                           /\ \A i \in 1..(Len(file') - 1) : i \in 1..Len(file) /\ file'[i] = file[i]
    <3>1. CASE file = << >>
      BY <2>1, <3>1, EmptyStays
    <3>2. CASE file # << >>
      BY <2>1, <3>2
    <3>3. QED
      BY <3>1, <3>2
  <2>3. TypeOK' /\ \A q \in Proc : q # p => pc'[q] = pc[q]
    BY <2>1, <2>2
  <2>4. QED
    BY <1>1, <2>1, <2>2, <2>3, EditWrite
<1>6. QED
  BY <1>2, <1>3, <1>4, <1>5 DEF CommandStep, Next, Progress

LEMMA EditInvariance == EditSpec => []EditInv
<1>1. EditInit => EditInv
  <2> SUFFICES ASSUME EditInit PROVE EditInv
    OBVIOUS
  <2>1. TypeOK /\ \A i \in 1..Len(file) : file[i].kind = "legacy"
    <3>1. file \in Seq({LegacyLine(t) : t \in Text})
      BY HistoryAssumption DEF EditInit, Init
    <3>2. QED
      BY <3>1, IInvInit DEF EditInit, IInv, LegacyLine
  <2>2. written = << >> /\ \A p \in Proc : pc[p] = "idle"
    BY DEF EditInit, Init
  <2>3. QED
    BY <2>1, <2>2 DEF EditInv, Genuine, Chained, Pending
<1>2. EditInv /\ [EditNext]_editVars => EditInv'
  <2> SUFFICES ASSUME EditInv, [EditNext]_editVars PROVE EditInv'
    OBVIOUS
  <2>1. CASE UNCHANGED editVars
    <3>1. UNCHANGED <<file, open, lock, pc, rec, onto, commands, acked, written>>
      BY <2>1 DEF editVars, vars
    <3>2. TypeOK'
      BY <3>1 DEF EditInv, TypeOK
    <3>3. QED
      BY <3>1, <3>2, EditQuiet
  <2>2. QED
    BY <2>1, CommandKeeps, EditStep DEF EditNext
<1>3. QED
  BY <1>1, <1>2, PTL DEF EditSpec

\* A set of numbers has a least one.
LEMMA Least ==
  ASSUME NEW T, T \subseteq Nat, T # {}
  PROVE  \E m \in T : \A n \in T : m <= n
<1> DEFINE R == OpToRel(<, Nat)
<1>1. IsWellFoundedOn(R, Nat)
  BY NatLessThanWellFounded
<1>2. \A x, y \in Nat : <<y, x>> \in R <=> y < x
  BY DEF OpToRel
<1> HIDE DEF R
<1>3. PICK m \in T : \A n \in T : ~(<<n, m>> \in R)
  BY <1>1, WFMin
<1>4. m \in Nat /\ \A n \in T : n \in Nat /\ ~(n < m)
  BY <1>2, <1>3
<1>5. QED
  BY <1>3, <1>4

\* In a log of nothing but records each one names the record before it.
LEMMA NamesTheOneBefore ==
  ASSUME file \in Seq(Line), ChainHolds(file), \A i \in 1..Len(file) : file[i].kind = "record",
         NEW j \in 2..Len(file)
  PROVE  file[j].prev = file[j - 1].hash
<1>1. j \in 1..Len(file) /\ j - 1 \in 1..Len(file) /\ j - 1 \in 1..(j - 1)
  OBVIOUS
<1>2. PICK above : above = {k \in 1..(j - 1) : file[k].kind = "record"}
  OBVIOUS
<1>3. j - 1 \in above /\ \A k \in above : k <= j - 1 /\ k \in Nat
  BY <1>1, <1>2
<1>4. \/ above = {}
      \/ \E k \in above : (\A l \in above : l <= k) /\ file[j].prev = file[k].hash
      \/ file[j - 1].kind # "record"
  BY <1>1, <1>2 DEF ChainHolds, FollowsChain
<1>5. PICK k \in above : (\A l \in above : l <= k) /\ file[j].prev = file[k].hash
  BY <1>1, <1>3, <1>4
<1>6. k = j - 1
  BY <1>1, <1>3, <1>5
<1>7. QED
  BY <1>5, <1>6

\* Two records in a row were written in that order.
LEMMA OneBefore ==
  ASSUME EditInv, NEW k \in 1..Len(written), NEW line \in Line, IsRecord(line),
         written[k].prev = line.hash
  PROVE  \E m \in 1..(k - 1) : written[m] = line
<1>1. IsEntryHash(line.hash)
  BY DEF IsRecord, IsEntryHash, Record
<1>2. PICK m \in 1..(k - 1) : written[m].hash = line.hash
  BY <1>1 DEF EditInv, Chained, Anchored
<1>3. m \in 1..Len(written)
  BY DEF EditInv
<1>4. IsRecord(written[m])
  BY <1>3 DEF EditInv, Chained
<1>5. QED
  BY <1>2, <1>4, HashIdentifies

\* A record that matches its hash was written as it stands.
LEMMA GenuineRecords ==
  ASSUME EditInv, ChainHolds(file), NEW i \in 1..Len(file), file[i].kind = "record"
  PROVE  \E n \in 1..Len(written) : file[i] = written[n]
<1>1. PICK n \in 1..Len(written) : Same(file[i], written[n])
  BY DEF EditInv, Genuine
<1>2. IsRecord(written[n]) /\ HashMatches(file[i]) /\ file[i] \in Line
  BY DEF EditInv, TypeOK, Chained, ChainHolds
<1>3. QED
  BY <1>1, <1>2, SameIsEqual

\* ... and of two records anywhere in such a log the upper one was written first.
LEMMA InOrder ==
  ASSUME EditInv, ChainHolds(file), \A k \in 1..Len(file) : file[k].kind = "record",
         NEW i \in 1..Len(file), NEW j \in 1..Len(file), i < j,
         NEW n \in 1..Len(written), written[n] = file[j]
  PROVE  \E m \in 1..(n - 1) : written[m] = file[i]
<1> DEFINE Above(k) == \A l \in 1..Len(written) :
             written[l] = file[k] => \E m \in 1..(l - 1) : written[m] = file[i]
           Bad == {k \in (i + 1)..Len(file) : ~Above(k)}
<1>1. file \in Seq(Line) /\ Len(file) \in Nat /\ Len(written) \in Nat
  BY DEF EditInv, TypeOK
<1>2. \A k \in 1..Len(file) : file[k] \in Line /\ IsRecord(file[k])
  <2> SUFFICES ASSUME NEW k \in 1..Len(file) PROVE file[k] \in Line /\ IsRecord(file[k])
    OBVIOUS
  <2>1. PICK l \in 1..Len(written) : file[k] = written[l]
    BY GenuineRecords
  <2>2. QED
    BY <1>1, <2>1 DEF EditInv, Chained
<1>3. ASSUME NEW k \in (i + 1)..Len(file), k = i + 1 \/ Above(k - 1)
      PROVE  Above(k)
  <2> SUFFICES ASSUME NEW l \in 1..Len(written), written[l] = file[k]
               PROVE  \E m \in 1..(l - 1) : written[m] = file[i]
    OBVIOUS
  <2>1. k \in 2..Len(file) /\ k - 1 \in 1..Len(file)
    BY <1>1
  <2>2. file[k].prev = file[k - 1].hash
    BY <1>1, <2>1, NamesTheOneBefore
  <2>3. PICK m \in 1..(l - 1) : written[m] = file[k - 1]
    BY <1>2, <2>1, <2>2, OneBefore
  <2>4. CASE k = i + 1
    <3>1. k - 1 = i
      BY <1>1, <2>4
    <3>2. QED
      BY <2>3, <3>1
  <2>5. CASE k # i + 1
    <3>1. Above(k - 1) /\ m \in 1..Len(written)
      BY <1>1, <1>3, <2>5
    <3>2. PICK h \in 1..(m - 1) : written[h] = file[i]
      BY <2>3, <3>1
    <3>3. QED
      BY <1>1, <3>2
  <2>6. QED
    BY <2>4, <2>5
<1>4. Bad = {}
  <2> SUFFICES ASSUME Bad # {} PROVE FALSE
    OBVIOUS
  <2>1. Bad \subseteq Nat
    BY <1>1
  <2>2. PICK k \in Bad : \A l \in Bad : k <= l
    BY <2>1, Least
  <2>3. k \in (i + 1)..Len(file) /\ ~Above(k)
    OBVIOUS
  <2>4. CASE k = i + 1
    BY <1>3, <2>3, <2>4
  <2>5. CASE k # i + 1
    <3>1. k - 1 \in (i + 1)..Len(file) /\ ~(k <= k - 1)
      BY <1>1, <2>3, <2>5
    <3>2. Above(k - 1)
      BY <2>2, <3>1
    <3>3. QED
      BY <1>3, <2>3, <3>2
  <2>6. QED
    BY <2>4, <2>5
<1>5. j \in (i + 1)..Len(file)
  BY <1>1
<1>6. QED
  BY <1>4, <1>5

-----------------------------------------------------------------------------
(* Theorems *)

\* The inductive invariant: at most one process is past lock(), and what it is
\* about to write, or has half written, still follows the line it read.
THEOREM Invariance == Spec => []IInv
<1>1. QED
  BY IInvInit, IInvStep, PTL DEF Spec

\* Every variable keeps its type (the declarations of append_audit_entry).
THEOREM TypeCorrect == Spec => []TypeOK
<1>1. IInv => TypeOK
  BY DEF IInv
<1>2. QED
  BY <1>1, Invariance, PTL

\* However many commands append, fail or die in whatever order, every record that
\* can be read carries its own hash and names the line before it.
THEOREM ChainNeverBreaks == Spec => []ChainUnbroken
<1>1. IInv => ChainUnbroken
  BY DEF IInv
<1>2. QED
  BY <1>1, Invariance, PTL

\* A malformed line is never followed by another line.
THEOREM DamageStaysAtEnd == Spec => []DamageOnlyAtEnd
<1>1. IInv => DamageOnlyAtEnd
  BY DEF IInv
<1>2. QED
  BY <1>1, Invariance, PTL

\* An append that meets a malformed line is refused: unless somebody is in the
\* middle of writing a line, a log with such a line stays as it is.
THEOREM DamageStopsAppends == Spec => NoAppendAfterDamage
<1>1. IInv /\ [Next]_vars =>
        [Malformed(file) /\ (\A p \in Proc : pc[p] # "partial") => UNCHANGED file]_vars
  <2> SUFFICES ASSUME IInv, [Next]_vars, Malformed(file), \A p \in Proc : pc[p] # "partial"
               PROVE  file' = file
    OBVIOUS
  <2>1. ~CleanTo(file, Len(file))
    BY CleanIsNotMalformed DEF IInv, TypeOK
  <2>2. \A p \in Proc : pc[p] # "writing"
    BY <2>1 DEF IInv, PreparedFollowsTail
  <2>3. QED
    BY <2>2 DEF Next, Progress, Start, Acquire, Refuse, Prepare, WriteAll, WritePart,
                WriteRest, Return, Abandon, vars
<1>2. QED
  BY <1>1, Invariance, PTL DEF Spec, NoAppendAfterDamage

\* What was reported as recorded is in the log, or the log is malformed and the
\* next command and every report say so: an acknowledged record is never lost in
\* silence.
THEOREM LossNeverSilent == Spec => []LossIsNoticed
<1>1. Init => AckInv
  BY DEF Init, AckInv, LossIsNoticed, AckedAbovePart, WrittenOrDamaged
<1>2. AckInv => LossIsNoticed
  BY DEF AckInv
<1>3. QED
  BY <1>1, <1>2, AckInvStep, Invariance, PTL DEF Spec

\* The finished lines of the log are an append-only trail: they grow by one line at
\* their end, never change or shrink, and only such a line is acknowledged and readable.
THEOREM LogIsATrail == Spec => ImplementsTrail
<1>1. Init => TrailInv /\ Trail!Init
  BY IInvInit, TrailInit
  DEF Init, TrailInv, AckInv, LossIsNoticed, AckedAbovePart, WrittenOrDamaged, PartIsOpen
<1>2. TrailInv /\ [Next]_vars => TrailInv'
  BY IInvStep, AckInvStep, PartIsOpenStep DEF TrailInv
<1>3. TrailInv /\ TrailInv' /\ [Next]_vars => [Trail!Next]_<<Entries, Readable>>
  BY TrailStep
<1>4. QED
  BY <1>1, <1>2, <1>3, PTL DEF Spec, ImplementsTrail, Trail!Spec

\* A log the report calls verified is a part of the history, in the order of the
\* history, whatever was altered, deleted, moved or copied.
THEOREM VerifiedIsGenuine == EditSpec => []VerifiedIsHistory
<1>1. EditInv => VerifiedIsHistory
  <2> SUFFICES ASSUME EditInv, "verified" \in Integrity(file),
                      NEW i \in 1..Len(file), NEW j \in 1..Len(file), i <= j
               PROVE  \E m, n \in 1..Len(written) :
                        (i < j => m < n) /\ file[i] = written[m] /\ file[j] = written[n]
    BY DEF VerifiedIsHistory
  <2>1. ChainHolds(file) /\ \A k \in 1..Len(file) : file[k].kind # "torn" /\ file[k].kind # "legacy"
    BY DEF Integrity, Malformed, IsTorn
  <2>2. \A k \in 1..Len(file) : file[k].kind = "record"
    <3>1. \A k \in 1..Len(file) : file[k] \in Line
      BY DEF EditInv, TypeOK
    <3>2. QED
      BY <2>1, <3>1 DEF Line
  <2>3. PICK n \in 1..Len(written) : file[j] = written[n]
    BY <2>1, <2>2, GenuineRecords
  <2>4. CASE i = j
    BY <2>3, <2>4
  <2>5. CASE i < j
    <3>1. PICK m \in 1..(n - 1) : written[m] = file[i]
      BY <2>1, <2>2, <2>3, <2>5, InOrder
    <3>2. m \in 1..Len(written) /\ m < n
      BY DEF EditInv
    <3>3. QED
      BY <2>3, <3>1, <3>2
  <2>6. QED
    BY <2>4, <2>5 DEF EditInv, TypeOK
<1>2. QED
  BY <1>1, EditInvariance, PTL

\* In a log called partial every record is one that was written, too.
THEOREM PartialIsGenuine == EditSpec => []PartialRecordsGenuine
<1>1. EditInv => PartialRecordsGenuine
  <2> SUFFICES ASSUME EditInv, "partial" \in Integrity(file),
                      NEW i \in 1..Len(file), file[i].kind = "record"
               PROVE  \E n \in 1..Len(written) : file[i] = written[n]
    BY DEF PartialRecordsGenuine
  <2>1. ChainHolds(file)
    BY DEF Integrity
  <2>2. QED
    BY <2>1, GenuineRecords
<1>2. QED
  BY <1>1, EditInvariance, PTL
=============================================================================
