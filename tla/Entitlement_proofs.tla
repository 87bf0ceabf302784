-------------------------- MODULE Entitlement_proofs --------------------------
(***************************************************************************)
(* Proofs about Entitlement, for any number of commands, any terms,        *)
(* intervals and clock, with and without a server.                         *)
(*                                                                         *)
(* The gate: nothing is said of the files, which may be any mixture of     *)
(* what was ever written. A command knows what it verified, keeps it while *)
(* it asks the server and stores the answer, and the clock moves at most   *)
(* once before it ends.                                                    *)
(*                                                                         *)
(* Logout, login and revocation are about commands during which nothing    *)
(* else runs. Such a command knows what it has left in the files (Lonely), *)
(* and no document is younger than the answer it came with, nor active and *)
(* younger than the revocation (Aged).                                     *)
(***************************************************************************)
EXTENDS Entitlement, TLAPS

Status == [state : State, pro : BOOLEAN, fields : Fields \cup {Absent}]
Command == [op : Op \cup {"none"}, at : Label, late : BOOLEAN, alone : BOOLEAN, device : Secret \cup {Absent},
            seen : FileOf(Document), found : Status, answer : Document \cup {Absent}, base : Document \cup {Absent}]

\* What the gate relies on, some time after the status was computed at `t`.
Genuine(status, device, t, slack) ==
  /\ status.fields \in Fields
  /\ status.fields.pro /\ status.fields.active
  /\ status.fields.device = device
  /\ t <= status.fields.until + GraceTime + slack

Storing == {"document", "fill_document", "signature", "fill_signature"}
OfLogin == {"secret", "fill_secret", "session", "exchange", "payment"}

\* What a command knows where it is.
Good(c, t) ==
  /\ c.op = "none" <=> c = NoCommand
  /\ c.at \in OfLogin => c.op = "login"
  /\ c.at \in Storing \cup {"payment", "end_session"} => c.answer \in Document
  /\ c.at = "payment" => c.base \in Document
  /\ c.at \in Storing \cup {"ask"} /\ c.op # "login" /\ ProAllowed(c.found)
       => Genuine(c.found, c.device, t, IF c.late THEN 1 ELSE 0)
  /\ c.at = "allowed" => Genuine(c.found, c.device, t, 1)

Files ==
  /\ now \in Time /\ started \in 0..MaxCommands /\ secrets \in Secret
  /\ document \in FileOf(Document) /\ signed \in FileOf(Fields) /\ secret \in FileOf(Secret)
  /\ session \in {Absent, "pending"}
  /\ account \in [pro : BOOLEAN, active : BOOLEAN, until : Until]
Past == revokedAt \in Time \cup {Never} /\ deaf \in BOOLEAN /\ healed \in BOOLEAN /\ out \in BOOLEAN

IInv ==
  /\ Files /\ Past
  /\ cmd \in [Process -> Command]
  /\ \A p \in Process : Good(cmd[p], now)

-----------------------------------------------------------------------------
(* Small facts *)

LEMMA UntilNat == Until \subseteq Nat
BY TimeAssumption DEF Until, Time

LEMMA NoCommandGood ==
  ASSUME NEW t
  PROVE  NoCommand \in Command /\ Good(NoCommand, t)
<1>1. NoStatus \in Status
  BY DEF NoStatus, Status, State
<1>2. NoCommand \in Command
  BY <1>1 DEF NoCommand, Command, Op, Label, FileOf
<1> QED  BY <1>2 DEF NoCommand, Good, OfLogin, Storing

\* A status has its type, and one that lets a Pro command through is of a signed,
\* paid, active licence of this device that is valid at this time.
LEMMA StatusGenuine ==
  ASSUME now \in Nat, NEW d \in FileOf(Document), NEW s, NEW device
  PROVE  /\ StatusOf(d, s, device) \in Status
         /\ ProAllowed(StatusOf(d, s, device)) => Genuine(StatusOf(d, s, device), device, now, 0)
<1>1. Readable(d) => d.fields \in Fields
  BY DEF Readable, FileOf, Document
<1>2. StatusOf(d, s, device) \in Status
  <2>1. \A x \in State : [state |-> x, pro |-> Readable(d) /\ d.fields.pro,
                          fields |-> IF Readable(d) THEN d.fields ELSE Absent] \in Status
    BY <1>1 DEF Status
  <2> QED  BY <2>1 DEF StatusOf, State
<1>3. ASSUME ProAllowed(StatusOf(d, s, device))
      PROVE  Genuine(StatusOf(d, s, device), device, now, 0)
  <2>1. /\ d # Absent /\ Verified(d, s) /\ d.fields.active
        /\ device = d.fields.device
        /\ now <= d.fields.until \/ now <= d.fields.until + GraceTime
        /\ StatusOf(d, s, device).pro = (Readable(d) /\ d.fields.pro)
        /\ StatusOf(d, s, device).fields = IF Readable(d) THEN d.fields ELSE Absent
    BY <1>3 DEF ProAllowed, StatusOf
  <2>2. Readable(d) /\ d.fields.pro
    BY <1>3, <2>1 DEF ProAllowed
  <2>3. d.fields.until \in Nat /\ GraceTime \in Nat /\ d.fields \in Fields
    BY <1>1, <2>2, UntilNat, TimeAssumption DEF Fields
  <2>4. now <= d.fields.until + GraceTime + 0
    BY <2>1, <2>3
  <2> QED  BY <2>1, <2>2, <2>3, <2>4 DEF Genuine
<1> QED  BY <1>2, <1>3

LEMMA AllIdleIsBoolean == \A S : AllIdle(S) \in BOOLEAN
BY DEF AllIdle, Idle

\* A step of one command, of which it is enough to look at the new state of that one.
LEMMA OneCommand ==
  ASSUME IInv, NEW p \in Process, NEW c \in Command, Good(c, now),
         cmd' = [cmd EXCEPT ![p] = c], now' = now
  PROVE  cmd' \in [Process -> Command] /\ \A q \in Process : Good(cmd'[q], now')
<1>1. \A q \in Process : cmd'[q] = IF q = p THEN c ELSE cmd[q]
  BY DEF IInv
<1> QED  BY <1>1 DEF IInv

LEMMA EndGood ==
  ASSUME IInv, NEW p \in Process, End(p), now' = now
  PROVE  cmd' \in [Process -> Command] /\ \A q \in Process : Good(cmd'[q], now')
BY NoCommandGood, OneCommand DEF End

\* What a command that goes to another place keeps.
Moved(c, label) == [c EXCEPT !.at = label]
LEMMA GoToGood ==
  ASSUME IInv, NEW p \in Process, NEW label \in Label, ~Idle(p), Good(Moved(cmd[p], label), now),
         GoTo(p, label), now' = now
  PROVE  cmd' \in [Process -> Command] /\ \A q \in Process : Good(cmd'[q], now')
<1>1. cmd[p] \in Command
  BY DEF IInv
<1>2. Moved(cmd[p], label) \in Command
  BY <1>1 DEF Moved, Command
<1>3. cmd' = [cmd EXCEPT ![p] = Moved(cmd[p], label)]
  BY DEF GoTo, Moved
<1> QED  BY <1>2, <1>3, OneCommand

\* The gate: a status that was computed for this command, and not long ago.
LEMMA ConcludeGood ==
  ASSUME IInv, NEW p \in Process, NEW status \in Status, Conclude(p, status), now' = now,
         ProAllowed(status) => Genuine(status, cmd[p].device, now, 1)
  PROVE  cmd' \in [Process -> Command] /\ \A q \in Process : Good(cmd'[q], now')
<1>1. CASE cmd[p].op = "feature" /\ ProAllowed(status)
  <2> DEFINE c == [NoCommand EXCEPT !.op = "feature", !.at = "allowed", !.alone = cmd[p].alone,
                                    !.device = cmd[p].device, !.found = status]
  <2>1. c \in Command /\ c.at = "allowed" /\ c.op = "feature" /\ c.found = status /\ c.device = cmd[p].device
    BY NoCommandGood DEF IInv, Command, NoCommand, Op, Label
  <2>2. Good(c, now)
    BY <1>1, <2>1 DEF Good, NoCommand, OfLogin, Storing
  <2>3. cmd' = [cmd EXCEPT ![p] = c]
    BY <1>1 DEF Conclude
  <2> QED  BY <2>1, <2>2, <2>3, OneCommand
<1>2. CASE ~(cmd[p].op = "feature" /\ ProAllowed(status))
  BY <1>2, EndGood DEF Conclude
<1> QED  BY <1>1, <1>2

LEMMA IssueTyped ==
  ASSUME Files, NEW device \in Secret
  PROVE  Issue(device) \in Fields
BY DEF Files, Issue, Fields

-----------------------------------------------------------------------------
(* Steps *)

LEMMA InitIInv == Init => IInv
<1> SUFFICES ASSUME Init PROVE IInv
  OBVIOUS
<1>1. Files
  BY TimeAssumption DEF Init, Files, Time, Secret, FileOf, Until
<1>2. Past
  BY DEF Init, Past, Never
<1> QED  BY <1>1, <1>2, NoCommandGood DEF Init, IInv

LEMMA StartIInv ==
  ASSUME IInv, NEW p \in Process, NEW op \in Op, Start(p, op)
  PROVE  IInv'
<1> DEFINE Aware(q) == [cmd[q] EXCEPT !.alone = FALSE]
           fresh == [NoCommand EXCEPT !.op = op, !.at = FirstStep(op), !.alone = AllIdle(Others(p))]
<1>1. Files' /\ now' = now
  <2>1. /\ started < MaxCommands /\ started' = started + 1
        /\ UNCHANGED <<now, document, signed, secret, session, account, secrets>>
    BY DEF Start, files
  <2>2. started' \in 0..MaxCommands
    BY <2>1, TimeAssumption DEF IInv, Files
  <2> QED  BY <2>1, <2>2 DEF IInv, Files
<1>2. Past'
  BY DEF IInv, Past, Start
<1>3. \A q \in Process : ~Idle(q) => Aware(q) \in Command /\ Good(Aware(q), now)
  <2> SUFFICES ASSUME NEW q \in Process, ~Idle(q)
               PROVE  Aware(q) \in Command /\ Good(Aware(q), now)
    OBVIOUS
  <2>1. cmd[q] \in Command /\ Good(cmd[q], now)
    BY DEF IInv
  <2>2. /\ Aware(q) \in Command
        /\ Aware(q).op = cmd[q].op /\ Aware(q).at = cmd[q].at /\ Aware(q).late = cmd[q].late
        /\ Aware(q).device = cmd[q].device /\ Aware(q).found = cmd[q].found
        /\ Aware(q).answer = cmd[q].answer /\ Aware(q).base = cmd[q].base
    BY <2>1 DEF Command
  <2>3. Aware(q) # NoCommand
    BY <2>2 DEF Idle, NoCommand
  <2> QED  BY <2>1, <2>2, <2>3 DEF Good, Idle
<1>4. fresh \in Command /\ Good(fresh, now)
  <2>1. fresh.op = op /\ fresh.at = FirstStep(op) /\ fresh \in Command
    BY NoCommandGood, AllIdleIsBoolean DEF Command, NoCommand, FirstStep, Label, Op
  <2> QED  BY <2>1 DEF Good, FirstStep, NoCommand, OfLogin, Storing, Op
<1>5. \A q \in Process : cmd'[q] = IF q = p THEN fresh ELSE IF Idle(q) THEN cmd[q] ELSE Aware(q)
  BY DEF Start
<1>6. cmd' \in [Process -> Command]
  BY <1>3, <1>4 DEF IInv, Start
<1> QED  BY <1>1, <1>2, <1>3, <1>4, <1>5, <1>6 DEF IInv

LEMMA TickIInv ==
  ASSUME IInv, Tick
  PROVE  IInv'
<1> DEFINE Late(q) == [cmd[q] EXCEPT !.late = TRUE]
<1>1. Files' /\ now' = now + 1 /\ now \in Nat
  BY TimeAssumption DEF IInv, Files, Tick, files, Time
<1>2. Past'
  BY DEF IInv, Past, Tick, history
<1>3. \A q \in Process : ~Idle(q) => Late(q) \in Command /\ Good(Late(q), now + 1)
  <2> SUFFICES ASSUME NEW q \in Process, ~Idle(q)
               PROVE  Late(q) \in Command /\ Good(Late(q), now + 1)
    OBVIOUS
  <2>1. cmd[q] \in Command /\ Good(cmd[q], now) /\ cmd[q].late = FALSE /\ cmd[q].at # "allowed"
    BY DEF IInv, Tick, At, Command
  <2>2. /\ Late(q) \in Command /\ Late(q).late = TRUE
        /\ Late(q).op = cmd[q].op /\ Late(q).at = cmd[q].at
        /\ Late(q).device = cmd[q].device /\ Late(q).found = cmd[q].found
        /\ Late(q).answer = cmd[q].answer /\ Late(q).base = cmd[q].base
    BY <2>1 DEF Command
  <2>3. Late(q) # NoCommand
    BY <2>2 DEF Idle, NoCommand
  <2>4. Genuine(cmd[q].found, cmd[q].device, now, 0) => Genuine(cmd[q].found, cmd[q].device, now + 1, 1)
    <3>1. cmd[q].found.fields \in Fields => cmd[q].found.fields.until \in Nat
      BY UntilNat DEF Fields
    <3> QED  BY <1>1, <3>1, TimeAssumption DEF Genuine
  <2> QED  BY <2>1, <2>2, <2>3, <2>4 DEF Good, Idle
<1>4. \A q \in Process : cmd'[q] = IF Idle(q) THEN cmd[q] ELSE Late(q)
  BY DEF Tick
<1>5. \A q \in Process : Idle(q) => Good(cmd[q], now + 1)
  BY NoCommandGood DEF IInv, Good, Idle
<1>6. cmd' \in [Process -> Command]
  BY <1>3 DEF IInv, Tick
<1> QED  BY <1>1, <1>2, <1>3, <1>4, <1>5, <1>6 DEF IInv

\* Places at which a command has nothing to remember.
LEMMA GoodElsewhere ==
  ASSUME NEW c, NEW t, c.op # "none",
         c.at \notin OfLogin \cup Storing \cup {"ask", "payment", "end_session", "allowed"}
  PROVE  Good(c, t)
<1>1. c # NoCommand
  BY DEF NoCommand
<1> QED  BY <1>1 DEF Good, OfLogin

LEMMA GenuineLater ==
  ASSUME NEW status, NEW device, NEW t \in Nat, NEW slack \in {0, 1}, Genuine(status, device, t, slack)
  PROVE  Genuine(status, device, t, 1)
<1>1. status.fields.until \in Nat /\ GraceTime \in Nat
  BY UntilNat, TimeAssumption DEF Genuine, Fields
<1> QED  BY <1>1 DEF Genuine

LEMMA Nowadays == Files => now \in Nat
BY TimeAssumption DEF Files, Time

\* The gate and auth status
LEMMA GateIInv ==
  ASSUME IInv, NEW p \in Process,
         Read(p) \/ Verify(p) \/ Refresh(p) \/ RefreshFails(p) \/ Reverify(p) \/ Proceed(p)
  PROVE  IInv'
<1> DEFINE Kept == cmd' \in [Process -> Command] /\ \A q \in Process : Good(cmd'[q], now')
<1>1. Files' /\ now' = now
  BY DEF IInv, Files, files, Read, Verify, Refresh, RefreshFails, Reverify, Proceed
<1>2. Past'
  BY DEF IInv, Past, history, Read, Verify, Refresh, RefreshFails, Reverify, Proceed
<1>c. cmd[p] \in Command /\ Good(cmd[p], now) /\ cmd \in [Process -> Command] /\ now \in Nat
  BY Nowadays DEF IInv
<1>3. ASSUME Read(p) PROVE Kept
  <2> DEFINE device == IF secret = Absent THEN Absent ELSE DeviceOf(secret)
             place == IF cmd[p].at = "read" THEN "verify" ELSE "reverify"
             c == [cmd[p] EXCEPT !.seen = document, !.device = device, !.at = place]
  <2>1. device \in Secret \cup {Absent} /\ document \in FileOf(Document)
    BY TimeAssumption DEF IInv, Files, DeviceOf, FileOf, Secret
  <2>0. place \in {"verify", "reverify"} /\ place \in Label
    BY DEF Label
  <2> HIDE DEF device, place
  <2>2. c \in Command /\ c.op = cmd[p].op /\ c.at = place
    BY <1>c, <2>0, <2>1 DEF Command
  <2>3. Good(c, now)
    BY <1>3, <2>0, <2>2, GoodElsewhere DEF Read, At, Idle, OfLogin, Storing
  <2>4. cmd' = [cmd EXCEPT ![p] = c]
    BY <1>3, <1>c DEF Read, device, place
  <2> QED  BY <1>1, <2>2, <2>3, <2>4, OneCommand
<1>4. ASSUME Verify(p) PROVE Kept
  <2> DEFINE status == StatusOf(cmd[p].seen, signed, cmd[p].device)
             c == [cmd[p] EXCEPT !.found = status, !.seen = Absent, !.at = "ask"]
  <2>1. status \in Status /\ (ProAllowed(status) => Genuine(status, cmd[p].device, now, 0))
    BY <1>c, StatusGenuine DEF Command
  <2> HIDE DEF status
  <2>2. CASE cmd' = [cmd EXCEPT ![p].found = status, ![p].seen = Absent, ![p].at = "ask"]
    <3>1. /\ c \in Command /\ c.at = "ask" /\ c.found = status
          /\ c.op = cmd[p].op /\ c.device = cmd[p].device /\ c.late = cmd[p].late
      BY <1>c, <2>1 DEF Command, Label, FileOf
    <3>2. c # NoCommand /\ cmd[p].op # "none"
      BY <1>4, <3>1 DEF Verify, At, Idle, NoCommand
    <3>3. ProAllowed(status) => Genuine(status, cmd[p].device, now, IF cmd[p].late THEN 1 ELSE 0)
      BY <1>c, <2>1, GenuineLater
    <3>4. Good(c, now)
      BY <3>1, <3>2, <3>3 DEF Good, OfLogin, Storing
    <3>5. cmd' = [cmd EXCEPT ![p] = c]
      BY <1>c, <2>2
    <3> QED  BY <1>1, <3>1, <3>4, <3>5, OneCommand
  <2>3. CASE Conclude(p, status)
    BY <1>1, <1>c, <2>1, <2>3, GenuineLater, ConcludeGood
  <2> QED  BY <1>4, <2>2, <2>3 DEF Verify, status
<1>5. ASSUME Refresh(p) PROVE Kept
  <2> DEFINE answer == [fields |-> Issue(DeviceOf(secret)), pending |-> FALSE]
             c == [cmd[p] EXCEPT !.answer = answer, !.at = "document"]
  <2>1. DeviceOf(secret) \in Secret
    BY <1>5, TimeAssumption DEF IInv, Files, Refresh, DeviceOf, FileOf, Secret
  <2>2. answer \in Document
    BY <2>1, IssueTyped DEF IInv, Document
  <2> HIDE DEF answer
  <2>3. /\ c \in Command /\ c.at = "document" /\ c.found = cmd[p].found /\ c.answer = answer
        /\ c.op = cmd[p].op /\ c.device = cmd[p].device /\ c.late = cmd[p].late
    BY <1>c, <2>2 DEF Command, Label
  <2>4. c # NoCommand /\ cmd[p].op # "none" /\ cmd[p].at = "ask"
    BY <1>5, <2>3 DEF Refresh, At, Idle, NoCommand
  <2>5. Good(c, now)
    BY <1>c, <2>2, <2>3, <2>4 DEF Good, OfLogin, Storing
  <2>6. cmd' = [cmd EXCEPT ![p] = c]
    BY <1>5, <1>c DEF Refresh, answer
  <2> QED  BY <1>1, <2>3, <2>5, <2>6, OneCommand
<1>6. ASSUME RefreshFails(p) PROVE Kept
  <2>1. ProAllowed(cmd[p].found) => Genuine(cmd[p].found, cmd[p].device, now, IF cmd[p].late THEN 1 ELSE 0)
    BY <1>6, <1>c DEF RefreshFails, Good, Storing
  <2>2. ProAllowed(cmd[p].found) => Genuine(cmd[p].found, cmd[p].device, now, 1)
    BY <1>c, <2>1, GenuineLater
  <2> QED  BY <1>1, <1>6, <1>c, <2>2, ConcludeGood DEF RefreshFails, Command
<1>7. ASSUME Reverify(p) PROVE Kept
  <2> DEFINE status == StatusOf(cmd[p].seen, signed, cmd[p].device)
  <2>1. status \in Status /\ (ProAllowed(status) => Genuine(status, cmd[p].device, now, 0))
    BY <1>c, StatusGenuine DEF Command
  <2>2. Conclude(p, status)
    BY <1>7 DEF Reverify
  <2> HIDE DEF status
  <2> QED  BY <1>1, <1>c, <2>1, <2>2, GenuineLater, ConcludeGood
<1>8. ASSUME Proceed(p) PROVE Kept
  BY <1>1, <1>8, EndGood DEF Proceed
<1>9. Kept
  BY <1>3, <1>4, <1>5, <1>6, <1>7, <1>8
<1> QED  BY <1>1, <1>2, <1>9 DEF IInv

\* auth login, up to its answer
LEMMA LoginIInv ==
  ASSUME IInv, NEW p \in Process,
         Secure(p) \/ FillSecret(p) \/ OpenSession(p) \/ Exchange(p) \/ PaymentFound(p) \/ PaymentMissing(p) \/ LoginFails(p)
  PROVE  IInv'
<1> DEFINE Kept == cmd' \in [Process -> Command] /\ \A q \in Process : Good(cmd'[q], now')
<1>c. cmd[p] \in Command /\ Good(cmd[p], now) /\ cmd \in [Process -> Command]
  BY DEF IInv
<1>1. Files' /\ now' = now
  <2>1. secrets' \in Secret /\ secret' \in FileOf(Secret)
    BY TimeAssumption DEF IInv, Files, files, FileOf, Secret, Secure, FillSecret, OpenSession, Exchange,
                          PaymentFound, PaymentMissing, LoginFails
  <2> QED  BY <2>1 DEF IInv, Files, files, Secure, FillSecret, OpenSession, Exchange, PaymentFound, PaymentMissing, LoginFails
<1>2. Past'
  BY DEF IInv, Past, history, Secure, FillSecret, OpenSession, Exchange, PaymentFound, PaymentMissing, LoginFails
<1>m. ASSUME NEW label \in {"fill_secret", "session", "exchange"}, cmd[p].at \in OfLogin, ~Idle(p), GoTo(p, label)
      PROVE  Kept
  <2>1. /\ label \in Label /\ Moved(cmd[p], label).at = label /\ Moved(cmd[p], label).op = "login"
    BY <1>c, <1>m DEF Label, Moved, Command, Good
  <2>2. Good(Moved(cmd[p], label), now)
    BY <2>1 DEF Good, NoCommand, Storing
  <2> QED  BY <1>1, <1>m, <2>1, <2>2, GoToGood
<1>3. ASSUME Secure(p) PROVE Kept
  BY <1>3, <1>m DEF Secure, At, OfLogin
<1>4. ASSUME FillSecret(p) PROVE Kept
  BY <1>4, <1>m DEF FillSecret, At, OfLogin
<1>5. ASSUME OpenSession(p) PROVE Kept
  BY <1>1, <1>5, <1>m, EndGood DEF OpenSession, At, OfLogin
<1>6. ASSUME Exchange(p) PROVE Kept
  <2> DEFINE answer == [fields |-> Issue(DeviceOf(secret)), pending |-> FALSE]
             c == [cmd[p] EXCEPT !.answer = answer, !.base = answer, !.at = IF answer.fields.pro THEN "document" ELSE "payment"]
  <2>1. DeviceOf(secret) \in Secret
    BY <1>6, TimeAssumption DEF IInv, Files, Exchange, DeviceOf, FileOf, Secret
  <2>2. answer \in Document
    BY <2>1, IssueTyped DEF IInv, Document
  <2>3. cmd' = [cmd EXCEPT ![p] = c]
    BY <1>6, <1>c DEF Exchange
  <2> HIDE DEF answer
  <2>4. /\ c \in Command /\ c.at \in {"document", "payment"} /\ c.answer = answer /\ c.base = answer /\ c.op = cmd[p].op
    BY <1>c, <2>2 DEF Command, Label
  <2>5. c.op = "login"
    BY <1>6, <1>c, <2>4 DEF Exchange, At, Good, OfLogin
  <2>6. Good(c, now)
    BY <2>2, <2>4, <2>5 DEF Good, NoCommand, OfLogin, Storing
  <2> QED  BY <1>1, <2>3, <2>4, <2>6, OneCommand
<1>7. ASSUME PaymentFound(p) PROVE Kept
  <2> DEFINE answer == [fields |-> Issue(cmd[p].base.fields.device), pending |-> FALSE]
             c == [cmd[p] EXCEPT !.answer = answer, !.at = "document"]
  <2>1. cmd[p].op = "login" /\ cmd[p].base \in Document
    BY <1>7, <1>c DEF PaymentFound, At, Good, OfLogin
  <2>2. answer \in Document
    BY <2>1, IssueTyped DEF IInv, Document, Fields
  <2>3. cmd' = [cmd EXCEPT ![p] = c]
    BY <1>7, <1>c DEF PaymentFound
  <2> HIDE DEF answer
  <2>4. c \in Command /\ c.at = "document" /\ c.answer = answer /\ c.op = "login"
    BY <1>c, <2>1, <2>2 DEF Command, Label
  <2>5. Good(c, now)
    BY <2>2, <2>4 DEF Good, NoCommand, OfLogin, Storing
  <2> QED  BY <1>1, <2>3, <2>4, <2>5, OneCommand
<1>8. ASSUME PaymentMissing(p) PROVE Kept
  <2> DEFINE answer == [cmd[p].answer EXCEPT !.pending = TRUE]
             c == [cmd[p] EXCEPT !.answer = answer, !.at = "document"]
  <2>1. cmd[p].op = "login" /\ cmd[p].answer \in Document
    BY <1>8, <1>c DEF PaymentMissing, At, Good, OfLogin
  <2>2. answer \in Document
    BY <2>1 DEF Document
  <2>3. cmd' = [cmd EXCEPT ![p] = c]
    BY <1>8, <1>c DEF PaymentMissing, Command
  <2> HIDE DEF answer
  <2>4. c \in Command /\ c.at = "document" /\ c.answer = answer /\ c.op = "login"
    BY <1>c, <2>1, <2>2 DEF Command, Label
  <2>5. Good(c, now)
    BY <2>2, <2>4 DEF Good, NoCommand, OfLogin, Storing
  <2> QED  BY <1>1, <2>3, <2>4, <2>5, OneCommand
<1>9. ASSUME LoginFails(p) PROVE Kept
  BY <1>1, <1>9, EndGood DEF LoginFails
<1>10. Kept
  BY <1>3, <1>4, <1>5, <1>6, <1>7, <1>8, <1>9
<1> QED  BY <1>1, <1>2, <1>10 DEF IInv

\* Storing an answer
LEMMA StoreIInv ==
  ASSUME IInv, NEW p \in Process,
         EmptyDocument(p) \/ FillDocument(p) \/ EmptySignature(p) \/ FillSignature(p) \/ EndSession(p)
  PROVE  IInv'
<1> DEFINE Kept == cmd' \in [Process -> Command] /\ \A q \in Process : Good(cmd'[q], now')
<1>c. cmd[p] \in Command /\ Good(cmd[p], now) /\ cmd \in [Process -> Command]
  BY DEF IInv
<1>a. ~Idle(p) /\ cmd[p].answer \in Document
  BY <1>c DEF EmptyDocument, FillDocument, EmptySignature, FillSignature, EndSession, At, Good, Storing
<1>1. Files' /\ now' = now
  <2>1. document' \in FileOf(Document) /\ signed' \in FileOf(Fields) /\ session' \in {Absent, "pending"}
    BY <1>a DEF IInv, Files, FileOf, Document, EmptyDocument, FillDocument, EmptySignature, FillSignature, EndSession
  <2> QED  BY <2>1 DEF IInv, Files, EmptyDocument, FillDocument, EmptySignature, FillSignature, EndSession
<1>2. Past'
  <2>1. cmd[p].answer.fields.active \in BOOLEAN /\ cmd[p].alone \in BOOLEAN
    BY <1>a, <1>c DEF Document, Fields, Command
  <2>2. (cmd[p].alone /\ cmd[p].answer.fields.active) \in BOOLEAN
    OBVIOUS
  <2>3. healed' \in BOOLEAN
    BY <2>2 DEF IInv, Past, history, EmptyDocument, FillDocument, EmptySignature, FillSignature, EndSession
  <2> QED  BY <2>3 DEF IInv, Past, history, EmptyDocument, FillDocument, EmptySignature, FillSignature, EndSession
<1>m. ASSUME NEW label \in Storing \cup {"end_session", "reread"}, cmd[p].at \in Storing, GoTo(p, label)
      PROVE  Kept
  <2> DEFINE c == Moved(cmd[p], label)
  <2>1. /\ label \in Label /\ c.at = label /\ c.op = cmd[p].op /\ c.answer = cmd[p].answer
        /\ c.found = cmd[p].found /\ c.device = cmd[p].device /\ c.late = cmd[p].late
    BY <1>c, <1>m DEF Label, Moved, Command, Storing
  <2>2. c.op # "none" /\ c # NoCommand
    BY <1>a, <2>1 DEF Idle, NoCommand
  <2> HIDE DEF c
  <2>3. label \notin OfLogin \cup {"payment", "allowed"} /\ cmd[p].at \in Storing
    BY <1>m DEF Storing, OfLogin
  <2>4. Good(c, now)
    BY <1>a, <1>c, <2>1, <2>2, <2>3 DEF Good
  <2> QED  BY <1>1, <1>a, <1>m, <2>1, <2>4, GoToGood DEF c
<1>3. ASSUME EmptyDocument(p) PROVE Kept
  BY <1>3, <1>m DEF EmptyDocument, At, Storing
<1>4. ASSUME FillDocument(p) PROVE Kept
  BY <1>4, <1>m DEF FillDocument, At, Storing
<1>5. ASSUME EmptySignature(p) PROVE Kept
  BY <1>5, <1>m DEF EmptySignature, At, Storing
<1>6. ASSUME FillSignature(p) PROVE Kept
  <2>1. GoTo(p, "reread") \/ End(p) \/ GoTo(p, "end_session")
    BY <1>6 DEF FillSignature, Stored
  <2> QED  BY <1>1, <1>6, <1>m, <2>1, EndGood DEF FillSignature, At, Storing
<1>7. ASSUME EndSession(p) PROVE Kept
  BY <1>1, <1>7, EndGood DEF EndSession
<1>8. Kept
  BY <1>3, <1>4, <1>5, <1>6, <1>7
<1> QED  BY <1>1, <1>2, <1>8 DEF IInv

\* auth logout, and a process that dies
LEMMA LogoutIInv ==
  ASSUME IInv, NEW p \in Process,
         RemoveDocument(p) \/ RemoveSignature(p) \/ RemoveSession(p) \/ Die(p)
  PROVE  IInv'
<1> DEFINE Kept == cmd' \in [Process -> Command] /\ \A q \in Process : Good(cmd'[q], now')
<1>c. cmd[p] \in Command /\ ~Idle(p)
  BY DEF IInv, RemoveDocument, RemoveSignature, RemoveSession, Die, At
<1>1. Files' /\ now' = now
  BY DEF IInv, Files, files, FileOf, RemoveDocument, RemoveSignature, RemoveSession, Die
<1>2. Past'
  BY <1>c DEF IInv, Past, history, Command, RemoveDocument, RemoveSignature, RemoveSession, Die
<1>m. ASSUME NEW label \in {"remove_signature", "remove_session"}, GoTo(p, label)
      PROVE  Kept
  <2>1. label \in Label /\ Moved(cmd[p], label).at = label /\ Moved(cmd[p], label).op # "none"
    BY <1>c DEF Label, Moved, Command, Idle
  <2>2. Good(Moved(cmd[p], label), now)
    BY <2>1, GoodElsewhere DEF OfLogin, Storing
  <2> QED  BY <1>1, <1>c, <1>m, <2>1, <2>2, GoToGood
<1>3. Kept
  BY <1>1, <1>m, EndGood DEF RemoveDocument, RemoveSignature, RemoveSession, Die
<1> QED  BY <1>1, <1>2, <1>3 DEF IInv

\* The server and the files, between the steps of commands
LEMMA WorldIInv ==
  ASSUME IInv, LoseSecret \/ Pay \/ Revoke
  PROVE  IInv'
<1>1. UNCHANGED <<now, cmd>>
  BY DEF LoseSecret, Pay, Revoke
<1>2. account' \in [pro : BOOLEAN, active : BOOLEAN, until : Until]
  <2>1. \A term \in Terms : now + term \in Until
    BY DEF IInv, Files, Until
  <2> QED  BY <2>1 DEF IInv, Files, LoseSecret, Pay, Revoke
<1>3. Files'
  BY <1>2 DEF IInv, Files, files, FileOf, LoseSecret, Pay, Revoke
<1>4. Past'
  BY DEF IInv, Files, Past, history, LoseSecret, Pay, Revoke
<1> QED  BY <1>1, <1>3, <1>4 DEF IInv

LEMMA NextIInv ==
  ASSUME IInv, [Next]_vars
  PROVE  IInv'
<1>1. CASE UNCHANGED vars
  BY <1>1 DEF vars, files, history, IInv, Files, Past
<1>2. ASSUME NEW p \in Process, NEW op \in Op, Start(p, op) PROVE IInv'
  BY <1>2, StartIInv
<1>3. ASSUME NEW p \in Process, Step(p) \/ Die(p) PROVE IInv'
  BY <1>3, GateIInv, LoginIInv, StoreIInv, LogoutIInv DEF Step
<1> QED  BY <1>1, <1>2, <1>3, TickIInv, WorldIInv DEF Next

LEMMA Invariance == Spec => []IInv
<1> QED  BY InitIInv, NextIInv, PTL DEF Spec

-----------------------------------------------------------------------------
(* A command that runs alone, and what the server last said.                  *)
(*                                                                            *)
(* Nothing can be said of the files while commands overlap.  A command during *)
(* which no other ran knows what it left in them, and no answer of the server *)
(* is younger than it claims.                                                 *)

\* What a login of a paying customer was given.
Paid(fields) ==
  /\ fields.pro /\ account.pro
  /\ fields.device = DeviceOf(secret) /\ fields.until = account.until

\* Files the gate accepts as long as the account runs.
Licensed ==
  /\ document \in Document /\ signed = document.fields /\ secret # Absent
  /\ document.fields.active /\ Paid(document.fields)

\* The state of a command during which nothing else ran.
Lonely(c) ==
  /\ c.at = "verify" => c.seen = document
  /\ c.at = "reverify" => c.seen = c.answer
  /\ c.at \in {"signature", "fill_signature", "end_session", "reread"} => document = c.answer
  /\ c.at \in {"remove_signature", "remove_session"} => document = Absent
  /\ c.op = "login" =>
       /\ c.at \in {"session", "exchange", "payment", "end_session"} \cup Storing => secret # Absent
       /\ c.at = "payment" => c.base.fields.device = DeviceOf(secret)
       /\ c.at \in Storing \cup {"end_session"} /\ ~c.answer.pending => Paid(c.answer.fields)
       /\ c.at = "end_session" => ~c.answer.pending /\ signed = c.answer.fields

\* A licence the server called active is no younger than the revocation.
Aged(fields) ==
  /\ fields.refreshed <= now
  /\ fields.active /\ revokedAt # Never => fields.refreshed <= revokedAt

\* Where a command of each kind can be, and how old the server's answer to it is.
Knows(c) ==
  /\ c.at \in {"read", "verify", "ask", "reread", "reverify", "allowed"} => c.op \in {"status", "feature"}
  /\ c.at \in {"remove_document", "remove_signature", "remove_session"} => c.op = "logout"
  /\ c.at = "end_session" => c.op = "login"
  /\ c.at \in Storing => c.op # "logout"
  /\ c.seen \in Document => Aged(c.seen.fields)
  /\ c.answer \in Document => Aged(c.answer.fields)
  /\ c.op # "login" /\ c.at \in Storing \cup {"reread", "reverify"} =>
       c.answer \in Document /\ now <= c.answer.fields.refreshed + (IF c.late THEN 1 ELSE 0)
  /\ c.at = "allowed" /\ c.alone /\ EnvUrl /\ revokedAt # Never /\ ~deaf => now <= revokedAt + RefreshEvery

\* A command that finds no licence and makes none.
Harmless(c) ==
  /\ c.op # "login"
  /\ c.at \in {"read", "verify", "remove_document", "remove_signature", "remove_session"}
  /\ c.at = "verify" => c.seen = Absent

HInv ==
  /\ \A p \in Process : ~Idle(p) => Knows(cmd[p])
  /\ \A p \in Process : ~Idle(p) /\ cmd[p].alone => AllIdle(Others(p)) /\ Lonely(cmd[p])
  /\ document \in Document => Aged(document.fields)
  /\ revokedAt # Never => ~account.active
  /\ out => document = Absent /\ \A p \in Process : ~Idle(p) => Harmless(cmd[p])
  /\ healed => AllIdle(Process) /\ Licensed

LEMMA AbsentIsNothing ==
  /\ Absent \notin Document /\ Broken \notin Document /\ Absent # Broken
  /\ Absent \notin Fields /\ Broken \notin Fields /\ Absent \notin Secret
BY FileAssumption

\* A step of one command: the others are idle or were never alone.
LEMMA SoloStep ==
  ASSUME IInv, HInv, NEW p \in Process, ~Idle(p), NEW c, cmd' = [cmd EXCEPT ![p] = c],
         UNCHANGED <<now, account, revokedAt>>, deaf => deaf',
         document' \in Document => Aged(document'.fields),
         c.op # "none" => Knows(c)',
         c.op # "none" /\ c.alone => cmd[p].alone /\ Lonely(c)',
         out' => /\ document' = Absent
                 /\ (out /\ (c.op # "none" => Harmless(c))) \/ (cmd[p].alone /\ c.op = "none"),
         healed' => healed \/ (cmd[p].alone /\ c.op = "none" /\ Licensed')
  PROVE  HInv'
<1>1. cmd'[p] = c /\ \A q \in Process : q # p => cmd'[q] = cmd[q]
  BY DEF IInv
<1>2. \A q \in Process : q # p /\ ~Idle(q) => ~cmd[q].alone
  BY DEF HInv, AllIdle, Others
<1>3. cmd[p].alone => \A q \in Process : q # p => Idle(q)
  BY DEF HInv, AllIdle, Others
<1>4. \A fields : Aged(fields)' <=> Aged(fields)
  BY DEF Aged
<1>5. ASSUME NEW q \in Process, ~Idle(q)' PROVE Knows(cmd[q])'
  <2>1. CASE q = p
    BY <1>1, <1>5, <2>1 DEF Idle, Knows, Aged
  <2>2. CASE q # p
    <3>1. PICK d : d = cmd[q]
      OBVIOUS
    <3>2. Knows(d) /\ cmd'[q] = d
      BY <1>1, <1>5, <2>2, <3>1 DEF HInv, Idle
    <3>3. Knows(d)'
      BY <1>4, <3>2 DEF Knows
    <3> QED  BY <3>2, <3>3 DEF Knows, Aged
  <2> QED  BY <2>1, <2>2
<1>6. ASSUME NEW q \in Process, ~Idle(q)', cmd'[q].alone
      PROVE  AllIdle(Others(q))' /\ Lonely(cmd[q])'
  <2>1. q = p
    BY <1>1, <1>2, <1>6 DEF Idle
  <2>2. c.op # "none" /\ c.alone
    BY <1>1, <1>6, <2>1 DEF Idle
  <2>3. AllIdle(Others(q))'
    BY <1>1, <1>3, <2>1, <2>2 DEF AllIdle, Others, Idle
  <2>4. Lonely(c)' /\ cmd'[q] = c
    BY <1>1, <2>1, <2>2
  <2>5. Lonely(cmd[q])'
    BY <2>4 DEF Lonely, Paid
  <2> QED  BY <2>3, <2>5
<1>7. document' \in Document => Aged(document.fields)'
  BY DEF Aged
<1>8. ASSUME out'
      PROVE  document' = Absent /\ \A q \in Process : ~Idle(q)' => Harmless(cmd[q])'
  <2> SUFFICES ASSUME NEW q \in Process, ~Idle(q)' PROVE Harmless(cmd'[q])
    BY <1>8 DEF Harmless
  <2>1. CASE q = p
    BY <1>1, <1>8, <2>1 DEF Idle
  <2>2. CASE q # p
    BY <1>1, <1>3, <1>8, <2>2 DEF Idle, HInv
  <2> QED  BY <2>1, <2>2
<1>9. ASSUME healed' PROVE AllIdle(Process)' /\ Licensed'
  <2>1. ~healed
    BY DEF HInv, AllIdle
  <2>2. cmd[p].alone /\ c.op = "none" /\ Licensed'
    BY <1>9, <2>1
  <2> QED  BY <1>1, <1>3, <2>2 DEF AllIdle, Idle
<1>10. revokedAt' # Never => ~account'.active
  BY DEF HInv
<1> QED  BY <1>5, <1>6, <1>7, <1>8, <1>9, <1>10 DEF HInv

\* A command ends and leaves the licence as it is.
LEMMA EndStep ==
  ASSUME IInv, HInv, NEW p \in Process, ~Idle(p), End(p),
         UNCHANGED <<now, account, revokedAt, document, out, healed>>, deaf => deaf'
  PROVE  HInv'
<1>1. PICK c : c = NoCommand
  OBVIOUS
<1>2. c.op = "none" /\ cmd' = [cmd EXCEPT ![p] = c]
  BY <1>1 DEF NoCommand, End
<1>3. document' \in Document => Aged(document'.fields)
  BY DEF HInv
<1>4. out' => out /\ document' = Absent
  BY DEF HInv
<1> QED  BY <1>2, <1>3, <1>4, SoloStep

\* A command goes to another place; what it knows goes with it.
Same(c, b) ==
  /\ c.op = b.op /\ c.late = b.late /\ c.alone = b.alone /\ c.device = b.device
  /\ c.seen = b.seen /\ c.found = b.found /\ c.answer = b.answer /\ c.base = b.base

LEMMA GoToIs ==
  ASSUME IInv, NEW p \in Process, NEW label, GoTo(p, label)
  PROVE  \E c : cmd' = [cmd EXCEPT ![p] = c] /\ c.at = label /\ Same(c, cmd[p])
<1>1. cmd[p] \in Command
  BY DEF IInv
<1>2. Moved(cmd[p], label).at = label /\ Same(Moved(cmd[p], label), cmd[p])
  BY <1>1 DEF Moved, Command, Same
<1>3. cmd' = [cmd EXCEPT ![p] = Moved(cmd[p], label)]
  BY DEF GoTo, Moved
<1> QED  BY <1>2, <1>3

\* The gate lets a command through that no revocation should have stopped.
LEMMA ConcludeStep ==
  ASSUME IInv, HInv, NEW p \in Process, ~Idle(p), NEW status, Conclude(p, status),
         UNCHANGED <<now, account, revokedAt, document, out, healed>>, deaf => deaf',
         out => ~ProAllowed(status),
         ProAllowed(status) /\ cmd[p].alone /\ EnvUrl /\ revokedAt # Never /\ ~deaf' =>
           now <= revokedAt + RefreshEvery
  PROVE  HInv'
<1>1. CASE End(p)
  BY <1>1, EndStep
<1>2. CASE ~End(p)
  <2>1. PICK c : c = [NoCommand EXCEPT !.op = "feature", !.at = "allowed", !.alone = cmd[p].alone,
                                       !.device = cmd[p].device, !.found = status]
    OBVIOUS
  <2>2. cmd' = [cmd EXCEPT ![p] = c] /\ ProAllowed(status)
    BY <1>2, <2>1 DEF Conclude
  <2>3. /\ c.op = "feature" /\ c.at = "allowed" /\ c.alone = cmd[p].alone
        /\ c.seen = Absent /\ c.answer = Absent
    BY <2>1 DEF NoCommand
  <2>4. Knows(c)'
    BY <2>2, <2>3, AbsentIsNothing DEF Knows, Storing
  <2>5. Lonely(c)'
    BY <2>3 DEF Lonely
  <2>6. document' \in Document => Aged(document'.fields)
    BY DEF HInv
  <2>7. ~out'
    BY <2>2
  <2> QED  BY <2>2, <2>3, <2>4, <2>5, <2>6, <2>7, SoloStep
<1> QED  BY <1>1, <1>2

LEMMA InitHInv == Init => HInv
<1> SUFFICES ASSUME Init PROVE HInv
  OBVIOUS
<1>1. \A p \in Process : Idle(p)
  BY DEF Init, Idle, NoCommand
<1>2. document = Absent /\ revokedAt = Never /\ ~out /\ ~healed
  BY DEF Init
<1> QED  BY <1>1, <1>2, AbsentIsNothing DEF HInv

\* What the gate lets through is a document with an active licence.
LEMMA AllowedIsActive ==
  ASSUME NEW d \in FileOf(Document), NEW s, NEW device, ProAllowed(StatusOf(d, s, device))
  PROVE  d \in Document /\ d.fields.active
<1>1. d # Absent /\ Verified(d, s) /\ d.fields.active
  BY DEF ProAllowed, StatusOf
<1> QED  BY <1>1 DEF Verified, Readable, FileOf

LEMMA AbsentIsMissing ==
  ASSUME NEW s, NEW device
  PROVE  StatusOf(Absent, s, device).state = "missing"
BY DEF StatusOf

LEMMA Dates ==
  ASSUME IInv
  PROVE  /\ now \in Nat /\ RefreshEvery \in Nat /\ RefreshEvery > 0
         /\ revokedAt # Never => revokedAt \in Nat
         /\ \A d \in Document : d.fields \in Fields /\ d.fields.refreshed \in Nat /\ d.fields.active \in BOOLEAN
<1>1. Time \subseteq Nat
  BY TimeAssumption DEF Time
<1> QED  BY <1>1, TimeAssumption DEF IInv, Files, Past, Document, Fields

\* An answer of the server is as old as the clock says.
LEMMA IssueAged ==
  ASSUME IInv, HInv, NEW device \in Secret
  PROVE  Issue(device) \in Fields /\ Aged(Issue(device)) /\ Issue(device).refreshed = now
<1>1. Issue(device).refreshed = now /\ Issue(device).active = account.active
  BY DEF Issue
<1> QED  BY <1>1, Dates, IssueTyped DEF IInv, HInv, Aged

\* The gate and auth status
LEMMA GateHInv ==
  ASSUME IInv, HInv, NEW p \in Process,
         Read(p) \/ Verify(p) \/ Refresh(p) \/ RefreshFails(p) \/ Reverify(p) \/ Proceed(p)
  PROVE  HInv'
<1>0. ~Idle(p) /\ UNCHANGED <<now, account, revokedAt, document, out, healed, signed, secret>>
  <2>1. \A op \in {"status", "feature"} : op # "none"
    OBVIOUS
  <2> QED  BY <2>1 DEF Read, Verify, Refresh, RefreshFails, Reverify, Proceed, At, Idle, files, history
<1>1. PICK b \in Command : b = cmd[p]
  BY DEF IInv
<1>2. /\ Knows(b) /\ Good(b, now)
      /\ b.alone => Lonely(b)
      /\ out => document = Absent /\ Harmless(b)
      /\ document \in Document => Aged(document.fields)
  BY <1>0, <1>1 DEF HInv, IInv
<1>3. \A fields : Aged(fields)' <=> Aged(fields)
  BY <1>0 DEF Aged
<1>4. ASSUME Read(p) PROVE HInv'
  <2>1. PICK place : place = IF b.at = "read" THEN "verify" ELSE "reverify"
    OBVIOUS
  <2>2. PICK device : device = IF secret = Absent THEN Absent ELSE DeviceOf(secret)
    OBVIOUS
  <2>3. PICK d : d = document
    OBVIOUS
  <2>4. PICK c : c = [b EXCEPT !.seen = d, !.device = device, !.at = place]
    OBVIOUS
  <2>5. /\ cmd' = [cmd EXCEPT ![p] = c] /\ b.at \in {"read", "reread"} /\ UNCHANGED deaf
    BY <1>1, <1>4, <2>1, <2>2, <2>3, <2>4 DEF Read, At, history, IInv
  <2>6. /\ c.at = place /\ c.seen = d /\ c.op = b.op /\ c.alone = b.alone
        /\ c.late = b.late /\ c.answer = b.answer
    BY <2>4 DEF Command
  <2>7. Knows(c)'
    BY <1>0, <1>2, <1>3, <2>1, <2>3, <2>5, <2>6 DEF Knows, Storing
  <2>8. b.alone => Lonely(c)'
    BY <1>0, <1>2, <2>1, <2>3, <2>5, <2>6 DEF Lonely, Storing, Knows
  <2>9. out => Harmless(c)
    BY <1>2, <2>1, <2>3, <2>5, <2>6 DEF Harmless
  <2> QED  BY <1>0, <1>1, <1>2, <2>5, <2>6, <2>7, <2>8, <2>9, SoloStep
<1>5. ASSUME Verify(p) PROVE HInv'
  <2>1. PICK status : status = StatusOf(b.seen, signed, b.device)
    OBVIOUS
  <2>2. b.at = "verify" /\ UNCHANGED deaf /\ b.seen \in FileOf(Document)
    BY <1>1, <1>5 DEF Verify, At, history, Command
  <2>3. out => status.state = "missing"
    BY <1>2, <2>1, <2>2, AbsentIsMissing DEF Harmless
  <2>4. CASE HasUrl(b.op) /\ ShouldRefresh(status)
    <3>1. PICK c : c = [b EXCEPT !.found = status, !.seen = Absent, !.at = "ask"]
      OBVIOUS
    <3>2. cmd' = [cmd EXCEPT ![p] = c] /\ ~out
      BY <1>1, <1>5, <2>1, <2>3, <2>4, <3>1 DEF Verify, IInv, ShouldRefresh
    <3>3. /\ c.at = "ask" /\ c.seen = Absent /\ c.op = b.op /\ c.alone = b.alone
          /\ c.answer = b.answer
      BY <3>1 DEF Command
    <3>4. Knows(c)'
      BY <1>2, <1>3, <2>2, <3>3, AbsentIsNothing DEF Knows, Storing
    <3>5. Lonely(c)'
      BY <1>2, <2>2, <3>3 DEF Knows, Lonely
    <3> QED  BY <1>0, <1>1, <1>2, <2>2, <3>2, <3>3, <3>4, <3>5, SoloStep
  <2>5. CASE ~(HasUrl(b.op) /\ ShouldRefresh(status))
    <3>1. Conclude(p, status)
      BY <1>1, <1>5, <2>1, <2>5 DEF Verify
    <3>2. out => ~ProAllowed(status)
      BY <2>3 DEF ProAllowed
    <3>3. ASSUME ProAllowed(status), b.alone, EnvUrl, revokedAt # Never
          PROVE  now <= revokedAt + RefreshEvery
      <4>1. b.seen \in Document /\ b.seen.fields.active
        BY <2>1, <2>2, <3>3, AllowedIsActive
      <4>2. document = b.seen
        BY <1>2, <2>2, <3>3 DEF Lonely
      <4>3. Readable(document) /\ ~ShouldRefresh(status)
        BY <2>5, <3>3, <4>1, <4>2, AbsentIsNothing DEF HasUrl, Readable
      <4>4. ~(now >= document.fields.refreshed + RefreshEvery)
        BY <3>3, <4>3 DEF ShouldRefresh, ProAllowed
      <4>5. b.seen.fields.refreshed <= revokedAt
        BY <1>2, <3>3, <4>1 DEF Knows, Aged
      <4>6. PICK r \in Nat : r = b.seen.fields.refreshed
        BY <4>1, Dates
      <4> QED  BY <3>3, <4>2, <4>4, <4>5, <4>6, Dates
    <3> QED  BY <1>0, <1>1, <2>2, <3>1, <3>2, <3>3, ConcludeStep
  <2> QED  BY <2>4, <2>5
<1>6. ASSUME Refresh(p) PROVE HInv'
  <2>1. PICK fields : fields = Issue(DeviceOf(secret))
    OBVIOUS
  <2>2. DeviceOf(secret) \in Secret
    BY <1>6, TimeAssumption DEF IInv, Files, Refresh, DeviceOf, FileOf, Secret
  <2>3. fields \in Fields /\ Aged(fields) /\ fields.refreshed = now
    BY <2>1, <2>2, IssueAged
  <2>4. PICK answer : answer = [fields |-> fields, pending |-> FALSE]
    OBVIOUS
  <2>5. answer \in Document /\ answer.fields = fields
    BY <2>3, <2>4 DEF Document
  <2>6. PICK c : c = [b EXCEPT !.answer = answer, !.at = "document"]
    OBVIOUS
  <2>7. cmd' = [cmd EXCEPT ![p] = c] /\ b.at = "ask" /\ UNCHANGED deaf
    BY <1>1, <1>6, <2>1, <2>4, <2>6 DEF Refresh, At, history, IInv
  <2>8. /\ c.at = "document" /\ c.answer = answer /\ c.op = b.op /\ c.alone = b.alone
        /\ c.late = b.late /\ c.seen = b.seen
    BY <2>6 DEF Command
  <2>9. b.op \in {"status", "feature"} /\ ~out
    BY <1>2, <2>7 DEF Knows, Harmless
  <2>10. now <= fields.refreshed + (IF c.late THEN 1 ELSE 0)
    BY <2>3, Dates
  <2>11. Knows(c)'
    BY <1>0, <1>2, <1>3, <2>3, <2>5, <2>8, <2>9, <2>10 DEF Knows
  <2>12. Lonely(c)'
    BY <2>8, <2>9 DEF Lonely
  <2> QED  BY <1>0, <1>1, <1>2, <2>7, <2>8, <2>9, <2>11, <2>12, SoloStep
<1>7. ASSUME RefreshFails(p) PROVE HInv'
  <2>1. deaf' /\ Conclude(p, cmd[p].found)
    BY <1>7 DEF RefreshFails
  <2>2. ~out
    BY <1>1, <1>2, <1>7 DEF RefreshFails, Harmless
  <2> QED  BY <1>0, <2>1, <2>2, ConcludeStep
<1>8. ASSUME Reverify(p) PROVE HInv'
  <2>1. PICK status : status = StatusOf(b.seen, signed, b.device)
    OBVIOUS
  <2>2. b.at = "reverify" /\ UNCHANGED deaf /\ b.seen \in FileOf(Document) /\ Conclude(p, status)
    BY <1>1, <1>8, <2>1 DEF Reverify, At, history, Command
  <2>3. ~out
    BY <1>2, <2>2 DEF Harmless
  <2>4. ASSUME ProAllowed(status), b.alone, EnvUrl, revokedAt # Never
        PROVE  now <= revokedAt + RefreshEvery
    <3>1. b.seen \in Document /\ b.seen.fields.active
      BY <2>1, <2>2, <2>4, AllowedIsActive
    <3>2. b.seen = b.answer /\ b.op # "login"
      BY <1>2, <2>2, <2>4 DEF Lonely, Knows
    <3>3. /\ b.seen.fields.refreshed <= revokedAt
          /\ now <= b.seen.fields.refreshed + (IF b.late THEN 1 ELSE 0)
      BY <1>2, <2>2, <2>4, <3>1, <3>2 DEF Knows, Aged
    <3>4. PICK r \in Nat : r = b.seen.fields.refreshed
      BY <3>1, Dates
    <3> QED  BY <2>4, <3>3, <3>4, Dates
  <2> QED  BY <1>0, <1>1, <2>2, <2>3, <2>4, ConcludeStep
<1>9. ASSUME Proceed(p) PROVE HInv'
  BY <1>0, <1>9, EndStep DEF Proceed, history
<1> QED  BY <1>4, <1>5, <1>6, <1>7, <1>8, <1>9

\* auth login, up to its answer
LEMMA LoginHInv ==
  ASSUME IInv, HInv, NEW p \in Process,
         Secure(p) \/ FillSecret(p) \/ OpenSession(p) \/ Exchange(p) \/ PaymentFound(p) \/ PaymentMissing(p) \/ LoginFails(p)
  PROVE  HInv'
<1>0. ~Idle(p) /\ UNCHANGED <<now, account, revokedAt, document, out, healed, deaf, signed>>
  BY DEF Secure, FillSecret, OpenSession, Exchange, PaymentFound, PaymentMissing, LoginFails, At, Idle, files, history
<1>1. PICK b \in Command : b = cmd[p]
  BY DEF IInv
<1>2. /\ Knows(b) /\ Good(b, now)
      /\ b.alone => Lonely(b)
      /\ out => Harmless(b)
      /\ document \in Document => Aged(document.fields)
  BY <1>0, <1>1 DEF HInv, IInv
<1>3. \A fields : Aged(fields)' <=> Aged(fields)
  BY <1>0 DEF Aged
\* It stores nothing yet, so it has to answer for what it knows only.
<1>m. ASSUME b.at \in OfLogin, NEW c, cmd' = [cmd EXCEPT ![p] = c],
             c.op = b.op, c.at \in OfLogin \cup {"document"}, c.alone = b.alone, c.seen = b.seen,
             c.answer \in Document => Aged(c.answer.fields),
             b.alone => Lonely(c)'
      PROVE  HInv'
  <2>1. b.op = "login" /\ ~out
    BY <1>2, <1>m DEF Good, Harmless
  <2>2. Knows(c)'
    BY <1>2, <1>3, <1>m, <2>1 DEF Knows, OfLogin
  <2> QED  BY <1>0, <1>1, <1>2, <1>m, <2>1, <2>2, SoloStep
<1>4. ASSUME Secure(p) PROVE HInv'
  <2>1. PICK label : GoTo(p, label) /\ \/ label = "fill_secret"
                                       \/ label = "session" /\ secret' # Absent
    BY <1>4 DEF Secure
  <2>2. PICK c : cmd' = [cmd EXCEPT ![p] = c] /\ c.at = label /\ Same(c, b)
    BY <1>1, <2>1, GoToIs
  <2>3. Lonely(c)'
    BY <2>1, <2>2 DEF Lonely, Storing
  <2> QED  BY <1>2, <1>4, <1>1, <1>m, <2>1, <2>2, <2>3 DEF Secure, At, OfLogin, Same, Knows
<1>5. ASSUME FillSecret(p) PROVE HInv'
  <2>1. PICK c : cmd' = [cmd EXCEPT ![p] = c] /\ c.at = "session" /\ Same(c, b)
    BY <1>1, <1>5, GoToIs DEF FillSecret
  <2>2. secret' \in Secret
    BY <1>5, TimeAssumption DEF FillSecret, IInv, Files, Secret
  <2>3. Lonely(c)'
    BY <2>1, <2>2, AbsentIsNothing DEF Lonely, Storing
  <2> QED  BY <1>2, <1>5, <1>1, <1>m, <2>1, <2>3 DEF FillSecret, At, OfLogin, Same, Knows
<1>6. ASSUME OpenSession(p) PROVE HInv'
  <2>1. CASE End(p)
    BY <1>0, <2>1, EndStep
  <2>2. CASE GoTo(p, "exchange")
    <3>1. PICK c : cmd' = [cmd EXCEPT ![p] = c] /\ c.at = "exchange" /\ Same(c, b)
      BY <1>1, <2>2, GoToIs
    <3>2. b.at = "session" /\ secret' = secret
      BY <1>1, <1>6 DEF OpenSession, At
    <3>3. b.op = "login"
      BY <1>2, <3>2 DEF Good, OfLogin
    <3>4. b.alone => Lonely(c)'
      BY <1>2, <3>1, <3>2, <3>3 DEF Lonely, Storing
    <3> QED  BY <1>2, <1>m, <3>1, <3>2, <3>4 DEF OfLogin, Same, Knows
  <2> QED  BY <1>6, <2>1, <2>2 DEF OpenSession
<1>7. ASSUME Exchange(p) PROVE HInv'
  <2>1. PICK fields : fields = Issue(DeviceOf(secret))
    OBVIOUS
  <2>2. DeviceOf(secret) \in Secret
    BY <1>7, TimeAssumption DEF IInv, Files, Exchange, DeviceOf, FileOf, Secret
  <2>3. Aged(fields)
    BY <2>1, <2>2, IssueAged
  <2>4. PICK answer : answer = [fields |-> fields, pending |-> FALSE]
    OBVIOUS
  <2>5. PICK place : place = IF fields.pro THEN "document" ELSE "payment"
    OBVIOUS
  <2>6. PICK c : c = [b EXCEPT !.answer = answer, !.base = answer, !.at = place]
    OBVIOUS
  <2>7. cmd' = [cmd EXCEPT ![p] = c] /\ b.at = "exchange" /\ secret # Absent /\ UNCHANGED secret
    BY <1>1, <1>7, <2>1, <2>4, <2>5, <2>6 DEF Exchange, At, files, IInv
  <2>8. /\ c.at = place /\ c.answer = answer /\ c.base = answer /\ c.op = b.op
        /\ c.alone = b.alone /\ c.seen = b.seen
    BY <2>6 DEF Command
  <2>9. /\ fields.pro = account.pro /\ fields.until = account.until
        /\ fields.device = DeviceOf(secret) /\ answer.fields = fields
    BY <2>1, <2>4 DEF Issue
  <2>10. Lonely(c)'
    BY <1>0, <2>5, <2>7, <2>8, <2>9 DEF Lonely, Paid, Storing, DeviceOf
  <2> QED  BY <1>m, <2>3, <2>5, <2>7, <2>8, <2>9, <2>10 DEF OfLogin
<1>8. ASSUME PaymentFound(p) PROVE HInv'
  <2>1. PICK fields : fields = Issue(b.base.fields.device)
    OBVIOUS
  <2>2. b.at = "payment" /\ b.op = "login" /\ account.pro /\ UNCHANGED secret
    BY <1>1, <1>2, <1>8 DEF PaymentFound, At, files, Good, OfLogin
  <2>3. b.base.fields.device \in Secret
    BY <1>2, <2>2 DEF Good, Document, Fields
  <2>4. Aged(fields)
    BY <2>1, <2>3, IssueAged
  <2>5. PICK answer : answer = [fields |-> fields, pending |-> FALSE]
    OBVIOUS
  <2>6. PICK c : c = [b EXCEPT !.answer = answer, !.at = "document"]
    OBVIOUS
  <2>7. cmd' = [cmd EXCEPT ![p] = c]
    BY <1>1, <1>8, <2>1, <2>5, <2>6 DEF PaymentFound, IInv
  <2>8. /\ c.at = "document" /\ c.answer = answer /\ c.op = b.op
        /\ c.alone = b.alone /\ c.seen = b.seen
    BY <2>6 DEF Command
  <2>9. /\ fields.pro = account.pro /\ fields.until = account.until
        /\ fields.device = b.base.fields.device /\ answer.fields = fields
    BY <2>1, <2>5 DEF Issue
  <2>10. b.alone => Lonely(c)'
    BY <1>0, <1>2, <2>2, <2>8, <2>9 DEF Lonely, Paid, Storing, DeviceOf
  <2> QED  BY <1>m, <2>2, <2>4, <2>7, <2>8, <2>9, <2>10 DEF OfLogin
<1>9. ASSUME PaymentMissing(p) PROVE HInv'
  <2>1. b.at = "payment" /\ b.op = "login" /\ UNCHANGED secret /\ b.answer \in Document
    BY <1>1, <1>2, <1>9 DEF PaymentMissing, At, files, Good, OfLogin
  <2>2. PICK answer : answer = [b.answer EXCEPT !.pending = TRUE]
    OBVIOUS
  <2>3. answer.pending /\ answer.fields = b.answer.fields
    BY <2>1, <2>2 DEF Document
  <2>4. PICK c : c = [b EXCEPT !.answer = answer, !.at = "document"]
    OBVIOUS
  <2>5. cmd' = [cmd EXCEPT ![p] = c]
    BY <1>1, <1>9, <2>2, <2>4 DEF PaymentMissing, IInv, Command
  <2>6. /\ c.at = "document" /\ c.answer = answer /\ c.op = b.op
        /\ c.alone = b.alone /\ c.seen = b.seen
    BY <2>4 DEF Command
  <2>7. b.alone => Lonely(c)'
    BY <1>2, <2>1, <2>3, <2>6 DEF Lonely, Storing
  <2>8. Aged(answer.fields)
    BY <1>2, <2>1, <2>3 DEF Knows
  <2> QED  BY <1>m, <2>1, <2>5, <2>6, <2>7, <2>8 DEF OfLogin
<1>10. ASSUME LoginFails(p) PROVE HInv'
  BY <1>0, <1>10, EndStep DEF LoginFails
<1> QED  BY <1>4, <1>5, <1>6, <1>7, <1>8, <1>9, <1>10

\* Storing an answer
LEMMA StoreHInv ==
  ASSUME IInv, HInv, NEW p \in Process,
         EmptyDocument(p) \/ FillDocument(p) \/ EmptySignature(p) \/ FillSignature(p) \/ EndSession(p)
  PROVE  HInv'
<1>0. ~Idle(p) /\ UNCHANGED <<now, account, revokedAt, out, deaf, secret>>
  BY DEF EmptyDocument, FillDocument, EmptySignature, FillSignature, EndSession, At, history
<1>1. PICK b \in Command : b = cmd[p]
  BY DEF IInv
<1>2. /\ Knows(b) /\ Good(b, now)
      /\ b.alone => Lonely(b)
      /\ out => Harmless(b)
      /\ document \in Document => Aged(document.fields)
  BY <1>0, <1>1 DEF HInv, IInv
<1>3. \A fields : (Aged(fields)' <=> Aged(fields)) /\ (Paid(fields)' <=> Paid(fields))
  BY <1>0 DEF Aged, Paid, DeviceOf
<1>4. b.at \in Storing \cup {"end_session"} /\ b.answer \in Document /\ ~out
  BY <1>1, <1>2 DEF EmptyDocument, FillDocument, EmptySignature, FillSignature, EndSession, At,
                    Storing, Good, Harmless
<1>m. ASSUME b.at \in Storing, UNCHANGED healed,
             NEW label \in Storing \cup {"reread", "end_session"}, GoTo(p, label),
             document' \in Document => Aged(document'.fields),
             label = "reread" => b.op # "login",
             label = "end_session" => b.op = "login" /\ ~b.answer.pending /\ signed' = b.answer.fields,
             label \in {"signature", "fill_signature", "reread", "end_session"} =>
               document' = b.answer \/ ~b.alone
      PROVE  HInv'
  <2>1. PICK c : cmd' = [cmd EXCEPT ![p] = c] /\ c.at = label /\ Same(c, b)
    BY <1>1, <1>m, GoToIs
  <2>2. label = "reread" => c.op \in {"status", "feature"}
    <3>1. b.op \in {"login", "logout", "status", "feature"}
      BY <1>0, <1>1 DEF Command, Idle, Op
    <3> QED  BY <1>2, <1>m, <2>1, <3>1 DEF Same, Knows
  <2>3. Knows(c)'
    <3>1. label \notin {"read", "verify", "ask", "allowed", "reverify",
                        "remove_document", "remove_signature", "remove_session"}
      BY <1>m DEF Storing
    <3>2. c.op # "login" => now <= c.answer.fields.refreshed + (IF c.late THEN 1 ELSE 0)
      BY <1>2, <1>m, <2>1 DEF Same, Knows
    <3> QED  BY <1>0, <1>2, <1>3, <1>4, <1>m, <2>1, <2>2, <3>1, <3>2 DEF Same, Knows
  <2>4. b.alone => Lonely(c)'
    BY <1>0, <1>2, <1>3, <1>m, <2>1 DEF Same, Lonely, Storing
  <2> QED  BY <1>0, <1>1, <1>4, <1>m, <2>1, <2>3, <2>4, SoloStep DEF Same
<1>5. ASSUME EmptyDocument(p) PROVE HInv'
  BY <1>1, <1>5, <1>m, AbsentIsNothing DEF EmptyDocument, At, Storing, history
<1>6. ASSUME FillDocument(p) PROVE HInv'
  <2>1. document' = b.answer /\ Aged(b.answer.fields) /\ UNCHANGED healed
    BY <1>1, <1>2, <1>4, <1>6 DEF FillDocument, Knows, history
  <2> QED  BY <1>1, <1>6, <1>m, <2>1 DEF FillDocument, At, Storing
<1>7. ASSUME EmptySignature(p) PROVE HInv'
  <2>1. b.alone => document = b.answer
    BY <1>1, <1>2, <1>7 DEF EmptySignature, At, Lonely
  <2>2. UNCHANGED <<document, healed>> /\ GoTo(p, "fill_signature") /\ b.at = "signature"
    BY <1>1, <1>7 DEF EmptySignature, At, history
  <2> QED  BY <1>2, <1>m, <2>1, <2>2 DEF Storing
<1>8. ASSUME FillSignature(p) PROVE HInv'
  <2>1. /\ b.alone => document = b.answer
        /\ UNCHANGED <<document, healed>> /\ b.at = "fill_signature"
        /\ signed' = b.answer.fields /\ Stored(p)
    BY <1>1, <1>2, <1>8 DEF FillSignature, At, Lonely, history
  <2>2. CASE End(p)
    BY <1>0, <2>1, <2>2, EndStep
  <2>3. CASE GoTo(p, "reread") /\ b.op # "login"
    BY <1>2, <1>m, <2>1, <2>3 DEF Storing
  <2>4. CASE GoTo(p, "end_session") /\ b.op = "login" /\ ~b.answer.pending
    BY <1>2, <1>m, <2>1, <2>4 DEF Storing
  <2> QED  BY <1>1, <2>1, <2>2, <2>3, <2>4 DEF Stored
<1>9. ASSUME EndSession(p) PROVE HInv'
  <2>1. PICK c : c = NoCommand
    OBVIOUS
  <2>2. /\ c.op = "none" /\ cmd' = [cmd EXCEPT ![p] = c] /\ UNCHANGED <<document, signed>>
        /\ b.at = "end_session" /\ healed' = (b.alone /\ b.answer.fields.active)
    BY <1>1, <1>9, <2>1 DEF EndSession, At, End, NoCommand
  <2>3. healed' => b.alone /\ Licensed'
    <3> SUFFICES ASSUME b.alone, b.answer.fields.active PROVE Licensed'
      BY <1>1, <2>2
    <3>1. /\ document = b.answer /\ signed = b.answer.fields /\ secret # Absent
          /\ Paid(b.answer.fields)
      BY <1>2, <2>2 DEF Lonely, Knows
    <3> QED  BY <1>0, <1>3, <1>4, <2>2, <3>1 DEF Licensed
  <2> QED  BY <1>0, <1>1, <1>2, <1>4, <2>2, <2>3, SoloStep
<1> QED  BY <1>5, <1>6, <1>7, <1>8, <1>9

\* auth logout, and a process that dies
LEMMA LogoutHInv ==
  ASSUME IInv, HInv, NEW p \in Process,
         RemoveDocument(p) \/ RemoveSignature(p) \/ RemoveSession(p) \/ Die(p)
  PROVE  HInv'
<1>0. ~Idle(p) /\ UNCHANGED <<now, account, revokedAt, healed, secret>> /\ (deaf => deaf')
  BY DEF RemoveDocument, RemoveSignature, RemoveSession, Die, At, history, files
<1>1. PICK b \in Command : b = cmd[p]
  BY DEF IInv
<1>2. /\ Knows(b) /\ Good(b, now)
      /\ b.alone => Lonely(b)
      /\ out => document = Absent /\ Harmless(b)
      /\ document \in Document => Aged(document.fields)
  BY <1>0, <1>1 DEF HInv, IInv
<1>3. \A fields : Aged(fields)' <=> Aged(fields)
  BY <1>0 DEF Aged
<1>m. ASSUME NEW label \in {"remove_signature", "remove_session"}, GoTo(p, label),
             b.at \in {"remove_document", "remove_signature"}, UNCHANGED out,
             document' = Absent \/ document' = document,
             b.alone => document' = Absent
      PROVE  HInv'
  <2>1. PICK c : cmd' = [cmd EXCEPT ![p] = c] /\ c.at = label /\ Same(c, b)
    BY <1>1, <1>m, GoToIs
  <2>2. c.op = "logout"
    BY <1>2, <1>m, <2>1 DEF Knows, Same
  <2>3. Knows(c)'
    BY <1>2, <1>3, <1>m, <2>1, <2>2 DEF Knows, Same, Storing
  <2>4. b.alone => Lonely(c)'
    BY <1>m, <2>1, <2>2 DEF Lonely
  <2>5. Harmless(c)
    BY <1>m, <2>1, <2>2 DEF Harmless
  <2>6. document' \in Document => Aged(document'.fields)
    BY <1>2, <1>m, AbsentIsNothing
  <2> QED  BY <1>0, <1>1, <1>2, <1>m, <2>1, <2>2, <2>3, <2>4, <2>5, <2>6, SoloStep DEF Same
<1>4. ASSUME RemoveDocument(p) PROVE HInv'
  BY <1>1, <1>4, <1>m DEF RemoveDocument, At, history
<1>5. ASSUME RemoveSignature(p) PROVE HInv'
  <2>1. b.at = "remove_signature" /\ UNCHANGED <<document, out>> /\ GoTo(p, "remove_session")
    BY <1>1, <1>5 DEF RemoveSignature, At, history
  <2> QED  BY <1>2, <1>m, <2>1 DEF Lonely
<1>6. ASSUME RemoveSession(p) PROVE HInv'
  <2>1. PICK c : c = NoCommand
    OBVIOUS
  <2>2. /\ c.op = "none" /\ cmd' = [cmd EXCEPT ![p] = c] /\ UNCHANGED document
        /\ b.at = "remove_session" /\ out' = b.alone
    BY <1>1, <1>6, <2>1 DEF RemoveSession, At, End, NoCommand
  <2>3. out' => document' = Absent
    BY <1>2, <2>2 DEF Lonely
  <2> QED  BY <1>0, <1>1, <1>2, <2>2, <2>3, SoloStep
<1>7. ASSUME Die(p) PROVE HInv'
  BY <1>0, <1>7, EndStep DEF Die, files
<1> QED  BY <1>4, <1>5, <1>6, <1>7

\* A command starts; the others are no longer alone.
LEMMA StartHInv ==
  ASSUME IInv, HInv, NEW p \in Process, NEW op \in Op, Start(p, op)
  PROVE  HInv'
<1>0. /\ Idle(p) /\ ~healed'
      /\ UNCHANGED <<now, document, signed, secret, account, revokedAt, deaf>>
      /\ out' => out /\ op # "login"
  BY DEF Start, files
<1>1. PICK c : c = [NoCommand EXCEPT !.op = op, !.at = FirstStep(op), !.alone = AllIdle(Others(p))]
  OBVIOUS
<1>2. /\ cmd'[p] = c
      /\ \A q \in Process : q # p => cmd'[q] = IF Idle(q) THEN cmd[q] ELSE [cmd[q] EXCEPT !.alone = FALSE]
  BY <1>1 DEF Start
<1>3. \A fields : Aged(fields)' <=> Aged(fields)
  BY <1>0 DEF Aged
<1>4. /\ c.op = op /\ c.at = FirstStep(op) /\ (c.alone <=> AllIdle(Others(p)))
      /\ c.seen = Absent /\ c.answer = Absent
  BY <1>1, AllIdleIsBoolean DEF NoCommand
<1>5. Knows(c)' /\ Lonely(c)'
  BY <1>4, AbsentIsNothing DEF Knows, Lonely, FirstStep, Op, Storing
<1>6. ASSUME NEW q \in Process, q # p, ~Idle(q)'
      PROVE  ~Idle(q) /\ ~cmd'[q].alone /\ Knows(cmd[q])' /\ (Harmless(cmd[q]) => Harmless(cmd'[q]))
  <2>1. PICK b \in Command : b = cmd[q]
    BY DEF IInv
  <2>2. ~Idle(q)
    BY <1>2, <1>6 DEF Idle
  <2>3. PICK d : d = [b EXCEPT !.alone = FALSE]
    OBVIOUS
  <2>4. cmd'[q] = d
    BY <1>2, <1>6, <2>1, <2>2, <2>3
  <2>5. /\ d.op = b.op /\ d.at = b.at /\ d.late = b.late /\ d.seen = b.seen /\ d.answer = b.answer
        /\ ~d.alone
    BY <2>3 DEF Command
  <2>6. Knows(b)
    BY <2>1, <2>2 DEF HInv
  <2>7. Knows(d)'
    BY <1>0, <1>3, <2>5, <2>6 DEF Knows
  <2>8. Harmless(b) => Harmless(d)
    BY <2>5 DEF Harmless
  <2> QED  BY <2>1, <2>2, <2>4, <2>5, <2>7, <2>8 DEF Knows, Aged
<1>7. ASSUME NEW q \in Process, ~Idle(q)' PROVE Knows(cmd[q])'
  BY <1>2, <1>5, <1>6, <1>7 DEF Knows, Aged
<1>8. ASSUME NEW q \in Process, ~Idle(q)', cmd'[q].alone
      PROVE  AllIdle(Others(q))' /\ Lonely(cmd[q])'
  <2>1. q = p /\ AllIdle(Others(p))
    BY <1>2, <1>4, <1>6, <1>8
  <2>2. AllIdle(Others(q))'
    BY <1>2, <2>1 DEF AllIdle, Others, Idle
  <2> QED  BY <1>2, <1>5, <2>1, <2>2 DEF Lonely, Paid
<1>9. document' \in Document => Aged(document.fields)'
  BY <1>0 DEF HInv, Aged
<1>10. ASSUME out'
       PROVE  document' = Absent /\ \A q \in Process : ~Idle(q)' => Harmless(cmd[q])'
  <2>1. document' = Absent /\ op # "login" /\ \A q \in Process : ~Idle(q) => Harmless(cmd[q])
    BY <1>0, <1>10 DEF HInv
  <2>2. Harmless(c)
    BY <1>4, <2>1 DEF Harmless, FirstStep, Op
  <2>3. ASSUME NEW q \in Process, ~Idle(q)' PROVE Harmless(cmd'[q])
    BY <1>2, <1>6, <2>1, <2>2, <2>3
  <2> QED  BY <2>1, <2>3 DEF Harmless
<1>11. revokedAt' # Never => ~account'.active
  BY <1>0 DEF HInv
<1> QED  BY <1>0, <1>7, <1>8, <1>9, <1>10, <1>11 DEF HInv

\* The clock moves: at most once while a command runs, and not over an open gate.
LEMMA TickHInv ==
  ASSUME IInv, HInv, Tick
  PROVE  HInv'
<1>0. /\ now' = now + 1
      /\ UNCHANGED <<document, signed, secret, account, revokedAt, deaf, out, healed>>
  BY DEF Tick, files, history
<1>1. \A q \in Process : cmd'[q] = IF Idle(q) THEN cmd[q] ELSE [cmd[q] EXCEPT !.late = TRUE]
  BY DEF Tick
<1>2. ASSUME NEW d \in Document, Aged(d.fields) PROVE Aged(d.fields)'
  <2>1. PICK r \in Nat : r = d.fields.refreshed
    BY Dates
  <2> QED  BY <1>0, <1>2, <2>1, Dates DEF Aged
<1>3. ASSUME NEW q \in Process, ~Idle(q)'
      PROVE  /\ ~Idle(q) /\ Knows(cmd[q])' /\ (Harmless(cmd[q]) => Harmless(cmd'[q]))
             /\ (cmd'[q].alone => cmd[q].alone) /\ (Lonely(cmd[q]) => Lonely(cmd[q])')
  <2>1. PICK b \in Command : b = cmd[q]
    BY DEF IInv
  <2>2. ~Idle(q)
    BY <1>1, <1>3 DEF Idle
  <2>3. PICK d : d = [b EXCEPT !.late = TRUE]
    OBVIOUS
  <2>4. cmd'[q] = d
    BY <1>1, <2>1, <2>2, <2>3
  <2>5. /\ d.op = b.op /\ d.at = b.at /\ d.late /\ d.seen = b.seen /\ d.answer = b.answer
        /\ d.alone = b.alone /\ d.base = b.base
    BY <2>3 DEF Command
  <2>6. Knows(b) /\ ~b.late /\ b.at # "allowed"
    BY <2>1, <2>2 DEF HInv, Tick, At
  <2>7. ASSUME b.answer \in Document, now <= b.answer.fields.refreshed + (IF b.late THEN 1 ELSE 0)
        PROVE  now' <= d.answer.fields.refreshed + (IF d.late THEN 1 ELSE 0)
    <3>1. PICK r \in Nat : r = b.answer.fields.refreshed
      BY <2>7, Dates
    <3> QED  BY <1>0, <2>5, <2>6, <2>7, <3>1, Dates
  <2>8. Knows(d)'
    BY <1>2, <2>5, <2>6, <2>7 DEF Knows
  <2>9. Harmless(b) => Harmless(d)
    BY <2>5 DEF Harmless
  <2>10. Lonely(b) => Lonely(d)'
    BY <1>0, <2>5 DEF Lonely, Paid, DeviceOf
  <2> QED  BY <2>1, <2>2, <2>4, <2>5, <2>8, <2>9, <2>10 DEF Knows, Aged, Lonely, Paid
<1>4. \A q \in Process : Idle(q) => Idle(q)'
  BY <1>1 DEF Idle
<1>5. ASSUME NEW q \in Process, ~Idle(q)', cmd'[q].alone
      PROVE  AllIdle(Others(q))' /\ Lonely(cmd[q])'
  <2>1. AllIdle(Others(q)) /\ Lonely(cmd[q])
    BY <1>3, <1>5 DEF HInv
  <2>2. AllIdle(Others(q))'
    BY <1>4, <2>1 DEF AllIdle, Others
  <2> QED  BY <1>3, <1>5, <2>1, <2>2
<1>6. document' \in Document => Aged(document.fields)'
  <2>1. PICK d : d = document
    OBVIOUS
  <2>2. d \in Document => Aged(d.fields)'
    BY <1>2, <2>1 DEF HInv
  <2> QED  BY <1>0, <2>1, <2>2 DEF Aged
<1>7. out' => document' = Absent /\ \A q \in Process : ~Idle(q)' => Harmless(cmd[q])'
  BY <1>0, <1>3 DEF HInv, Harmless
<1>8. healed' => AllIdle(Process)' /\ Licensed'
  BY <1>0, <1>4 DEF HInv, AllIdle, Licensed, Paid, DeviceOf
<1>9. revokedAt' # Never => ~account'.active
  BY <1>0 DEF HInv
<1> QED  BY <1>3, <1>5, <1>6, <1>7, <1>8, <1>9 DEF HInv

\* The server and the files, between the steps of commands
LEMMA WorldHInv ==
  ASSUME IInv, HInv, LoseSecret \/ Pay \/ Revoke
  PROVE  HInv'
<1>0. UNCHANGED <<now, cmd, document, signed, out>>
  BY DEF LoseSecret, Pay, Revoke, files, history
<1>1. \A p \in Process : Idle(p)' <=> Idle(p)
  BY <1>0 DEF Idle
<1>2. ASSUME LoseSecret PROVE HInv'
  <2>1. \A p \in Process : Idle(p)
    BY <1>2 DEF LoseSecret, AllIdle
  <2>2. ~healed' /\ UNCHANGED <<account, revokedAt>>
    BY <1>2 DEF LoseSecret
  <2> QED  BY <1>0, <1>1, <2>1, <2>2 DEF HInv, Aged
<1>3. ASSUME Pay PROVE HInv'
  <2>1. /\ UNCHANGED <<revokedAt, deaf, healed, secret>>
        /\ account.active /\ ~account.pro /\ revokedAt = Never
    BY <1>3 DEF Pay, files, history, HInv
  <2>2. \A fields : Aged(fields)' <=> Aged(fields)
    BY <1>0, <2>1 DEF Aged
  <2>3. \A fields : ~Paid(fields)
    BY <2>1 DEF Paid
  <2>4. \A p \in Process : Knows(cmd[p]) => Knows(cmd[p])'
    BY <1>0, <2>1, <2>2 DEF Knows, Aged
  <2>5. \A p \in Process : Lonely(cmd[p]) => Lonely(cmd[p])'
    BY <1>0, <2>1, <2>3 DEF Lonely, DeviceOf
  <2>6. ~healed'
    BY <2>1, <2>3 DEF HInv, Licensed
  <2> QED  BY <1>0, <1>1, <2>1, <2>2, <2>4, <2>5, <2>6 DEF HInv, AllIdle, Others, Idle, Harmless, Aged
<1>4. ASSUME Revoke PROVE HInv'
  <2>1. /\ revokedAt' = now /\ ~deaf' /\ UNCHANGED <<secret, healed>>
        /\ account' = [account EXCEPT !.active = FALSE]
    BY <1>4 DEF Revoke, files
  <2>2. account'.pro = account.pro /\ account'.until = account.until /\ ~account'.active
    BY <2>1 DEF IInv, Files
  <2>3. \A fields : Aged(fields) => Aged(fields)'
    BY <1>0, <2>1 DEF Aged
  <2>4. \A fields : Paid(fields)' <=> Paid(fields)
    BY <2>1, <2>2 DEF Paid, DeviceOf
  <2>5. now' <= revokedAt' + RefreshEvery
    BY <1>0, <2>1, Dates
  <2>6. ASSUME NEW p \in Process, Knows(cmd[p]) PROVE Knows(cmd[p])'
    <3>1. PICK b : b = cmd[p]
      OBVIOUS
    <3>2. Knows(b)'
      BY <1>0, <2>3, <2>5, <2>6, <3>1 DEF Knows
    <3> QED  BY <1>0, <3>1, <3>2 DEF Knows, Aged
  <2>7. ASSUME NEW p \in Process, Lonely(cmd[p]) PROVE Lonely(cmd[p])'
    <3>1. PICK b : b = cmd[p]
      OBVIOUS
    <3>2. Lonely(b)'
      BY <1>0, <2>1, <2>4, <2>7, <3>1 DEF Lonely, DeviceOf
    <3> QED  BY <1>0, <3>1, <3>2 DEF Lonely, Paid
  <2>8. healed' => AllIdle(Process)' /\ Licensed'
    BY <1>0, <2>1, <2>4 DEF HInv, AllIdle, Idle, Licensed
  <2>9. document' \in Document => Aged(document.fields)'
    <3>1. PICK d : d = document
      OBVIOUS
    <3>2. d \in Document => Aged(d.fields)'
      BY <2>3, <3>1 DEF HInv
    <3> QED  BY <1>0, <3>1, <3>2 DEF Aged
  <2> QED  BY <1>0, <1>1, <2>2, <2>6, <2>7, <2>8, <2>9 DEF HInv, AllIdle, Others, Idle, Harmless
<1> QED  BY <1>2, <1>3, <1>4

LEMMA NextHInv ==
  ASSUME IInv, HInv, [Next]_vars
  PROVE  HInv'
<1>1. CASE UNCHANGED vars
  BY <1>1 DEF vars, files, history, HInv, Knows, Aged, Lonely, Paid, Licensed, Harmless,
              AllIdle, Others, Idle, DeviceOf
<1>2. ASSUME NEW p \in Process, NEW op \in Op, Start(p, op) PROVE HInv'
  BY <1>2, StartHInv
<1>3. ASSUME NEW p \in Process, Step(p) \/ Die(p) PROVE HInv'
  BY <1>3, GateHInv, LoginHInv, StoreHInv, LogoutHInv DEF Step
<1> QED  BY <1>1, <1>2, <1>3, TickHInv, WorldHInv DEF Next

LEMMA HistoryInvariance == Spec => []HInv
<1> QED  BY Invariance, InitHInv, NextHInv, PTL DEF Spec

-----------------------------------------------------------------------------
(* Theorems *)

\* The licence files, the server's account and the state of each command keep their
\* types, whatever mixture of writes the files are left with.
THEOREM TypeCorrect == Spec => []TypeOK
<1>1. IInv => TypeOK
  BY DEF IInv, Files, Past, Good, Command, Status, TypeOK, Idle
<1> QED  BY <1>1, Invariance, PTL

\* A Pro command is let through only on a licence that the server issued as paid and
\* not revoked, to this device, and that is not past its grace period.
THEOREM GateIsGenuine == Spec => []GrantIsGenuine
<1>1. IInv => GrantIsGenuine
  BY DEF IInv, Good, Genuine, GrantIsGenuine, At
<1> QED  BY <1>1, Invariance, PTL

\* After a logout during which nothing else ran, no command but a login ever brings a
\* licence document back: however many run, fail, die and are refreshed.
THEOREM LogoutIsFinal == Spec => []LoggedOutStaysOut
<1>1. HInv => LoggedOutStaysOut
  BY DEF HInv, LoggedOutStaysOut
<1> QED  BY <1>1, HistoryInvariance, PTL

\* Whatever mixture of files earlier commands had left, a login of a paying customer
\* during which nothing else ran leaves files that the gate accepts until the account
\* runs out or the secret is lost.
THEOREM LoginRepairs == Spec => []LoginHeals
<1>1. IInv /\ HInv => LoginHeals
  <2> SUFFICES ASSUME IInv, HInv, healed, now <= account.until
               PROVE  ProAllowed(StatusOf(document, signed, DeviceOf(secret)))
    BY DEF LoginHeals
  <2>1. PICK d \in Document : d = document
    BY DEF HInv, Licensed
  <2>2. /\ signed = d.fields /\ secret # Absent
        /\ d.fields.active /\ d.fields.pro /\ d.fields.device = DeviceOf(secret)
        /\ now <= d.fields.until /\ d.fields \in Fields
    BY <2>1 DEF HInv, Licensed, Paid, Document
  <2>3. /\ d # Absent /\ d # Broken /\ signed # Absent
    BY <2>1, <2>2, AbsentIsNothing
  <2>4. Readable(d) /\ Verified(d, signed)
    BY <2>2, <2>3 DEF Readable, Verified
  <2>5. LET status == StatusOf(d, signed, DeviceOf(secret))
        IN  status.state = "active" /\ status.pro
    BY <2>2, <2>3, <2>4 DEF StatusOf
  <2> QED  BY <2>1, <2>5 DEF ProAllowed
<1> QED  BY <1>1, Invariance, HistoryInvariance, PTL

\* Unless a refresh failed since, a command that runs alone is not let through on a
\* revoked licence more than one refresh interval after the revocation, for every length
\* of the interval, the terms and the grace period.
THEOREM RevocationIsSeen == Spec => []RevocationSeen
<1>1. HInv => RevocationSeen
  BY DEF HInv, Knows, RevocationSeen, At
<1> QED  BY <1>1, HistoryInvariance, PTL
=============================================================================
