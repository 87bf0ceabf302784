------------------------------ MODULE Entitlement ------------------------------
(***************************************************************************)
(* The Pro licence of a machine: `auth login`, `auth status`, `auth        *)
(* logout` and the gate in front of observe, notify and history compare    *)
(* (src/engine/src/cli.rs, src/engine/src/entitlement.rs).                 *)
(*                                                                         *)
(* The licence is kept in four files of one directory that all commands of *)
(* all workspaces share without a lock: a document, the server's signature *)
(* of it, the secret that makes the machine's identity, and the session of *)
(* a login.  fs::write empties a file before it fills it.  Commands        *)
(* interleave, fail and die at every step; the server answers or does not. *)
(* A command takes less than one unit of time.                             *)
(***************************************************************************)
EXTENDS Integers, FiniteSets

CONSTANTS
  Process,      \* commands that may run at once
  Absent,       \* no such file
  Broken,       \* a file that was emptied and not yet filled
  EnvUrl,       \* does AUDIT_RISK_AUTH_BASE_URL name a server?
  WorkspaceUrl, \* does the workspace's delivery.json name one?
  RefreshEvery, \* ENTITLEMENT_REFRESH_INTERVAL_HOURS
  GraceTime,    \* ENTITLEMENT_GRACE_HOURS
  Terms,        \* how long the server may let a licence be valid
  MaxTime,      \* bound: the clock
  MaxCommands,  \* bound: the commands started
  MaxSecrets    \* bound: the secrets generated

ASSUME UrlAssumption == EnvUrl \in BOOLEAN /\ WorkspaceUrl \in BOOLEAN
ASSUME TimeAssumption ==
  /\ RefreshEvery \in Nat \ {0} /\ GraceTime \in Nat /\ Terms \subseteq Nat
  /\ MaxTime \in Nat /\ MaxCommands \in Nat /\ MaxSecrets \in Nat

VARIABLES
  now,      \* the clock
  document, \* entitlement.json
  signed,   \* entitlement.sig: the fields it signs
  secret,   \* device_secret
  session,  \* session.json: is a login pending?
  account,  \* what the server knows of the customer
  cmd,      \* per process, the command it runs
  started,  \* the number of commands so far
  secrets,  \* the number of secrets so far
  revokedAt,\* history: when the server revoked the licence
  deaf,     \* history: a refresh has failed since then
  healed,   \* history: a login of a paying customer succeeded and nothing came between
  out       \* history: a logout succeeded and no login began since

files == <<document, signed, secret, session>>
history == <<revokedAt, deaf, healed, out>>
vars == <<now, files, account, cmd, started, secrets, history>>

Time == 0..MaxTime
Never == -1
Secret == 0..MaxSecrets
Until == {start + term : start \in Time, term \in Terms} \cup {0}
Fields == [pro : BOOLEAN, active : BOOLEAN, device : Secret, until : Until, refreshed : Time]

\* payment_pending is in the document and not signed.
Document == [fields : Fields, pending : BOOLEAN]
Readable(d) == d \notin {Absent, Broken}

ASSUME FileAssumption ==
  /\ Absent # Broken
  /\ \A x \in {Absent, Broken} : x \notin Document /\ x \notin Fields /\ x \notin Secret

State == {"missing", "invalid", "device_mismatch", "revoked", "active", "grace", "expired"}
Op == {"login", "logout", "status", "feature"}

NoStatus == [state |-> "missing", pro |-> FALSE, fields |-> Absent]

\* seen: the document read; found: the status before a refresh; answer: what the
\* server sent; base: its first answer to a login.
NoCommand == [op |-> "none", at |-> "idle", late |-> FALSE, alone |-> TRUE, device |-> Absent,
              seen |-> Absent, found |-> NoStatus, answer |-> Absent, base |-> Absent]

Idle(p) == cmd[p].op = "none"
Others(p) == Process \ {p}
AllIdle(S) == \A q \in S : Idle(q)

-----------------------------------------------------------------------------
(* Reading the licence *)

\* verify_entitlement_signature
Verified(d, s) == Readable(d) /\ s = d.fields

\* A secret read while it is written is the empty string, which is some secret: 0.
DeviceOf(s) == IF s = Broken THEN 0 ELSE s

\* Fault: the licence of another device passes.
StatusOf_AnyDevice(d, s, device) ==
  LET is(state) == [state |-> state, pro |-> Readable(d) /\ d.fields.pro,
                    fields |-> IF Readable(d) THEN d.fields ELSE Absent]
  IN  CASE d = Absent -> is("missing")
        [] d # Absent /\ s = Absent -> is("invalid")
        [] d # Absent /\ s # Absent /\ secret = Absent -> is("device_mismatch")
        [] OTHER ->
             IF ~Verified(d, s) THEN is("invalid")
             ELSE IF ~d.fields.active THEN is("revoked")
             ELSE IF now <= d.fields.until THEN is("active")
             ELSE IF now <= d.fields.until + GraceTime THEN is("grace") ELSE is("expired")

\* load_entitlement_status_from_dir
StatusOf(d, s, device) ==
  LET is(state) == [state |-> state, pro |-> Readable(d) /\ d.fields.pro,
                    fields |-> IF Readable(d) THEN d.fields ELSE Absent]
  IN  CASE d = Absent -> is("missing")
        [] d # Absent /\ s = Absent -> is("invalid")
        [] d # Absent /\ s # Absent /\ secret = Absent -> is("device_mismatch")
        [] OTHER ->
             IF ~Verified(d, s) THEN is("invalid")
             ELSE IF ~d.fields.active THEN is("revoked")
             ELSE IF device # d.fields.device THEN is("device_mismatch")
             ELSE IF now <= d.fields.until THEN is("active")
             ELSE IF now <= d.fields.until + GraceTime THEN is("grace") ELSE is("expired")

ProAllowed(status) == status.state \in {"active", "grace"} /\ status.pro

\* Fault: a licence in its grace period is not refreshed.
ShouldRefresh_ActiveOnly(status) ==
  /\ status.state = "active"
  /\ Readable(document) => now >= document.fields.refreshed + RefreshEvery

\* should_refresh_entitlement reads the document once more.
ShouldRefresh(status) ==
  /\ status.state \in {"active", "grace"}
  /\ Readable(document) => now >= document.fields.refreshed + RefreshEvery

\* ensure_pro_feature looks for delivery.json in the licence directory, where there is
\* none; login and status look in the workspace.
HasUrl(op) == EnvUrl \/ (op \in {"login", "status"} /\ WorkspaceUrl)

\* What the server signs for a device.
Issue(device) == [pro |-> account.pro, active |-> account.active, device |-> device,
                  until |-> account.until, refreshed |-> now]

-----------------------------------------------------------------------------
FileOf(S) == S \cup {Absent, Broken}
Label == {"idle", "allowed", "read", "verify", "ask", "reread", "reverify", "secret", "fill_secret", "session",
          "exchange", "payment", "document", "fill_document", "signature", "fill_signature",
          "end_session", "remove_document", "remove_signature", "remove_session"}

TypeOK ==
  /\ now \in Time /\ started \in 0..MaxCommands /\ secrets \in Secret
  /\ document \in FileOf(Document) /\ signed \in FileOf(Fields) /\ secret \in FileOf(Secret)
  /\ session \in {Absent, "pending"}
  /\ account \in [pro : BOOLEAN, active : BOOLEAN, until : Until]
  /\ \A p \in Process :
       /\ cmd[p].op \in Op \cup {"none"} /\ cmd[p].at \in Label
       /\ cmd[p].late \in BOOLEAN /\ cmd[p].alone \in BOOLEAN
       /\ cmd[p].device \in Secret \cup {Absent}
       /\ cmd[p].seen \in FileOf(Document)
       /\ cmd[p].found \in [state : State, pro : BOOLEAN, fields : Fields \cup {Absent}]
       /\ cmd[p].answer \in Document \cup {Absent} /\ cmd[p].base \in Document \cup {Absent}
       /\ Idle(p) <=> cmd[p] = NoCommand
  /\ revokedAt \in Time \cup {Never}
  /\ deaf \in BOOLEAN /\ healed \in BOOLEAN /\ out \in BOOLEAN

Init ==
  /\ now = 0
  /\ document = Absent /\ signed = Absent /\ secret = Absent /\ session = Absent
  /\ account = [pro |-> FALSE, active |-> TRUE, until |-> 0]
  /\ cmd = [p \in Process |-> NoCommand]
  /\ started = 0 /\ secrets = 0
  /\ revokedAt = Never /\ deaf = FALSE /\ healed = FALSE /\ out = FALSE

-----------------------------------------------------------------------------
FirstStep(op) == CASE op = "login" -> "secret" [] op = "logout" -> "remove_document" [] OTHER -> "read"

\* A command starts; whatever else runs is no longer alone.
Start(p, op) ==
  /\ Idle(p) /\ started < MaxCommands
  /\ cmd' = [q \in Process |->
               IF q = p THEN [NoCommand EXCEPT !.op = op, !.at = FirstStep(op), !.alone = AllIdle(Others(p))]
               ELSE IF Idle(q) THEN cmd[q] ELSE [cmd[q] EXCEPT !.alone = FALSE]]
  /\ started' = started + 1
  /\ healed' = FALSE /\ out' = (out /\ op # "login")
  /\ UNCHANGED <<now, files, account, secrets, revokedAt, deaf>>

At(p, label) == ~Idle(p) /\ cmd[p].at = label
GoTo(p, label) == cmd' = [cmd EXCEPT ![p].at = label]
End(p) == cmd' = [cmd EXCEPT ![p] = NoCommand]

\* The gate lets a Pro command through or not; auth status only prints.
Conclude(p, status) ==
  IF cmd[p].op = "feature" /\ ProAllowed(status)
  THEN cmd' = [cmd EXCEPT ![p] = [NoCommand EXCEPT !.op = "feature", !.at = "allowed", !.alone = cmd[p].alone,
                                                   !.device = cmd[p].device, !.found = status]]
  ELSE End(p)

\* The secret and the document are read, then the signature.
Read(p) ==
  /\ At(p, "read") \/ At(p, "reread")
  /\ cmd' = [cmd EXCEPT ![p].seen = document,
                        ![p].device = IF secret = Absent THEN Absent ELSE DeviceOf(secret),
                        ![p].at = IF @ = "read" THEN "verify" ELSE "reverify"]
  /\ UNCHANGED <<now, files, account, started, secrets, history>>

\* load_or_refresh_entitlement_status_with_base_url
Verify(p) ==
  LET status == StatusOf(cmd[p].seen, signed, cmd[p].device)
  IN  /\ At(p, "verify")
      /\ IF HasUrl(cmd[p].op) /\ ShouldRefresh(status)
         THEN cmd' = [cmd EXCEPT ![p].found = status, ![p].seen = Absent, ![p].at = "ask"]
         ELSE Conclude(p, status)
      /\ UNCHANGED <<now, files, account, started, secrets, history>>

\* The server answers a refresh; its answer is stored, then read again.
Refresh(p) ==
  /\ At(p, "ask") /\ Readable(document) /\ secret # Absent
  /\ LET fields == Issue(DeviceOf(secret))
     IN  cmd' = [cmd EXCEPT ![p].answer = [fields |-> fields, pending |-> FALSE], ![p].at = "document"]
  /\ UNCHANGED <<now, files, account, started, secrets, history>>

\* It does not, or the licence is gone, or the answer cannot be stored: the old
\* status counts.
RefreshFails(p) ==
  /\ cmd[p].op \in {"status", "feature"}
  /\ cmd[p].at \in {"ask", "document", "fill_document", "signature", "fill_signature"}
  /\ Conclude(p, cmd[p].found)
  /\ deaf' = TRUE
  /\ UNCHANGED <<now, files, account, started, secrets, revokedAt, healed, out>>

Reverify(p) ==
  /\ At(p, "reverify")
  /\ Conclude(p, StatusOf(cmd[p].seen, signed, cmd[p].device))
  /\ UNCHANGED <<now, files, account, started, secrets, history>>

\* The command goes on to what the licence is for, and ends.
Proceed(p) ==
  /\ At(p, "allowed")
  /\ End(p)
  /\ UNCHANGED <<now, files, account, started, secrets, history>>

-----------------------------------------------------------------------------
(* auth login *)

\* A new secret only if there is none.
Secure(p) ==
  /\ At(p, "secret")
  /\ IF secret = Absent
     THEN /\ secrets < MaxSecrets
          /\ secret' = Broken /\ GoTo(p, "fill_secret")
     ELSE UNCHANGED secret /\ GoTo(p, "session")
  /\ UNCHANGED <<now, document, signed, session, account, started, secrets, history>>

FillSecret(p) ==
  /\ At(p, "fill_secret") /\ secrets < MaxSecrets
  /\ secrets' = secrets + 1 /\ secret' = secrets + 1
  /\ GoTo(p, "session")
  /\ UNCHANGED <<now, document, signed, session, account, started, history>>

\* session.json is written; without a server that is all.
OpenSession(p) ==
  /\ At(p, "session")
  /\ session' = "pending"
  /\ IF HasUrl("login") THEN GoTo(p, "exchange") ELSE End(p)
  /\ UNCHANGED <<now, document, signed, secret, account, started, secrets, history>>

\* One poll, which finds the browser's part done; then the token is exchanged for a
\* licence: a paid one is stored, else payment is asked for.
Exchange(p) ==
  /\ At(p, "exchange") /\ secret # Absent
  /\ LET fields == Issue(DeviceOf(secret))
         answer == [fields |-> fields, pending |-> FALSE]
     IN  cmd' = [cmd EXCEPT ![p].answer = answer, ![p].base = answer,
                            ![p].at = IF fields.pro THEN "document" ELSE "payment"]
  /\ UNCHANGED <<now, files, account, started, secrets, history>>

\* maybe_resolve_payment_pending: one of the queries finds the payment ...
PaymentFound(p) ==
  /\ At(p, "payment") /\ account.pro
  /\ cmd' = [cmd EXCEPT ![p].answer = [fields |-> Issue(cmd[p].base.fields.device), pending |-> FALSE],
                        ![p].at = "document"]
  /\ UNCHANGED <<now, files, account, started, secrets, history>>

\* ... or none does, or one fails: the first answer is stored, marked as waiting for the
\* payment, and the login fails.
PaymentMissing(p) ==
  /\ At(p, "payment")
  /\ cmd' = [cmd EXCEPT ![p].answer.pending = TRUE, ![p].at = "document"]
  /\ UNCHANGED <<now, files, account, started, secrets, history>>

\* An error of the file system or the server ends a login, or a logout, where it is.
LoginFails(p) ==
  /\ cmd[p].op \in {"login", "logout"}
  /\ cmd[p].at # "payment"
  /\ End(p)
  /\ UNCHANGED <<now, files, account, started, secrets, history>>

-----------------------------------------------------------------------------
(* persist_entitlement_result *)

EmptyDocument(p) ==
  /\ At(p, "document")
  /\ document' = Broken /\ GoTo(p, "fill_document")
  /\ UNCHANGED <<now, signed, secret, session, account, started, secrets, history>>

FillDocument(p) ==
  /\ At(p, "fill_document")
  /\ document' = cmd[p].answer /\ GoTo(p, "signature")
  /\ UNCHANGED <<now, signed, secret, session, account, started, secrets, history>>

EmptySignature(p) ==
  /\ At(p, "signature")
  /\ signed' = Broken /\ GoTo(p, "fill_signature")
  /\ UNCHANGED <<now, document, secret, session, account, started, secrets, history>>

Stored(p) ==
  CASE cmd[p].op # "login" -> GoTo(p, "reread")
    [] cmd[p].op = "login" /\ cmd[p].answer.pending -> End(p)
    [] OTHER -> GoTo(p, "end_session")

\* Fault: a login stores the first answer's signature beside the last answer.
FillSignature_Base(p) ==
  /\ At(p, "fill_signature")
  /\ signed' = IF cmd[p].op = "login" THEN cmd[p].base.fields ELSE cmd[p].answer.fields
  /\ Stored(p)
  /\ UNCHANGED <<now, document, secret, session, account, started, secrets, history>>

FillSignature(p) ==
  /\ At(p, "fill_signature")
  /\ signed' = cmd[p].answer.fields
  /\ Stored(p)
  /\ UNCHANGED <<now, document, secret, session, account, started, secrets, history>>

\* The session goes, or stays if it cannot be removed; the login has succeeded.
EndSession(p) ==
  /\ At(p, "end_session")
  /\ session' \in {session, Absent}
  /\ End(p)
  /\ healed' = (cmd[p].alone /\ cmd[p].answer.fields.active)
  /\ UNCHANGED <<now, document, signed, secret, account, started, secrets,
                 revokedAt, deaf, out>>

-----------------------------------------------------------------------------
(* auth logout: three files, in this order; the secret stays *)

\* Fault: a logout keeps the document and its signature.
RemoveDocument_Not(p) ==
  /\ At(p, "remove_document")
  /\ GoTo(p, "remove_session")
  /\ UNCHANGED <<now, files, account, started, secrets, history>>

RemoveDocument(p) ==
  /\ At(p, "remove_document")
  /\ document' = Absent /\ GoTo(p, "remove_signature")
  /\ UNCHANGED <<now, signed, secret, session, account, started, secrets, history>>

RemoveSignature(p) ==
  /\ At(p, "remove_signature")
  /\ signed' = Absent /\ GoTo(p, "remove_session")
  /\ UNCHANGED <<now, document, secret, session, account, started, secrets, history>>

RemoveSession(p) ==
  /\ At(p, "remove_session")
  /\ session' = Absent /\ End(p)
  /\ out' = cmd[p].alone
  /\ UNCHANGED <<now, document, signed, secret, account, started, secrets,
                 revokedAt, deaf, healed>>

-----------------------------------------------------------------------------
\* The process dies.
Die(p) ==
  /\ ~Idle(p)
  /\ End(p)
  /\ deaf' = TRUE
  /\ UNCHANGED <<now, files, account, started, secrets, revokedAt, healed, out>>

\* The secret's file is lost between two commands.
LoseSecret ==
  /\ secret # Absent /\ AllIdle(Process)
  /\ secret' = Absent /\ healed' = FALSE
  /\ UNCHANGED <<now, document, signed, session, account, cmd, started, secrets,
                 revokedAt, deaf, out>>

\* The customer pays, for a term.
Pay ==
  /\ account.active /\ ~account.pro
  /\ \E term \in Terms : account' = [account EXCEPT !.pro = TRUE, !.until = now + term]
  /\ UNCHANGED <<now, files, cmd, started, secrets, history>>

Revoke ==
  /\ account.active /\ account.pro
  /\ account' = [account EXCEPT !.active = FALSE]
  /\ revokedAt' = now /\ deaf' = FALSE
  /\ UNCHANGED <<now, files, cmd, started, secrets, healed, out>>

Tick ==
  /\ now < MaxTime
  /\ \A p \in Process : ~cmd[p].late /\ ~At(p, "allowed")
  /\ now' = now + 1
  /\ cmd' = [p \in Process |-> IF Idle(p) THEN cmd[p] ELSE [cmd[p] EXCEPT !.late = TRUE]]
  /\ UNCHANGED <<files, account, started, secrets, history>>

Step(p) ==
  \/ Read(p) \/ Verify(p) \/ Refresh(p) \/ RefreshFails(p) \/ Reverify(p) \/ Proceed(p)
  \/ Secure(p) \/ FillSecret(p) \/ OpenSession(p) \/ Exchange(p)
  \/ PaymentFound(p) \/ PaymentMissing(p) \/ LoginFails(p)
  \/ EmptyDocument(p) \/ FillDocument(p) \/ EmptySignature(p) \/ FillSignature(p) \/ EndSession(p)
  \/ RemoveDocument(p) \/ RemoveSignature(p) \/ RemoveSession(p)

Next ==
  \/ \E p \in Process, op \in Op : Start(p, op)
  \/ \E p \in Process : Step(p) \/ Die(p)
  \/ LoseSecret \/ Pay \/ Revoke \/ Tick

Spec == Init /\ [][Next]_vars

-----------------------------------------------------------------------------
(* Properties *)

\* Whatever mixture of files interleaved, failed and killed commands leave behind, a Pro
\* command is let through only on a licence the server issued as paid and not revoked,
\* to this device, and that is not past its grace period.
GrantIsGenuine ==
  \A p \in Process : At(p, "allowed") =>
    LET licence == cmd[p].found.fields
    IN  /\ licence.pro /\ licence.active
        /\ licence.device = cmd[p].device
        /\ now <= licence.until + GraceTime + 1

\* When the environment names a server and no refresh has failed since, a licence that was revoked
\* is no longer honoured after one refresh interval, even though it is valid much longer,
\* and though a slow command may have stored an older answer over a newer one.  (A
\* command that overlaps another may miss it: it looks at the document it read before
\* the other one's refresh and at the refresh time that is there after it.)
RevocationSeen ==
  \A p \in Process :
    At(p, "allowed") /\ cmd[p].alone /\ EnvUrl /\ revokedAt # Never /\ ~deaf =>
      now <= revokedAt + RefreshEvery

\* A logout during which nothing else ran is final: no later command but a login, not
\* even a refresh, brings the licence back.
LoggedOutStaysOut == out => document = Absent

\* Whatever was there before, a login of a paying customer that nothing interferes with
\* leaves files that the gate accepts.
LoginHeals ==
  healed /\ AllIdle(Process) /\ now <= account.until =>
    ProAllowed(StatusOf(document, signed, DeviceOf(secret)))
=============================================================================
