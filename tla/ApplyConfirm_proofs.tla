------------------------- MODULE ApplyConfirm_proofs -------------------------
(***************************************************************************)
(* Theorems about ApplyConfirm, for any number of sessions, connections    *)
(* and configuration files and any option values.                          *)
(***************************************************************************)
EXTENDS ApplyConfirm, TLAPS

-----------------------------------------------------------------------------
(* Lemmas about the operators.                                             *)

LEMMA TimeoutType == Timeout \in Nat
BY NumbersAssumption DEF Timeout, Larger

LEMMA DownType == \A n \in Nat : Down(n) \in Nat
BY DEF Down

LEMMA OverlayType ==
    ASSUME NEW base \in Config, NEW changes \in Config
    PROVE  Overlay(base, changes) \in Config
BY DEF Overlay, Config

LEMMA NoChangesType == NoChanges \in Config
BY MaxEditsAssumption DEF NoChanges, Config, Version

LEMMA NoRecordType ==
    NoRecord \in [token : Tokens, session : Sessions \cup {NoSession}, ttl : Nat]
BY NumbersAssumption DEF NoRecord, Tokens

LEMMA IdleJobType == IdleJob \in Job
BY NumbersAssumption DEF IdleJob, Job, PCs, Kinds, Tokens, Statuses

LEMMA StepType ==
    ASSUME job \in [Conns -> Job], NEW h \in Conns,
           NEW from, NEW to \in PCs, Step(h, from, to)
    PROVE  job' \in [Conns -> Job]
BY DEF Step, Job

LEMMA ReplyType ==
    ASSUME job \in [Conns -> Job], NEW h \in Conns,
           NEW from, NEW status \in Statuses, Reply(h, from, status)
    PROVE  job' \in [Conns -> Job]
<1>1. "reply" \in PCs
  BY DEF PCs
<1>2. job[h] \in Job
  OBVIOUS
<1>3. [job[h] EXCEPT !.pc = "reply", !.status = status] \in Job
  BY <1>1, <1>2 DEF Job
<1> QED BY <1>3 DEF Reply

LEMMA SendType ==
    ASSUME job \in [Conns -> Job], page \in [Sessions -> Page],
           NEW s \in Sessions, NEW kind \in Kinds, NEW entry \in PCs,
           NEW token \in Tokens, NEW p \in Page,
           Send(s, kind, entry, token, p)
    PROVE  job' \in [Conns -> Job] /\ page' \in [Sessions -> Page]
<1>1. PICK h \in Conns :
        /\ job' = [job EXCEPT ![h] = [IdleJob EXCEPT
                    !.pc = entry, !.kind = kind, !.sid = s, !.token = token]]
        /\ page' = [page EXCEPT ![s] = [p EXCEPT !.conn = h]]
  BY DEF Send
<1>2. [IdleJob EXCEPT !.pc = entry, !.kind = kind, !.sid = s, !.token = token]
        \in Job
  BY IdleJobType DEF Job
<1>3. [p EXCEPT !.conn = h] \in Page
  BY DEF Page
<1> QED BY <1>1, <1>2, <1>3

LEMMA ReceiveType ==
    ASSUME job \in [Conns -> Job], page \in [Sessions -> Page],
           NEW s \in Sessions, NEW p \in Page, Receive(s, p)
    PROVE  job' \in [Conns -> Job] /\ page' \in [Sessions -> Page]
<1>1. [p EXCEPT !.conn = NoConn] \in Page
  BY DEF Page
<1> QED BY <1>1, IdleJobType DEF Receive

-----------------------------------------------------------------------------
(* The inductive invariant.                                                *)

\* A request in progress belongs to a session.
JobInv ==
    \A h \in Conns : job[h].pc # "idle" => job[h].sid \in Sessions

\* id is the number of a checked apply that session s has requested.
Requested(id, s) == id \in 1..clicks /\ owner[id] = s

\* Whatever names a session beside a token names the one that requested it:
\* the handlers, the record, and the trial itself.
HandlerTokens(j) ==
    /\ j.pc \in {"apply", "record"} => Requested(j.token, j.sid)
    /\ j.pc \in {"confirm", "clear"} => Requested(j.token, j.peer)

TokenInv ==
    /\ \A h \in Conns : HandlerTokens(job[h])
    /\ record.ttl > 0 => Requested(record.token, record.session)
    /\ Pending => Requested(pendingId, applySid)
    /\ \A id \in Ids : confirmedBy[id] # 0 =>
         id \in 1..clicks /\ Requested(confirmedBy[id], owner[id])

TypeInv == TypeOK /\ JobInv

\* A handler step changes the job of its connection only, and not its owner.
LEMMA StepFrame ==
    ASSUME job \in [Conns -> Job], NEW h \in Conns, NEW g \in Conns,
           NEW from, NEW to, NEW status,
           Step(h, from, to) \/ Reply(h, from, status)
    PROVE  /\ job'[g].sid = job[g].sid /\ job'[g].token = job[g].token
           /\ job'[g].kind = job[g].kind /\ job'[g].peer = job[g].peer
           /\ g # h => job'[g] = job[g]
<1>1. job[h] \in Job /\ job[g] \in Job
  OBVIOUS
<1>2. CASE Step(h, from, to)
  BY <1>1, <1>2 DEF Step, Job
<1>3. CASE Reply(h, from, status)
  <2>1. job'[g] = IF g = h THEN [job[h] EXCEPT !.pc = "reply", !.status = status]
                  ELSE job[g]
    BY <1>3 DEF Reply
  <2> QED BY <1>1, <2>1 DEF Job
<1> QED BY <1>2, <1>3

LEMMA StepJobInv ==
    ASSUME job \in [Conns -> Job], NEW h \in Conns, NEW from, NEW to, NEW status,
           JobInv, job[h].sid \in Sessions,
           Step(h, from, to) \/ Reply(h, from, status)
    PROVE  JobInv'
BY StepFrame DEF JobInv

LEMMA InitTypeInv == Init => TypeInv
<1> SUFFICES ASSUME Init PROVE TypeInv
  OBVIOUS
<1> USE DEF Init
<1>1. BackendTypeOK
  BY NoChangesType, MaxEditsAssumption DEF BackendInit, BackendTypeOK
<1>2. record \in [token : Tokens, session : Sessions \cup {NoSession}, ttl : Nat]
  BY NumbersAssumption DEF NoRecord, Tokens
<1>3. job \in [Conns -> Job]
  BY IdleJobType
<1>4. page \in [Sessions -> Page]
  BY NumbersAssumption DEF FreshPage, Page, Dialogs, Tokens
<1>5. clicks \in Tokens /\ pendingId \in Tokens /\ confirmedBy \in [Ids -> Tokens]
  BY NumbersAssumption DEF Tokens
<1>7. others \in 0..MaxOthers
  BY NumbersAssumption
<1>8. kept \in Config
  BY NoChangesType
<1>6. JobInv
  BY DEF JobInv, IdleJob
<1> QED BY <1>8, <1>7, <1>1, <1>2, <1>3, <1>4, <1>5, <1>6 DEF TypeOK, TypeInv

\* Every handler step keeps the types.
LEMMA HandleTypeInv ==
    ASSUME TypeInv, NEW h \in Conns, Handle(h)
    PROVE  TypeInv'
<1> USE DEF TypeInv, TypeOK
<1>1. job[h] \in Job
  OBVIOUS
<1>2. job[h].sid \in Sessions
  <2>1. job[h].pc # "idle"
    BY DEF Handle, ApplyUci, RecordToken, CheckToken, ConfirmUci, ClearRecord,
           ReadChanges, CommitOne, ReloadUci, RevertOne, Reply
  <2> QED BY <2>1 DEF JobInv
<1>3. ApplyStatus(job[h].sid) \in Statuses /\ CommitStatus \in Statuses
        /\ ConfirmStatus(job[h].peer) \in Statuses
        /\ PlainApplyStatus(job[h].sid) \in Statuses /\ 200 \in Statuses
        /\ 204 \in Statuses /\ 403 \in Statuses
  BY DEF ApplyStatus, CommitStatus, ConfirmStatus, PlainApplyStatus, Statuses
<1>4. CASE ApplyUci(h)
  <2> USE <1>4 DEF ApplyUci
  <2>1. job' \in [Conns -> Job] /\ JobInv'
    <3>1. "record" \in PCs
      BY DEF PCs
    <3>2. job' \in [Conns -> Job]
      BY <1>3, <3>1, StepType, ReplyType
    <3> QED BY <1>2, <3>2, StepJobInv
  <2>2. BackendTypeOK'
    BY <1>2, TimeoutType, OverlayType, NoChangesType
    DEF StartApply, BackendTypeOK, backendVars
  <2>3. outcome' \in [Ids -> {"requested", "pending", "kept", "reverted"}]
    OBVIOUS
  <2>4. pendingId' \in Tokens
    BY <1>1 DEF Job
  <2> QED BY <2>1, <2>2, <2>3, <2>4 DEF pageVars
<1>5. CASE RecordToken(h)
  <2> USE <1>5 DEF RecordToken
  <2>1. job' \in [Conns -> Job]
    BY <1>3, ReplyType
  <2>2. record' \in [token : Tokens, session : Sessions \cup {NoSession}, ttl : Nat]
    BY <1>1, NumbersAssumption DEF Job
  <2>3. JobInv'
    BY <1>2, StepJobInv
  <2> QED BY <2>1, <2>2, <2>3 DEF BackendTypeOK, backendVars, pageVars, historyVars
<1>6. CASE CheckToken(h)
  <2> USE <1>6 DEF CheckToken
  <2>1. CASE \E status \in Statuses : Reply(h, "check", status)
    BY <1>2, <2>1, ReplyType, StepJobInv
    DEF BackendTypeOK, backendVars, pageVars, historyVars
  <2>2. CASE job' = [job EXCEPT ![h] = [@ EXCEPT !.pc = "confirm",
                                                 !.peer = record.session]]
    <3>1. [job[h] EXCEPT !.pc = "confirm", !.peer = record.session] \in Job
      <4>1. "confirm" \in PCs
        BY DEF PCs
      <4>2. record.session \in Sessions \cup {NoSession}
        OBVIOUS
      <4> QED BY <1>1, <4>1, <4>2 DEF Job
    <3>2. job' \in [Conns -> Job]
      BY <2>2, <3>1
    <3>3. JobInv'
      BY <1>1, <1>2, <2>2 DEF JobInv, Job
    <3> QED BY <3>2, <3>3 DEF BackendTypeOK, backendVars, pageVars, historyVars
  <2> QED BY <1>3, <2>1, <2>2
<1>7. CASE ConfirmUci(h)
  <2> USE <1>7 DEF ConfirmUci
  <2>1. job' \in [Conns -> Job] /\ JobInv'
    <3>1. "clear" \in PCs
      BY DEF PCs
    <3> QED BY <1>2, <1>3, <3>1, StepType, ReplyType, StepJobInv
  <2>2. BackendTypeOK' /\ kept' \in Config
    BY NoChangesType DEF KeepApply, EndTrial, BackendTypeOK, backendVars
  <2>3. outcome' \in [Ids -> {"requested", "pending", "kept", "reverted"}]
    OBVIOUS
  <2>4. confirmedBy' \in [Ids -> Tokens]
    BY <1>1 DEF Job
  <2> QED BY <2>1, <2>2, <2>3, <2>4 DEF pageVars
<1>8. CASE ClearRecord(h)
  <2> USE <1>8 DEF ClearRecord
  <2>1. job' \in [Conns -> Job] /\ JobInv'
    BY <1>2, <1>3, ReplyType, StepJobInv
  <2>2. record' \in [token : Tokens, session : Sessions \cup {NoSession}, ttl : Nat]
    BY NumbersAssumption DEF NoRecord, Tokens
  <2> QED BY <2>1, <2>2 DEF BackendTypeOK, backendVars, pageVars, historyVars
<1>9. CASE ReadChanges(h)
  <2> USE <1>9 DEF ReadChanges
  <2> DEFINE pc == IF job[h].kind = "revert" THEN "revert" ELSE "commit"
             todo == {c \in Configs : staged[job[h].sid][c] # 0}
  <2>1. [job[h] EXCEPT !.pc = pc, !.todo = todo, !.status = 200] \in Job
    <3>1. pc \in PCs /\ todo \in SUBSET Configs
      BY DEF PCs
    <3> HIDE DEF pc, todo
    <3> QED BY <1>1, <1>3, <3>1 DEF Job
  <2>2. job' = [job EXCEPT ![h] =
                  [job[h] EXCEPT !.pc = pc, !.todo = todo, !.status = 200]]
    OBVIOUS
  <2> HIDE DEF pc, todo
  <2>3. job' \in [Conns -> Job]
    BY <2>1, <2>2
  <2>4. JobInv'
    BY <1>1, <1>2, <2>2 DEF JobInv, Job
  <2> QED BY <2>3, <2>4 DEF BackendTypeOK, backendVars, pageVars, historyVars
<1>10. CASE CommitOne(h)
  <2> USE <1>10 DEF CommitOne
  <2>1. CASE /\ UNCHANGED <<backendVars, kept>>
             /\ Step(h, "commit", "reload") \/ Reply(h, "commit", CommitStatus)
    <3>1. "reload" \in PCs
      BY DEF PCs
    <3>2. job' \in [Conns -> Job] /\ JobInv'
      BY <1>2, <1>3, <2>1, <3>1, StepType, ReplyType, StepJobInv
    <3> QED BY <2>1, <3>2 DEF BackendTypeOK, backendVars, pageVars, historyVars
  <2>2. ASSUME NEW c \in job[h].todo, CommitFile(job[h].sid, c), kept' = running',
               job' = [job EXCEPT ![h].todo = @ \ {c}]
        PROVE  TypeInv'
    <3>1. job' \in [Conns -> Job] /\ JobInv'
      BY <1>1, <2>2 DEF Job, JobInv
    <3>2. BackendTypeOK' /\ kept' \in Config
      BY <1>1, <1>2, <2>2, MaxEditsAssumption
      DEF CommitFile, BackendTypeOK, Config, Version, Job
    <3> QED BY <3>1, <3>2 DEF pageVars, historyVars
  <2> QED BY <2>1, <2>2
<1>11. CASE ReloadUci(h)
  <2> USE <1>11 DEF ReloadUci
  <2>1. job' \in [Conns -> Job] /\ JobInv'
    BY <1>2, <1>3, ReplyType, StepJobInv
  <2>2. BackendTypeOK' /\ kept' \in Config
    BY <1>2, OverlayType, NoChangesType DEF PlainApply, BackendTypeOK, backendVars
  <2> QED BY <2>1, <2>2 DEF pageVars, historyVars
<1>12. CASE RevertOne(h)
  <2> USE <1>12 DEF RevertOne
  <2>1. CASE UNCHANGED backendVars /\ (Step(h, "revert", "reply")
                                       \/ Reply(h, "revert", CommitStatus))
    <3>1. "reply" \in PCs
      BY DEF PCs
    <3>2. job' \in [Conns -> Job] /\ JobInv'
      BY <1>2, <1>3, <2>1, <3>1, StepType, ReplyType, StepJobInv
    <3> QED BY <2>1, <3>2 DEF BackendTypeOK, backendVars, pageVars, historyVars
  <2>2. ASSUME NEW c \in job[h].todo, RevertFile(job[h].sid, c),
               job' = [job EXCEPT ![h].todo = @ \ {c}]
        PROVE  TypeInv'
    <3>1. job' \in [Conns -> Job] /\ JobInv'
      BY <1>1, <2>2 DEF Job, JobInv
    <3>2. BackendTypeOK'
      BY <1>1, <1>2, <2>2, MaxEditsAssumption
      DEF RevertFile, BackendTypeOK, Config, Version, Job
    <3> QED BY <3>1, <3>2 DEF pageVars, historyVars
  <2> QED BY <2>1, <2>2
<1> QED BY <1>4, <1>5, <1>6, <1>7, <1>8, <1>9, <1>10, <1>11, <1>12 DEF Handle

LEMMA SendTypeInv ==
    ASSUME TypeInv, NEW s \in Sessions, NEW kind \in Kinds, NEW entry \in PCs,
           NEW token \in Tokens, NEW p \in Page,
           Send(s, kind, entry, token, p)
    PROVE  job' \in [Conns -> Job] /\ page' \in [Sessions -> Page] /\ JobInv'
<1>1. job' \in [Conns -> Job] /\ page' \in [Sessions -> Page]
  BY SendType DEF TypeInv, TypeOK
<1>2. PICK h \in Conns :
        job' = [job EXCEPT ![h] = [IdleJob EXCEPT
                    !.pc = entry, !.kind = kind, !.sid = s, !.token = token]]
  BY DEF Send
<1>3. job'[h].sid = s /\ \A g \in Conns \ {h} : job'[g] = job[g]
  BY <1>2, IdleJobType DEF TypeInv, TypeOK, Job, IdleJob
<1> QED BY <1>1, <1>3 DEF TypeInv, JobInv

LEMMA ReceiveTypeInv ==
    ASSUME TypeInv, NEW s \in Sessions, NEW p \in Page, Receive(s, p)
    PROVE  job' \in [Conns -> Job] /\ page' \in [Sessions -> Page] /\ JobInv'
<1>1. job' \in [Conns -> Job] /\ page' \in [Sessions -> Page]
  BY ReceiveType DEF TypeInv, TypeOK
<1>2. IdleJob.pc = "idle"
  BY DEF IdleJob
<1> QED BY <1>1, <1>2 DEF TypeInv, TypeOK, JobInv, Receive

LEMMA ShowType ==
    ASSUME NEW p \in Page, NEW d \in Dialogs
    PROVE  Show(p, d) \in Page
BY NumbersAssumption DEF Show, FreshPage, Page, Tokens

LEMMA GiveUpType == \A p \in Page : GiveUp(p) \in Page
<1>1. {"rollback", "unreachable"} \subseteq Dialogs
  BY DEF Dialogs
<1> QED BY <1>1, ShowType DEF GiveUp

\* Every step a page takes by itself keeps the types.
LEMMA ProceedTypeInv ==
    ASSUME TypeInv, NEW s \in Sessions, Proceed(s)
    PROVE  TypeInv'
<1> DEFINE Frame == UNCHANGED <<backendVars, record, clicks, others, owner, historyVars>>
<1>1. page[s] \in Page
  BY DEF TypeInv, TypeOK
<1>2. ASSUME Frame, job' \in [Conns -> Job], page' \in [Sessions -> Page], JobInv'
      PROVE  TypeInv'
  BY <1>2 DEF TypeInv, TypeOK, BackendTypeOK, backendVars, historyVars
<1>3. ASSUME NEW d \in Dialogs PROVE Show(page[s], d) \in Page
  BY <1>1, ShowType
<1>4. {"applied", "rolledback", "reverted", "failed", "nochanges"} \subseteq Dialogs
  BY DEF Dialogs
<1>5. CASE ApplyReply(s)
  <2> DEFINE p == page[s]
             r == job[p.conn]
             q == [p EXCEPT !.dialog = "confirming", !.first = TRUE,
                            !.auth = IF p.checked THEN r.token ELSE @,
                            !.deadline = Timeout, !.wait = Holdoff]
             n == Show(p, IF p.checked /\ r.status = 204 THEN "nochanges" ELSE "failed")
  <2>1. r \in Job
    BY <1>1, <1>5 DEF ApplyReply, Answered, Page, TypeInv, TypeOK
  <2>2. q \in Page
    <3>1. (IF p.checked THEN r.token ELSE p.auth) \in Tokens
      BY <1>1, <2>1 DEF Page, Job
    <3>2. "confirming" \in Dialogs /\ Holdoff \in Nat
      BY NumbersAssumption DEF Dialogs
    <3> HIDE DEF r
    <3> QED BY <1>1, <3>1, <3>2, TimeoutType DEF Page
  <2>3. n \in Page
    BY <1>3, <1>4
  <2>4. Receive(s, q) \/ Receive(s, n)
    BY <1>5 DEF ApplyReply
  <2> HIDE DEF q, n
  <2> QED BY <1>2, <1>5, <2>2, <2>3, <2>4, ReceiveTypeInv DEF ApplyReply
<1>6. CASE FirstCall(s)
  <2>1. [page[s] EXCEPT !.first = FALSE] \in Page
    BY <1>1 DEF Page
  <2>2. page' \in [Sessions -> Page]
    BY <1>6, <2>1, GiveUpType DEF FirstCall, TypeInv, TypeOK
  <2> QED BY <1>2, <1>6, <2>2 DEF FirstCall, TypeInv, TypeOK, JobInv
<1>7. CASE SendConfirm(s)
  <2>1. page[s].auth \in Tokens /\ "confirm" \in Kinds /\ "check" \in PCs
    BY <1>1 DEF Page, Kinds, PCs, Entry
  <2>2. Send(s, "confirm", "check", page[s].auth, page[s])
    BY <1>7 DEF SendConfirm
  <2> QED BY <1>1, <1>2, <1>7, <2>1, <2>2, SendTypeInv DEF SendConfirm
<1>8. CASE ConfirmReply(s)
  <2>1. \/ Receive(s, GiveUp(page[s]))
        \/ Receive(s, Show(page[s], "applied"))
        \/ Receive(s, page[s])
    BY <1>8 DEF ConfirmReply
  <2> QED BY <1>1, <1>2, <1>3, <1>4, <1>8, <2>1, GiveUpType, ReceiveTypeInv
          DEF ConfirmReply
<1>9. CASE SendRollbackPoll(s)
  <2>1. 0 \in Tokens /\ "confirm" \in Kinds /\ "check" \in PCs
    BY NumbersAssumption DEF Tokens, Kinds, PCs, Entry
  <2>2. Send(s, "confirm", "check", 0, page[s])
    BY <1>9 DEF SendRollbackPoll
  <2> QED BY <1>1, <1>2, <1>9, <2>1, <2>2, SendTypeInv DEF SendRollbackPoll
<1>10. CASE RollbackReply(s)
  <2>1. \/ Receive(s, [page[s] EXCEPT !.wait = 1])
        \/ Receive(s, Show(page[s], "rolledback"))
        \/ Receive(s, page[s])
    BY <1>10 DEF RollbackReply
  <2>2. [page[s] EXCEPT !.wait = 1] \in Page
    BY <1>1 DEF Page
  <2> QED BY <1>1, <1>2, <1>3, <1>4, <1>10, <2>1, <2>2, ReceiveTypeInv
          DEF RollbackReply
<1>11. CASE RevertReply(s)
  <2>1. \/ Receive(s, Show(page[s], "reverted"))
        \/ Receive(s, Show(page[s], "failed"))
    BY <1>11 DEF RevertReply
  <2> QED BY <1>2, <1>3, <1>4, <1>11, <2>1, ReceiveTypeInv DEF RevertReply
<1>12. CASE RequestError(s)
  BY <1>1, <1>2, <1>12, ReceiveTypeInv DEF RequestError
<1> QED BY <1>5, <1>6, <1>7, <1>8, <1>9, <1>10, <1>11, <1>12 DEF Proceed

\* Every step of a user keeps the types.
LEMMA UserTypeInv ==
    ASSUME TypeInv, NEW s \in Sessions, User(s)
    PROVE  TypeInv'
<1> DEFINE Frame == UNCHANGED <<backendVars, record, historyVars>>
<1>1. page[s] \in Page
  BY DEF TypeInv, TypeOK
<1>2. ASSUME Frame, job' \in [Conns -> Job], page' \in [Sessions -> Page], JobInv',
             clicks' \in Tokens, others' \in 0..MaxOthers, owner' \in [Ids -> Sessions \cup {NoSession}]
      PROVE  TypeInv'
  BY <1>2 DEF TypeInv, TypeOK, BackendTypeOK, backendVars, historyVars
<1>3. 0 \in Tokens /\ {"apply_rollback", "apply_unchecked", "revert"} \subseteq Kinds
        /\ {"apply", "changes"} \subseteq PCs
  BY NumbersAssumption DEF Tokens, Kinds, PCs, Entry
<1>10. ASSUME others < MaxOthers, others' = others + 1
       PROVE  others' \in 0..MaxOthers
  BY <1>10, NumbersAssumption DEF TypeInv, TypeOK
<1>4. CASE Edit(s)
  <2>1. BackendTypeOK'
    BY <1>4, MaxEditsAssumption
    DEF Edit, Stage, BackendTypeOK, Config, Version, TypeInv, TypeOK
  <2> QED BY <1>4, <2>1 DEF Edit, TypeInv, TypeOK, JobInv, pageVars, historyVars
<1>5. CASE ApplyChecked(s)
  <2> DEFINE p == [Show(page[s], "starting") EXCEPT !.checked = TRUE]
  <2>1. p \in Page
    <3>1. {"starting", "reverting"} \subseteq Dialogs
      BY DEF Dialogs
    <3> QED BY <1>1, <3>1, ShowType DEF Page
  <2>2. clicks' \in Tokens
    BY <1>5, NumbersAssumption DEF ApplyChecked, Tokens, TypeInv, TypeOK
  <2>3. owner' \in [Ids -> Sessions \cup {NoSession}]
    BY <1>5 DEF ApplyChecked, TypeInv, TypeOK
  <2>4. Send(s, "apply_rollback", "apply", clicks', p)
    BY <1>5 DEF ApplyChecked
  <2> HIDE DEF p
  <2>5. job' \in [Conns -> Job] /\ page' \in [Sessions -> Page] /\ JobInv'
    <3>1. clicks + 1 = clicks' /\ clicks + 1 \in Tokens
      BY <1>5, <2>2 DEF ApplyChecked
    <3>2. Send(s, "apply_rollback", "apply", clicks + 1, p)
      BY <1>5 DEF ApplyChecked, p
    <3> QED BY <1>3, <2>1, <3>1, <3>2, SendTypeInv
  <2> QED BY <1>2, <1>5, <2>2, <2>3, <2>5 DEF ApplyChecked, TypeInv, TypeOK
<1>6. CASE ApplyUnchecked(s)
  <2> DEFINE p == [Show(page[s], "starting") EXCEPT !.checked = FALSE]
  <2>1. p \in Page
    <3>1. {"starting", "reverting"} \subseteq Dialogs
      BY DEF Dialogs
    <3> QED BY <1>1, <3>1, ShowType DEF Page
  <2>2. Send(s, "apply_unchecked", "changes", 0, p)
    BY <1>6 DEF ApplyUnchecked
  <2> HIDE DEF p
  <2>3. job' \in [Conns -> Job] /\ page' \in [Sessions -> Page] /\ JobInv'
    BY <1>3, <2>1, <2>2, SendTypeInv
  <2> QED BY <1>2, <1>6, <1>10, <2>3 DEF ApplyUnchecked, TypeInv, TypeOK
<1>7. CASE Revert(s)
  <2> DEFINE p == Show(page[s], "reverting")
  <2>1. p \in Page
    <3>1. {"starting", "reverting"} \subseteq Dialogs
      BY DEF Dialogs
    <3> QED BY <1>1, <3>1, ShowType DEF Page
  <2>2. Send(s, "revert", "changes", 0, p)
    BY <1>7 DEF Revert
  <2> HIDE DEF p
  <2>3. job' \in [Conns -> Job] /\ page' \in [Sessions -> Page] /\ JobInv'
    BY <1>3, <2>1, <2>2, SendTypeInv
  <2> QED BY <1>2, <1>7, <1>10, <2>3 DEF Revert, TypeInv, TypeOK
<1>8. CASE Close(s)
  <2>1. page' \in [Sessions -> Page]
    BY <1>1, <1>8 DEF Close, TypeInv, TypeOK, Page, Dialogs
  <2> QED BY <1>2, <1>8, <2>1 DEF Close, TypeInv, TypeOK, JobInv
<1>9. CASE PageLoad(s)
  <2> DEFINE remaining == Down(record.ttl)
             wait == IF Holdoff + remaining > Timeout
                     THEN (Holdoff + remaining) - Timeout ELSE 0
             p == [FreshPage EXCEPT !.dialog = "confirming", !.checked = TRUE,
                     !.auth = record.token, !.first = TRUE,
                     !.deadline = remaining, !.wait = wait]
  <2>1. FreshPage \in Page
    BY NumbersAssumption DEF FreshPage, Page, Dialogs, Tokens
  <2>2. remaining \in Nat /\ record.token \in Tokens /\ "confirming" \in Dialogs
    BY DownType DEF TypeInv, TypeOK, Dialogs
  <2>3. wait \in Nat
    <3> HIDE DEF remaining
    <3> QED BY <2>2, TimeoutType, NumbersAssumption
  <2>4. p \in Page
    <3> HIDE DEF remaining, wait
    <3> QED BY <2>1, <2>2, <2>3 DEF Page
  <2>5. page' \in [Sessions -> Page]
    BY <1>9, <2>1, <2>4 DEF PageLoad, TypeInv, TypeOK
  <2> QED BY <1>2, <1>9, <2>5 DEF PageLoad, TypeInv, TypeOK, JobInv
<1> QED BY <1>4, <1>5, <1>6, <1>7, <1>8, <1>9 DEF User

\* So do the network, rpcd's timer and the clock.
LEMMA NetworkTypeInv ==
    ASSUME TypeInv, NEW h \in Conns, Network(h)
    PROVE  TypeInv'
<1> USE DEF TypeInv, TypeOK
<1>1. job[h] \in Job
  OBVIOUS
<1>2. job' \in [Conns -> Job] /\ JobInv'
  <2>1. CASE LoseRequest(h)
    <3>1. "lost" \in PCs /\ job[h].pc # "idle"
      BY <2>1 DEF LoseRequest, Entry, PCs
    <3>2. Step(h, job[h].pc, "lost")
      BY <2>1 DEF LoseRequest, Step
    <3> QED BY <3>1, <3>2, StepType, StepJobInv DEF JobInv
  <2>2. CASE LoseReply(h)
    <3>1. "lost" \in PCs /\ Step(h, "reply", "lost")
      BY <2>2 DEF LoseReply, PCs
    <3>2. job[h].sid \in Sessions
      BY <3>1 DEF Step, JobInv
    <3> QED BY <3>1, <3>2, StepType, StepJobInv
  <2>3. CASE DropReply(h)
    <3>1. IdleJob.pc = "idle"
      BY DEF IdleJob
    <3> QED BY <2>3, <3>1, IdleJobType DEF DropReply, JobInv
  <2> QED BY <2>1, <2>2, <2>3 DEF Network
<1>3. UNCHANGED <<backendVars, record, pageVars, historyVars>>
  BY DEF Network, LoseRequest, LoseReply, DropReply
<1> QED BY <1>2, <1>3 DEF BackendTypeOK, backendVars, pageVars, historyVars

LEMMA RpcdTimeoutTypeInv ==
    ASSUME TypeInv, RpcdTimeout
    PROVE  TypeInv'
<1> USE DEF TypeInv, TypeOK, RpcdTimeout
<1>1. BackendTypeOK'
  <2>1. applySid \in Sessions /\ staged[applySid] \in Config /\ delta \in Config
    BY DEF RestoreSnapshot, Pending, BackendTypeOK
  <2>2. Overlay(staged[applySid], delta) \in Config
    BY <2>1, OverlayType
  <2> QED BY <2>1, <2>2, NoChangesType DEF RestoreSnapshot, EndTrial, BackendTypeOK
<1> QED BY <1>1 DEF JobInv, pageVars

LEMMA AgeType ==
    ASSUME NEW j \in Job
    PROVE  [j EXCEPT !.lag = @ + 1] \in Job
<1> DEFINE next == j.lag + 1
<1>1. next \in Nat
  <2>1. j.lag \in Nat
    BY DEF Job
  <2> QED BY <2>1
<1> HIDE DEF next
<1>2. [j EXCEPT !.lag = next] \in Job
  BY <1>1 DEF Job
<1> QED BY <1>2 DEF next

LEMMA OlderRecordType ==
    ASSUME NEW r \in [token : Tokens, session : Sessions \cup {NoSession}, ttl : Nat],
           r.ttl > 1
    PROVE  [r EXCEPT !.ttl = @ - 1]
             \in [token : Tokens, session : Sessions \cup {NoSession}, ttl : Nat]
<1> DEFINE left == r.ttl - 1
<1>1. left \in Nat
  <2>1. r.ttl \in Nat
    OBVIOUS
  <2> QED BY <2>1
<1> HIDE DEF left
<1>2. [r EXCEPT !.ttl = left]
        \in [token : Tokens, session : Sessions \cup {NoSession}, ttl : Nat]
  BY <1>1
<1> QED BY <1>2 DEF left

LEMMA TickTypeInv ==
    ASSUME TypeInv, Tick
    PROVE  TypeInv'
<1> USE DEF TypeInv, TypeOK, Tick
<1>1. job' \in [Conns -> Job] /\ JobInv'
  <2>1. ASSUME NEW h \in Conns
        PROVE  /\ job'[h] \in Job /\ job'[h].pc = job[h].pc
               /\ job'[h].sid = job[h].sid
    <3>1. job[h] \in Job
      OBVIOUS
    <3>2. [job[h] EXCEPT !.lag = @ + 1] \in Job
      BY <3>1, AgeType
    <3>3. job'[h] = IF job[h].pc = "idle" THEN job[h]
                    ELSE [job[h] EXCEPT !.lag = @ + 1]
      OBVIOUS
    <3> QED BY <3>1, <3>2, <3>3 DEF Job
  <2> QED BY <2>1 DEF JobInv
<1>2. page' \in [Sessions -> Page]
  <2>1. ASSUME NEW s \in Sessions
        PROVE  [page[s] EXCEPT !.deadline = Down(@), !.wait = Down(@)] \in Page
    <3>1. page[s] \in Page
      OBVIOUS
    <3> QED BY <3>1, DownType DEF Page
  <2> QED BY <2>1
<1>3. record' \in [token : Tokens, session : Sessions \cup {NoSession}, ttl : Nat]
  <2>1. record \in [token : Tokens, session : Sessions \cup {NoSession}, ttl : Nat]
    OBVIOUS
  <2> QED BY <2>1, NoRecordType, OlderRecordType
<1>4. BackendTypeOK'
  BY DownType DEF BackendTypeOK
<1> QED BY <1>1, <1>2, <1>3, <1>4 DEF historyVars

LEMMA NextTypeInv == TypeInv /\ [Next]_vars => TypeInv'
<1> SUFFICES ASSUME TypeInv, [Next]_vars PROVE TypeInv'
  OBVIOUS
<1>1. CASE UNCHANGED vars
  BY <1>1 DEF TypeInv, TypeOK, JobInv, BackendTypeOK, vars, backendVars,
              pageVars, historyVars
<1>2. CASE Next
  BY <1>2, HandleTypeInv, NetworkTypeInv, ProceedTypeInv, UserTypeInv,
     RpcdTimeoutTypeInv, TickTypeInv DEF Next
<1> QED BY <1>1, <1>2

\* The types of all variables, in every reachable state.
THEOREM TypeCorrect == Spec => []TypeOK
<1>1. Spec => []TypeInv
  BY InitTypeInv, NextTypeInv, PTL DEF Spec
<1>2. TypeInv => TypeOK
  BY DEF TypeInv
<1> QED BY <1>1, <1>2, PTL

-----------------------------------------------------------------------------
(* SettledConfig.                                                          *)

\* The uci backend takes one of these steps, or none.
BackendStep ==
    \/ UNCHANGED <<running, applySid, snapshot, kept>>
    \/ (\E s \in Sessions : StartApply(s, Timeout)) /\ UNCHANGED kept
    \/ (\E s \in Sessions \cup {NoSession} : KeepApply(s)) /\ kept' = running
    \/ RestoreSnapshot /\ UNCHANGED kept
    \/ /\ \E s \in Sessions : (\E c \in Configs : CommitFile(s, c)) \/ PlainApply(s)
       /\ kept' = running'

LEMMA NextBackendStep == TypeInv /\ [Next]_vars => BackendStep
<1> SUFFICES ASSUME TypeInv, [Next]_vars PROVE BackendStep
  OBVIOUS
<1>1. CASE UNCHANGED vars
  BY <1>1 DEF vars, backendVars, historyVars, BackendStep
<1>2. ASSUME NEW h \in Conns, Handle(h) PROVE BackendStep
  <2>1. job[h] \in Job
    BY DEF TypeInv, TypeOK
  <2>2. job[h].sid \in Sessions
    <3>1. job[h].pc # "idle"
      BY <1>2 DEF Handle, ApplyUci, RecordToken, CheckToken, ConfirmUci,
         ClearRecord, ReadChanges, CommitOne, ReloadUci, RevertOne, Reply
    <3> QED BY <3>1 DEF TypeInv, JobInv
  <2>3. job[h].peer \in Sessions \cup {NoSession} /\ job[h].todo \subseteq Configs
    BY <2>1 DEF Job
  <2>4. CASE ApplyUci(h)
    BY <2>2, <2>4 DEF ApplyUci, BackendStep, backendVars
  <2>5. CASE ConfirmUci(h)
    BY <2>3, <2>5 DEF ConfirmUci, BackendStep, backendVars
  <2>6. CASE CommitOne(h)
    BY <2>2, <2>3, <2>6 DEF CommitOne, BackendStep, backendVars
  <2>7. CASE ReloadUci(h)
    BY <2>2, <2>7 DEF ReloadUci, BackendStep, backendVars
  <2>8. CASE RevertOne(h)
    BY <2>8 DEF RevertOne, RevertFile, BackendStep, backendVars, historyVars
  <2>9. CASE RecordToken(h) \/ CheckToken(h) \/ ClearRecord(h) \/ ReadChanges(h)
    BY <2>9 DEF RecordToken, CheckToken, ClearRecord, ReadChanges, BackendStep,
                backendVars, historyVars
  <2> QED BY <1>2, <2>4, <2>5, <2>6, <2>7, <2>8, <2>9 DEF Handle
<1>3. ASSUME NEW h \in Conns, Network(h) PROVE BackendStep
  BY <1>3 DEF Network, LoseRequest, LoseReply, DropReply, BackendStep, backendVars, historyVars
<1>4. ASSUME NEW s \in Sessions, Proceed(s) PROVE BackendStep
  BY <1>4 DEF Proceed, ApplyReply, FirstCall, SendConfirm, ConfirmReply,
     SendRollbackPoll, RollbackReply, RevertReply, RequestError, BackendStep,
     backendVars, historyVars
<1>5. ASSUME NEW s \in Sessions, User(s) PROVE BackendStep
  BY <1>5 DEF User, Edit, Stage, ApplyChecked, ApplyUnchecked, Revert, Close,
     PageLoad, BackendStep, backendVars, historyVars
<1>6. CASE RpcdTimeout
  BY <1>6 DEF RpcdTimeout, BackendStep
<1>7. CASE Tick
  BY <1>7 DEF Tick, BackendStep, historyVars
<1> QED BY <1>1, <1>2, <1>3, <1>4, <1>5, <1>6, <1>7 DEF Next

LEMMA BackendStepSettled == TypeOK /\ SettledConfig /\ BackendStep => SettledConfig'
BY NoSessionAssumption DEF SettledConfig, Pending, BackendStep, StartApply,
   KeepApply, RestoreSnapshot, EndTrial, CommitFile, PlainApply, ApplyStatus,
   ConfirmStatus, CommitStatus, PlainApplyStatus

\* Outside a trial the device runs what was last confirmed or committed, and
\* inside one the snapshot is exactly that.
THEOREM Settled == Spec => []SettledConfig
<1>1. Init => TypeInv /\ SettledConfig
  BY InitTypeInv DEF Init, BackendInit, SettledConfig, Pending
<1>2. TypeInv /\ SettledConfig /\ [Next]_vars => (TypeInv /\ SettledConfig)'
  BY NextTypeInv, NextBackendStep, BackendStepSettled DEF TypeInv
<1> QED BY <1>1, <1>2, PTL DEF Spec

-----------------------------------------------------------------------------
(* ConfirmedByOwnSession.                                                  *)

\* A step that requests nothing leaves what was requested alone.
LEMMA RequestedStable ==
    ASSUME UNCHANGED <<clicks, owner>>
    PROVE  /\ \A id, s : Requested(id, s)' <=> Requested(id, s)
           /\ \A j : HandlerTokens(j)' <=> HandlerTokens(j)
BY DEF Requested, HandlerTokens

LEMMA HandleTokenInv ==
    ASSUME TypeInv, TokenInv, NEW h \in Conns, Handle(h)
    PROVE  TokenInv'
<1> USE DEF TypeInv, TypeOK
<1>1. UNCHANGED <<clicks, owner>>
  BY DEF Handle, ApplyUci, RecordToken, CheckToken, ConfirmUci, ClearRecord,
     ReadChanges, CommitOne, ReloadUci, RevertOne, pageVars
<1>2. job[h] \in Job /\ HandlerTokens(job[h])
  BY DEF TokenInv
<1>3. ASSUME NEW from, NEW status, Reply(h, from, status)
      PROVE  \A g \in Conns : HandlerTokens(job'[g])
  <2>1. job'[h].pc = "reply"
    BY <1>2, <1>3 DEF Reply, Job
  <2>2. \A g \in Conns \ {h} : job'[g] = job[g]
    BY <1>3 DEF Reply
  <2> QED BY <2>1, <2>2 DEF TokenInv, HandlerTokens
<1>4. ASSUME \A g \in Conns : HandlerTokens(job'[g]),
             UNCHANGED <<record, applySid, pendingId, confirmedBy>>
      PROVE  TokenInv'
  BY <1>1, <1>4, RequestedStable DEF TokenInv, Pending
<1>5. CASE ApplyUci(h)
  <2> USE <1>5 DEF ApplyUci
  <2>1. job[h].pc = "apply" /\ Requested(job[h].token, job[h].sid)
    BY <1>2 DEF HandlerTokens
  <2>2. CASE Step(h, "apply", "record") /\ StartApply(job[h].sid, Timeout)
             /\ pendingId' = job[h].token
    <3>1. \A g \in Conns : HandlerTokens(job'[g])
      BY <1>2, <2>1, <2>2 DEF Step, TokenInv, HandlerTokens, Job
    <3>2. applySid' = job[h].sid
      BY <2>2 DEF StartApply
    <3> QED BY <1>1, <2>1, <2>2, <3>1, <3>2, RequestedStable DEF TokenInv, Pending
  <2>3. CASE Reply(h, "apply", ApplyStatus(job[h].sid))
             /\ UNCHANGED <<backendVars, outcome, pendingId>>
    BY <1>3, <1>4, <2>3 DEF backendVars
  <2> QED BY <2>2, <2>3
<1>6. CASE RecordToken(h)
  <2>1. job[h].pc = "record" /\ Requested(job[h].token, job[h].sid)
    BY <1>2, <1>6 DEF RecordToken, Reply, HandlerTokens
  <2>2. record'.token = job[h].token /\ record'.session = job[h].sid
    BY <1>6 DEF RecordToken
  <2>3. \A g \in Conns : HandlerTokens(job'[g])
    BY <1>3, <1>6 DEF RecordToken
  <2> QED BY <1>1, <1>6, <2>1, <2>2, <2>3, RequestedStable
          DEF RecordToken, TokenInv, Pending, backendVars, historyVars
<1>7. CASE CheckToken(h)
  <2>1. CASE \E status : Reply(h, "check", status)
    BY <1>3, <1>4, <1>7, <2>1 DEF CheckToken, backendVars, historyVars
  <2>2. CASE /\ record.ttl > 0
             /\ job[h].token = record.token
             /\ job' = [job EXCEPT ![h] = [@ EXCEPT !.pc = "confirm",
                                                    !.peer = record.session]]
    <3>1. Requested(job[h].token, record.session)
      BY <2>2 DEF TokenInv
    <3>2. /\ job'[h].pc = "confirm" /\ job'[h].token = job[h].token
          /\ job'[h].peer = record.session
      BY <1>2, <2>2 DEF Job
    <3>3. \A g \in Conns \ {h} : job'[g] = job[g]
      BY <2>2
    <3>4. \A g \in Conns : HandlerTokens(job'[g])
      BY <3>1, <3>2, <3>3 DEF TokenInv, HandlerTokens
    <3> QED BY <1>4, <1>7, <3>4 DEF CheckToken, backendVars, historyVars
  <2> QED BY <1>7, <2>1, <2>2 DEF CheckToken
<1>8. CASE ConfirmUci(h)
  <2> USE <1>8 DEF ConfirmUci
  <2>1. job[h].pc = "confirm" /\ Requested(job[h].token, job[h].peer)
    BY <1>2 DEF HandlerTokens
  <2>2. CASE /\ Step(h, "confirm", "clear") /\ KeepApply(job[h].peer)
             /\ confirmedBy' = [confirmedBy EXCEPT ![pendingId] = job[h].token]
    <3>1. \A g \in Conns : HandlerTokens(job'[g])
      BY <1>2, <2>1, <2>2 DEF Step, TokenInv, HandlerTokens, Job
    <3>2. Pending /\ applySid = job[h].peer /\ ~Pending'
      BY <2>2 DEF KeepApply, EndTrial, ConfirmStatus, Pending
    <3>3. Requested(pendingId, job[h].peer)
      BY <3>2 DEF TokenInv
    <3>4. owner[pendingId] = job[h].peer /\ pendingId \in 1..clicks
      BY <3>3 DEF Requested
    <3>5. ASSUME NEW id \in Ids, confirmedBy'[id] # 0
          PROVE  id \in 1..clicks /\ Requested(confirmedBy'[id], owner[id])
      BY <2>1, <2>2, <3>4, <3>5 DEF TokenInv
    <3> QED BY <1>1, <3>1, <3>2, <3>5, RequestedStable DEF TokenInv
  <2>3. CASE Reply(h, "confirm", ConfirmStatus(job[h].peer))
             /\ UNCHANGED <<backendVars, outcome, confirmedBy, kept>>
    BY <1>3, <1>4, <2>3 DEF backendVars
  <2> QED BY <2>2, <2>3
<1>9. CASE ClearRecord(h)
  <2>1. record'.ttl = 0
    BY <1>9 DEF ClearRecord, NoRecord
  <2>2. \A g \in Conns : HandlerTokens(job'[g])
    BY <1>3, <1>9 DEF ClearRecord
  <2> QED BY <1>1, <1>9, <2>1, <2>2, RequestedStable
          DEF ClearRecord, TokenInv, Pending, backendVars, historyVars
<1>10. CASE ReadChanges(h) \/ CommitOne(h) \/ ReloadUci(h) \/ RevertOne(h)
  <2>1. job'[h].pc \notin {"apply", "record", "confirm", "clear"}
    <3>1. CASE ReadChanges(h)
      BY <1>2, <3>1 DEF ReadChanges, Job
    <3>2. CASE CommitOne(h)
      <4>1. CASE Step(h, "commit", "reload")
        BY <1>2, <4>1 DEF Step, Job
      <4>3. CASE Reply(h, "commit", CommitStatus)
        BY <1>2, <4>3 DEF Reply, Job
      <4>2. CASE job[h].pc = "commit" /\ \E c : job' = [job EXCEPT ![h].todo = @ \ {c}]
        BY <1>2, <4>2 DEF Job
      <4> QED BY <3>2, <4>1, <4>2, <4>3 DEF CommitOne
    <3>3. CASE ReloadUci(h)
      BY <1>2, <3>3 DEF ReloadUci, Reply, Job
    <3>4. CASE RevertOne(h)
      <4>1. CASE Step(h, "revert", "reply")
        BY <1>2, <4>1 DEF Step, Job
      <4>3. CASE Reply(h, "revert", CommitStatus)
        BY <1>2, <4>3 DEF Reply, Job
      <4>2. CASE job[h].pc = "revert" /\ \E c : job' = [job EXCEPT ![h].todo = @ \ {c}]
        BY <1>2, <4>2 DEF Job
      <4> QED BY <3>4, <4>1, <4>2, <4>3 DEF RevertOne
    <3> QED BY <1>10, <3>1, <3>2, <3>3, <3>4
  <2>2. \A g \in Conns \ {h} : job'[g] = job[g]
    BY <1>10 DEF ReadChanges, CommitOne, ReloadUci, RevertOne, Step, Reply
  <2>3. \A g \in Conns : HandlerTokens(job'[g])
    BY <2>1, <2>2 DEF TokenInv, HandlerTokens
  <2>4. UNCHANGED <<record, applySid, pendingId, confirmedBy>>
    BY <1>10 DEF ReadChanges, CommitOne, ReloadUci, RevertOne, CommitFile,
       PlainApply, RevertFile, backendVars, historyVars
  <2> QED BY <1>4, <2>3, <2>4
<1> QED BY <1>5, <1>6, <1>7, <1>8, <1>9, <1>10 DEF Handle

\* The other steps send and drop requests, or let time pass.
LEMMA OtherTokenInv ==
    ASSUME TypeInv, TokenInv,
           \/ \E h \in Conns : Network(h)
           \/ \E s \in Sessions : Proceed(s) \/ User(s)
           \/ RpcdTimeout \/ Tick
    PROVE  TokenInv'
<1> USE DEF TypeInv, TypeOK
<1>1. ASSUME UNCHANGED <<clicks, owner, record, applySid, pendingId, confirmedBy>>,
             \A g \in Conns : HandlerTokens(job'[g])
      PROVE  TokenInv'
  BY <1>1, RequestedStable DEF TokenInv, Pending
<1>2. ASSUME NEW g \in Conns, \/ job'[g] = job[g]
                              \/ job'[g].pc \in {"idle", "lost", "check", "changes"}
      PROVE  HandlerTokens(job'[g])
  BY <1>2 DEF TokenInv, HandlerTokens
<1>3. IdleJob \in Job /\ IdleJob.pc = "idle"
  BY IdleJobType DEF IdleJob
<1>4. ASSUME NEW h \in Conns, Network(h) PROVE TokenInv'
  <2>1. job'[h].pc \in {"idle", "lost"} /\ \A g \in Conns \ {h} : job'[g] = job[g]
    BY <1>3, <1>4 DEF Network, LoseRequest, LoseReply, DropReply, Step, Job
  <2>2. UNCHANGED <<clicks, owner, record, applySid, pendingId, confirmedBy>>
    BY <1>4 DEF Network, LoseRequest, LoseReply, DropReply, backendVars, pageVars,
       historyVars
  <2> QED BY <1>1, <1>2, <2>1, <2>2
<1>5. ASSUME NEW s \in Sessions, NEW kind, NEW entry \in {"check", "changes"},
             NEW token, NEW p, Send(s, kind, entry, token, p), NEW g \in Conns
      PROVE  job'[g] = job[g] \/ job'[g].pc \in {"check", "changes"}
  BY <1>3, <1>5 DEF Send, Job
<1>6. ASSUME NEW s \in Sessions, NEW p, Receive(s, p), NEW g \in Conns
      PROVE  job'[g] = job[g] \/ job'[g].pc = "idle"
  BY <1>3, <1>6 DEF Receive
<1>7. ASSUME NEW s \in Sessions, Proceed(s) PROVE TokenInv'
  <2>1. UNCHANGED <<clicks, owner, record, applySid, pendingId, confirmedBy>>
    BY <1>7 DEF Proceed, ApplyReply, FirstCall, SendConfirm, ConfirmReply,
       SendRollbackPoll, RollbackReply, RevertReply, RequestError, backendVars,
       historyVars
  <2>2. CASE \E p : Receive(s, p)
    BY <1>1, <1>2, <1>6, <2>1, <2>2
  <2>3. CASE \E kind, token, p : Send(s, kind, "check", token, p)
    BY <1>1, <1>2, <1>5, <2>1, <2>3
  <2>4. CASE UNCHANGED job
    BY <1>1, <1>2, <2>1, <2>4
  <2> QED BY <1>7, <2>2, <2>3, <2>4
          DEF Proceed, ApplyReply, FirstCall, SendConfirm, ConfirmReply,
              SendRollbackPoll, RollbackReply, RevertReply, RequestError
<1>8. ASSUME NEW s \in Sessions, User(s) PROVE TokenInv'
  <2>1. CASE ApplyChecked(s)
    <3>1. PICK n \in Ids : n = clicks + 1
      BY <2>1, NumbersAssumption DEF ApplyChecked, Tokens, Ids
    <3>2. clicks' = n /\ clicks \in Nat /\ owner' = [owner EXCEPT ![n] = s]
      BY <2>1, <3>1, NumbersAssumption DEF ApplyChecked, Tokens
    <3>3. 1..clicks \subseteq 1..n /\ n \in 1..n /\ n \notin 1..clicks
      BY <3>1, <3>2
    <3>4. \A id, u : Requested(id, u) => Requested(id, u)'
      BY <3>1, <3>2, <3>3 DEF Requested, Ids, Tokens
    <3>5. Requested(n, s)'
      BY <3>1, <3>2, <3>3 DEF Requested
    <3>6. PICK h \in Conns :
            job' = [job EXCEPT ![h] = [IdleJob EXCEPT !.pc = "apply",
                      !.kind = "apply_rollback", !.sid = s, !.token = n]]
      BY <2>1, <3>1 DEF ApplyChecked, Send
    <3>7. /\ job'[h].pc = "apply" /\ job'[h].sid = s /\ job'[h].token = n
          /\ \A g \in Conns \ {h} : job'[g] = job[g]
      BY <1>3, <3>6 DEF Job
    <3>8. ASSUME NEW g \in Conns PROVE HandlerTokens(job[g])'
      <4>1. CASE g = h
        BY <3>5, <3>7, <4>1 DEF HandlerTokens
      <4>2. CASE g # h
        BY <3>4, <3>7, <4>2 DEF TokenInv, HandlerTokens
      <4> QED BY <4>1, <4>2
    <3>9. UNCHANGED <<record, applySid, pendingId, confirmedBy>>
      BY <2>1 DEF ApplyChecked, backendVars, historyVars
    <3>10. ASSUME NEW id \in Ids, confirmedBy'[id] # 0
           PROVE  id \in 1..clicks' /\ Requested(confirmedBy[id], owner[id])'
      <4>1. id \in 1..clicks /\ Requested(confirmedBy[id], owner[id])
        BY <3>9, <3>10 DEF TokenInv
      <4>2. owner'[id] = owner[id] /\ confirmedBy'[id] = confirmedBy[id]
        BY <3>2, <3>3, <3>9, <4>1
      <4> QED BY <3>2, <3>3, <3>4, <4>1, <4>2
    <3>11. Requested(record.token, record.session) =>
             Requested(record.token, record.session)'
      BY <3>4, <3>9
    <3>12. Requested(pendingId, applySid) => Requested(pendingId, applySid)'
      BY <3>4, <3>9
    <3> QED BY <3>8, <3>9, <3>10, <3>11, <3>12 DEF TokenInv, Pending
  <2>2. CASE Edit(s) \/ ApplyUnchecked(s) \/ Revert(s) \/ Close(s) \/ PageLoad(s)
    <3>1. UNCHANGED <<clicks, owner, record, applySid, pendingId, confirmedBy>>
      BY <2>2 DEF Edit, Stage, ApplyUnchecked, Revert, Close, PageLoad,
         backendVars, pageVars, historyVars
    <3>2. UNCHANGED job \/ \E kind, p : Send(s, kind, "changes", 0, p)
      BY <2>2 DEF Edit, ApplyUnchecked, Revert, Close, PageLoad
    <3> QED BY <1>1, <1>2, <1>5, <3>1, <3>2
  <2> QED BY <1>8, <2>1, <2>2 DEF User
<1>9. CASE RpcdTimeout
  BY <1>9, RequestedStable DEF RpcdTimeout, RestoreSnapshot, EndTrial, TokenInv, Pending,
     pageVars, historyVars
<1>10. CASE Tick
  <2>1. ASSUME NEW g \in Conns
        PROVE  /\ job'[g].pc = job[g].pc /\ job'[g].token = job[g].token
               /\ job'[g].sid = job[g].sid /\ job'[g].peer = job[g].peer
    <3>1. job[g] \in Job
      OBVIOUS
    <3>2. job'[g] = job[g] \/ job'[g] = [job[g] EXCEPT !.lag = @ + 1]
      BY <1>10 DEF Tick
    <3> QED BY <3>1, <3>2 DEF Job
  <2>2. \A g \in Conns : HandlerTokens(job'[g])
    BY <2>1 DEF TokenInv, HandlerTokens
  <2>3. record'.ttl > 0 => /\ record'.token = record.token
                           /\ record'.session = record.session
                           /\ record.ttl > 0
    <3>1. record \in [token : Tokens, session : Sessions \cup {NoSession}, ttl : Nat]
      OBVIOUS
    <3>2. CASE record.ttl > 1 /\ record' = [record EXCEPT !.ttl = @ - 1]
      <4>1. record.ttl > 0
        BY <3>1, <3>2
      <4> QED BY <3>1, <3>2, <4>1
    <3>3. CASE record' = NoRecord
      BY <3>3 DEF NoRecord
    <3> QED BY <1>10, <3>2, <3>3 DEF Tick
  <2> QED BY <1>10, <2>2, <2>3, RequestedStable DEF Tick, TokenInv, Pending, historyVars
<1> QED BY <1>4, <1>7, <1>8, <1>9, <1>10

\* Every step keeps what names a session beside a token.
LEMMA NextTokenInv == TypeInv /\ TokenInv /\ [Next]_vars => TokenInv'
<1> SUFFICES ASSUME TypeInv, TokenInv, [Next]_vars PROVE TokenInv'
  OBVIOUS
<1>1. CASE UNCHANGED vars
  BY <1>1 DEF TokenInv, HandlerTokens, Requested, Pending, vars, backendVars,
              pageVars, historyVars
<1>2. CASE Next
  BY <1>2, HandleTokenInv, OtherTokenInv DEF Next
<1> QED BY <1>1, <1>2

\* rpcd keeps an apply only for a request whose token was generated for an
\* apply of the same session: CheckToken reads the record and ConfirmUci acts
\* on it later, but what it read can only ever name the token's own session.
THEOREM NoForeignConfirm == Spec => []ConfirmedByOwnSession
<1>1. Init => TypeInv /\ TokenInv
  <2>1. ASSUME Init PROVE TokenInv
    BY <2>1 DEF Init, BackendInit, TokenInv, HandlerTokens, IdleJob, NoRecord, Pending
  <2> QED BY <2>1, InitTypeInv
<1>2. TypeInv /\ TokenInv /\ [Next]_vars => (TypeInv /\ TokenInv)'
  BY NextTypeInv, NextTokenInv
<1>3. TypeInv /\ TokenInv => ConfirmedByOwnSession
  BY DEF TokenInv, Requested, ConfirmedByOwnSession
<1> QED BY <1>1, <1>2, <1>3, PTL DEF Spec

-----------------------------------------------------------------------------
(* The promise of KeepOrRevert, without its fairness.                      *)

LEMMA BackendStepPromise ==
    ASSUME TypeOK, TypeOK', SettledConfig, BackendStep
    PROVE  Promise!Next \/ UNCHANGED <<running, kept, Pending>>
<1> USE NoSessionAssumption
<1>1. running' \in Config
  BY DEF TypeOK, BackendTypeOK
<1>2. CASE UNCHANGED <<running, applySid, snapshot, kept>>
  BY <1>2 DEF Pending
<1>3. CASE (\E s \in Sessions : StartApply(s, Timeout)) /\ UNCHANGED kept
  BY <1>1, <1>3 DEF StartApply, ApplyStatus, Pending, Promise!Next, Promise!Try
<1>4. CASE (\E s \in Sessions \cup {NoSession} : KeepApply(s)) /\ kept' = running
  BY <1>4 DEF KeepApply, EndTrial, ConfirmStatus, Pending, Promise!Next, Promise!Keep
<1>5. CASE RestoreSnapshot /\ UNCHANGED kept
  BY <1>5 DEF RestoreSnapshot, EndTrial, SettledConfig, Pending, Promise!Next, Promise!Revert
<1>6. CASE /\ \E s \in Sessions : (\E c \in Configs : CommitFile(s, c)) \/ PlainApply(s)
           /\ kept' = running'
  BY <1>1, <1>6 DEF CommitFile, CommitStatus, PlainApply, PlainApplyStatus, Pending,
     Promise!Next, Promise!Commit
<1> QED BY <1>2, <1>3, <1>4, <1>5, <1>6 DEF BackendStep

\* Every step of the handlers, the pages, rpcd and the network is a step of
\* KeepOrRevert or leaves the configuration alone.
THEOREM ImplementsPromise ==
    Spec => Promise!Init /\ [][Promise!Next]_<<running, kept, Pending>>
<1>1. Init => Promise!Init
  BY NoChangesType DEF Init, BackendInit, Pending, Promise!Init
<1>2. TypeInv /\ TypeInv' /\ SettledConfig /\ [Next]_vars
        => [Promise!Next]_<<running, kept, Pending>>
  BY NextBackendStep, BackendStepPromise DEF TypeInv
<1>3. Spec => []TypeInv
  BY InitTypeInv, NextTypeInv, PTL DEF Spec
<1> QED BY <1>1, <1>2, <1>3, Settled, PTL DEF Spec

-----------------------------------------------------------------------------
(* What a page says: the links between a page, the job that it waits for,  *)
(* the record and rpcd's trial.                                            *)

\* No apply is about to record its token while a confirm is about to clear the
\* record: the session object has one record, and both write it unseen.
RecordedInPeace ==
    \A g, h \in Conns : ~ (job[g].pc = "clear" /\ job[h].pc = "record")

\* What has become of apply id.
Kept(id) == outcome[id] = "kept"
Over(id) == outcome[id] \in {"kept", "reverted"}
OnTrial(id) == Pending /\ pendingId = id

\* What decides about the applies.
trialVars == <<applySid, timer, record, outcome, pendingId>>

\* Each handler makes its own calls.
JobKinds ==
    \A h \in Conns :
      /\ job[h].pc \in {"apply", "record"} => job[h].kind = "apply_rollback"
      /\ job[h].pc \in {"check", "confirm", "clear"} => job[h].kind = "confirm"
      /\ job[h].pc \in {"changes", "commit", "reload", "revert"}
           => job[h].kind \in {"apply_unchecked", "revert"}

\* The job that a page waits for is the one that it asked for.
PageJob(s, p) ==
    p.conn # NoConn =>
      /\ job[p.conn].pc # "idle" /\ job[p.conn].sid = s
      /\ p.dialog = "starting" =>
           job[p.conn].kind = IF p.checked THEN "apply_rollback" ELSE "apply_unchecked"
      /\ p.dialog \in {"confirming", "rollback"} => job[p.conn].kind = "confirm"
      /\ p.dialog = "rollback" => /\ job[p.conn].token = 0
                                  /\ job[p.conn].pc \in {"check", "reply", "lost"}

PageJobs ==
    \A s \in Sessions : /\ PageJob(s, page[s])
                        /\ page[s].dialog = "rollback" => page[s].checked

\* A checked apply is requested, then pending, then over, and so no more than
\* one is pending; none is once a confirm is about to clear the record.
Outcomes ==
    /\ Pending => outcome[pendingId] = "pending" /\ timer <= Timeout
    /\ \A id \in Ids : id > clicks => outcome[id] = "requested"
    /\ \A h \in Conns : job[h].pc = "apply" => outcome[job[h].token] = "requested"
    /\ \A g, h \in Conns :
         job[g].pc = "apply" /\ job[h].pc = "apply" /\ job[g].token = job[h].token => g = h
    /\ \A h \in Conns : job[h].pc = "clear" => ~Pending

\* The links that both verdicts rest on.
LinkInv == TypeInv /\ TokenInv /\ JobKinds /\ PageJobs /\ Outcomes

\* The handler on connection h goes from one call to another.
Moves(h, from, to) == job[h].pc = from /\ job'[h].pc = to

\* What the step of a handler means to the others.
HandlerStep(h) ==
    /\ UNCHANGED <<page, clicks>>
    /\ \A g \in Conns \ {h} : job'[g] = job[g]
    /\ job'[h].kind = job[h].kind /\ job'[h].sid = job[h].sid
    /\ job'[h].token = job[h].token /\ job'[h].lag = job[h].lag
    /\ \/ /\ Moves(h, "apply", "record")
          /\ ~Pending /\ Pending' /\ timer' = Timeout
          /\ pendingId' = job[h].token /\ record' = record
          /\ outcome' = [outcome EXCEPT ![job[h].token] = "pending"]
       \/ /\ Moves(h, "record", "reply") /\ job'[h].status = 200
          /\ record'.ttl = Conf + 1 /\ record'.token = job[h].token
          /\ UNCHANGED <<applySid, timer, outcome, pendingId>>
       \/ /\ Moves(h, "check", "reply")
          /\ \/ record.ttl = 0 /\ job'[h].status = 204
             \/ record.ttl > 0 /\ job'[h].status = 403
          /\ UNCHANGED trialVars
       \/ /\ Moves(h, "check", "confirm")
          /\ record.ttl > 0 /\ job[h].token = record.token
          /\ UNCHANGED trialVars
       \/ /\ Moves(h, "confirm", "clear")
          /\ Pending /\ ~Pending'
          /\ outcome' = [outcome EXCEPT ![pendingId] = "kept"]
          /\ UNCHANGED <<record, pendingId>>
       \/ /\ Moves(h, "confirm", "reply") /\ job'[h].status # 200
          /\ Pending => job'[h].status # 204
          /\ UNCHANGED trialVars
       \/ /\ Moves(h, "clear", "reply")
          /\ record' = NoRecord
          /\ UNCHANGED <<applySid, timer, outcome, pendingId>>
       \/ /\ Moves(h, "apply", "reply") /\ job'[h].status # 200
          /\ UNCHANGED trialVars
       \/ /\ job[h].pc \in {"changes", "commit", "reload", "revert"}
          /\ job'[h].pc \in {"commit", "reload", "revert", "reply"}
          /\ UNCHANGED trialVars

\* Every step of a handler is one of those.
LEMMA HandlerSteps ==
    ASSUME TypeInv, NEW h \in Conns, Handle(h)
    PROVE  HandlerStep(h)
<1> USE DEF TypeInv, TypeOK
<1>0. job[h] \in Job /\ job \in [Conns -> Job] /\ "reply" \in PCs
  BY DEF PCs
<1>1. UNCHANGED <<page, clicks>>
  BY DEF Handle, ApplyUci, RecordToken, CheckToken, ConfirmUci, ClearRecord,
     ReadChanges, CommitOne, ReloadUci, RevertOne, pageVars
<1>2. ASSUME NEW from, NEW status, Reply(h, from, status)
      PROVE  /\ Moves(h, from, "reply") /\ job'[h].status = status
             /\ \A g \in Conns \ {h} : job'[g] = job[g]
             /\ job'[h].kind = job[h].kind /\ job'[h].sid = job[h].sid
             /\ job'[h].token = job[h].token /\ job'[h].lag = job[h].lag
  BY <1>0, <1>2 DEF Reply, Moves, Job
<1>3. ASSUME NEW from, NEW to, Step(h, from, to)
      PROVE  /\ Moves(h, from, to)
             /\ \A g \in Conns \ {h} : job'[g] = job[g]
             /\ job'[h].kind = job[h].kind /\ job'[h].sid = job[h].sid
             /\ job'[h].token = job[h].token /\ job'[h].lag = job[h].lag
  BY <1>0, <1>3 DEF Step, Moves, Job
<1>4. CASE ApplyUci(h)
  <2>1. CASE StartApply(job[h].sid, Timeout) /\ Step(h, "apply", "record")
    <3>1. ~Pending /\ Pending' /\ timer' = Timeout
      <4>1. job[h].sid \in Sessions
        BY <2>1, <1>0 DEF JobInv, Step
      <4> QED BY <2>1, <4>1, NoSessionAssumption DEF StartApply, ApplyStatus, Pending
    <3>2. /\ pendingId' = job[h].token /\ record' = record
          /\ outcome' = [outcome EXCEPT ![job[h].token] = "pending"]
      BY <1>4, <2>1, <1>0 DEF ApplyUci, StartApply
    <3> QED BY <1>1, <1>3, <2>1, <3>1, <3>2 DEF HandlerStep
  <2>2. CASE ApplyStatus(job[h].sid) # 200 /\ Reply(h, "apply", ApplyStatus(job[h].sid))
    <3>1. UNCHANGED trialVars
      BY <1>4, <2>2 DEF ApplyUci, StartApply, trialVars, backendVars
    <3>2. /\ Moves(h, "apply", "reply") /\ job'[h].status = ApplyStatus(job[h].sid)
          /\ \A g \in Conns \ {h} : job'[g] = job[g]
          /\ job'[h].kind = job[h].kind /\ job'[h].sid = job[h].sid
          /\ job'[h].token = job[h].token /\ job'[h].lag = job[h].lag
      BY <1>2, <2>2
    <3> QED BY <1>1, <2>2, <3>1, <3>2 DEF HandlerStep
  <2> QED BY <1>4, <2>1, <2>2 DEF ApplyUci
<1>5. CASE RecordToken(h)
  <2>1. Reply(h, "record", 200) /\ UNCHANGED <<applySid, timer, outcome, pendingId>>
        /\ record' = [token |-> job[h].token, session |-> job[h].sid, ttl |-> Conf + 1]
    BY <1>5 DEF RecordToken, backendVars, historyVars
  <2>2. record'.ttl = Conf + 1 /\ record'.token = job[h].token
    BY <2>1
  <2> QED BY <1>1, <1>2, <2>1, <2>2 DEF HandlerStep
<1>6. CASE CheckToken(h)
  <2>1. UNCHANGED trialVars
    BY <1>6 DEF CheckToken, trialVars, backendVars, historyVars
  <2>2. CASE record.ttl = 0 /\ Reply(h, "check", 204)
    BY <1>1, <1>2, <2>1, <2>2 DEF HandlerStep
  <2>3. CASE record.ttl > 0 /\ Reply(h, "check", 403)
    BY <1>1, <1>2, <2>1, <2>3 DEF HandlerStep
  <2>4. CASE /\ record.ttl > 0 /\ job[h].token = record.token /\ job[h].pc = "check"
             /\ job' = [job EXCEPT ![h] = [@ EXCEPT !.pc = "confirm", !.peer = record.session]]
    <3>1. /\ Moves(h, "check", "confirm")
          /\ \A g \in Conns \ {h} : job'[g] = job[g]
          /\ job'[h].kind = job[h].kind /\ job'[h].sid = job[h].sid
          /\ job'[h].token = job[h].token /\ job'[h].lag = job[h].lag
      BY <1>0, <2>4 DEF Moves, Job
    <3> QED BY <1>1, <2>1, <2>4, <3>1 DEF HandlerStep
  <2> QED BY <1>6, <2>2, <2>3, <2>4 DEF CheckToken
<1>7. CASE ConfirmUci(h)
  <2>1. CASE KeepApply(job[h].peer) /\ Step(h, "confirm", "clear")
    <3>1. Pending /\ ~Pending'
      BY <2>1 DEF KeepApply, ConfirmStatus, EndTrial, Pending
    <3>2. /\ outcome' = [outcome EXCEPT ![pendingId] = "kept"]
          /\ UNCHANGED <<record, pendingId>>
      BY <1>7, <2>1 DEF ConfirmUci, KeepApply
    <3> QED BY <1>1, <1>3, <2>1, <3>1, <3>2 DEF HandlerStep
  <2>2. CASE /\ ConfirmStatus(job[h].peer) # 200
             /\ Reply(h, "confirm", ConfirmStatus(job[h].peer))
    <3>1. UNCHANGED trialVars
      BY <1>7, <2>2 DEF ConfirmUci, KeepApply, trialVars, backendVars
    <3>2. Pending => ConfirmStatus(job[h].peer) # 204
      BY DEF ConfirmStatus
    <3>3. /\ Moves(h, "confirm", "reply") /\ job'[h].status = ConfirmStatus(job[h].peer)
          /\ \A g \in Conns \ {h} : job'[g] = job[g]
          /\ job'[h].kind = job[h].kind /\ job'[h].sid = job[h].sid
          /\ job'[h].token = job[h].token /\ job'[h].lag = job[h].lag
      BY <1>2, <2>2
    <3> QED BY <1>1, <2>2, <3>1, <3>2, <3>3 DEF HandlerStep
  <2> QED BY <1>7, <2>1, <2>2 DEF ConfirmUci
<1>8. CASE ClearRecord(h)
  <2>1. Reply(h, "clear", 200) /\ record' = NoRecord
        /\ UNCHANGED <<applySid, timer, outcome, pendingId>>
    BY <1>8 DEF ClearRecord, backendVars, historyVars
  <2> QED BY <1>1, <1>2, <2>1 DEF HandlerStep
<1>9. CASE ReadChanges(h)
  <2>1. UNCHANGED trialVars
    BY <1>9 DEF ReadChanges, trialVars, backendVars, historyVars
  <2>2. /\ job[h].pc = "changes" /\ job'[h].pc \in {"revert", "commit"}
        /\ \A g \in Conns \ {h} : job'[g] = job[g]
        /\ job'[h].kind = job[h].kind /\ job'[h].sid = job[h].sid
        /\ job'[h].token = job[h].token /\ job'[h].lag = job[h].lag
    BY <1>0, <1>9 DEF ReadChanges, Job
  <2> QED BY <1>1, <2>1, <2>2 DEF HandlerStep
<1>10. CASE CommitOne(h)
  <2>1. UNCHANGED trialVars
    BY <1>10 DEF CommitOne, CommitFile, trialVars, backendVars, historyVars
  <2>2. CASE Step(h, "commit", "reload") \/ Reply(h, "commit", CommitStatus)
    <3>1. /\ job[h].pc = "commit" /\ job'[h].pc \in {"reload", "reply"}
          /\ \A g \in Conns \ {h} : job'[g] = job[g]
          /\ job'[h].kind = job[h].kind /\ job'[h].sid = job[h].sid
          /\ job'[h].token = job[h].token /\ job'[h].lag = job[h].lag
      BY <1>2, <1>3, <2>2 DEF Moves
    <3> QED BY <1>1, <2>1, <3>1 DEF HandlerStep
  <2>3. ASSUME NEW c \in job[h].todo, job' = [job EXCEPT ![h].todo = @ \ {c}]
        PROVE  HandlerStep(h)
    <3>1. /\ job[h].pc = "commit" /\ job'[h].pc = "commit"
          /\ \A g \in Conns \ {h} : job'[g] = job[g]
          /\ job'[h].kind = job[h].kind /\ job'[h].sid = job[h].sid
          /\ job'[h].token = job[h].token /\ job'[h].lag = job[h].lag
      BY <1>0, <1>10, <2>3 DEF CommitOne, Job
    <3> QED BY <1>1, <2>1, <3>1 DEF HandlerStep
  <2> QED BY <1>10, <2>2, <2>3 DEF CommitOne
<1>11. CASE ReloadUci(h)
  <2>1. UNCHANGED trialVars
    BY <1>11 DEF ReloadUci, PlainApply, trialVars, backendVars, historyVars
  <2>2. Reply(h, "reload", PlainApplyStatus(job[h].sid))
    BY <1>11 DEF ReloadUci
  <2>3. /\ job[h].pc = "reload" /\ job'[h].pc = "reply"
        /\ \A g \in Conns \ {h} : job'[g] = job[g]
        /\ job'[h].kind = job[h].kind /\ job'[h].sid = job[h].sid
        /\ job'[h].token = job[h].token /\ job'[h].lag = job[h].lag
    BY <1>2, <2>2 DEF Moves
  <2> QED BY <1>1, <2>1, <2>3 DEF HandlerStep
<1>12. CASE RevertOne(h)
  <2>1. UNCHANGED trialVars
    BY <1>12 DEF RevertOne, RevertFile, trialVars, backendVars, historyVars
  <2>2. CASE Step(h, "revert", "reply") \/ Reply(h, "revert", CommitStatus)
    <3>1. /\ job[h].pc = "revert" /\ job'[h].pc = "reply"
          /\ \A g \in Conns \ {h} : job'[g] = job[g]
          /\ job'[h].kind = job[h].kind /\ job'[h].sid = job[h].sid
          /\ job'[h].token = job[h].token /\ job'[h].lag = job[h].lag
      BY <1>2, <1>3, <2>2 DEF Moves
    <3> QED BY <1>1, <2>1, <3>1 DEF HandlerStep
  <2>3. ASSUME NEW c \in job[h].todo, job' = [job EXCEPT ![h].todo = @ \ {c}]
        PROVE  HandlerStep(h)
    <3>1. /\ job[h].pc = "revert" /\ job'[h].pc = "revert"
          /\ \A g \in Conns \ {h} : job'[g] = job[g]
          /\ job'[h].kind = job[h].kind /\ job'[h].sid = job[h].sid
          /\ job'[h].token = job[h].token /\ job'[h].lag = job[h].lag
      <4>1. job[h].pc = "revert"
        BY <1>12, <1>0, <2>3 DEF RevertOne, Step, Reply
      <4> QED BY <1>0, <4>1, <2>3 DEF Job
    <3> QED BY <1>1, <2>1, <3>1 DEF HandlerStep
  <2> QED BY <1>12, <2>2, <2>3 DEF RevertOne
<1> QED BY <1>4, <1>5, <1>6, <1>7, <1>8, <1>9, <1>10, <1>11, <1>12 DEF Handle

\* The page of session s has sent a request over connection h.
Sent(s, h, kind, entry, token) ==
    /\ h \in Conns /\ job[h].pc = "idle" /\ page'[s].conn = h
    /\ job'[h].pc = entry /\ job'[h].kind = kind
    /\ job'[h].sid = s /\ job'[h].token = token /\ job'[h].lag = 0
    /\ \A g \in Conns \ {h} : job'[g] = job[g]

\* The page of session s has taken an answer, or the news that it is lost.
Taken(s, pcs) ==
    /\ page[s].conn \in Conns /\ job[page[s].conn].pc \in pcs
    /\ page'[s].conn = NoConn /\ job'[page[s].conn] = IdleJob
    /\ \A g \in Conns \ {page[s].conn} : job'[g] = job[g]

\* The dialog of session s turns into d and is about the same apply.
Turns(s, from, to) ==
    /\ page[s].dialog \in from /\ page'[s].dialog \in to
    /\ page'[s].checked = page[s].checked /\ page'[s].auth = page[s].auth

\* The page of session s has passed its deadline.
GivesUp(s) ==
    /\ Turns(s, {"confirming"}, {IF page[s].checked THEN "rollback" ELSE "unreachable"})
    /\ page[s].deadline = 0 /\ page'[s].conn = NoConn

\* The page of session s sends a request.
Asks(s) ==
    \/ /\ clicks' = clicks + 1 /\ clicks + 1 \in Ids
       /\ page'[s].dialog = "starting" /\ page'[s].checked = TRUE
       /\ \E h \in Conns : Sent(s, h, "apply_rollback", "apply", clicks + 1)
    \/ /\ clicks' = clicks
       /\ \/ /\ page'[s].dialog = "starting" /\ page'[s].checked = FALSE
             /\ \E h \in Conns : Sent(s, h, "apply_unchecked", "changes", 0)
          \/ /\ page'[s].dialog = "reverting"
             /\ \E h \in Conns : Sent(s, h, "revert", "changes", 0)
          \/ /\ Turns(s, {"confirming"}, {"confirming"})
             /\ page'[s].deadline = page[s].deadline
             /\ \E h \in Conns : Sent(s, h, "confirm", "check", page[s].auth)
          \/ /\ Turns(s, {"rollback"}, {"rollback"})
             /\ \E h \in Conns : Sent(s, h, "confirm", "check", 0)

\* The page of session s takes an answer, or learns that there will be none.
Hears(s) ==
    /\ clicks' = clicks
    /\ \/ /\ page[s].dialog = "starting" /\ page'[s].dialog = "confirming"
          /\ page'[s].checked = page[s].checked /\ page'[s].deadline = Timeout
          /\ page[s].checked => /\ job[page[s].conn].status = 200
                                /\ page'[s].auth = job[page[s].conn].token
          /\ Taken(s, {"reply"})
       \/ /\ page'[s].dialog \in {"nochanges", "failed", "reverted"}
          /\ Taken(s, {"reply"})
       \/ /\ GivesUp(s) /\ Taken(s, {"reply", "lost"})
       \/ /\ Turns(s, {"confirming"}, {"applied"}) /\ page[s].deadline # 0
          /\ job[page[s].conn].status \in {200, 204} /\ Taken(s, {"reply"})
       \/ /\ Turns(s, {"confirming"}, {"confirming"})
          /\ page'[s].deadline = page[s].deadline
          /\ Taken(s, {"reply", "lost"})
       \/ /\ Turns(s, {"rollback"}, {"rollback"}) /\ Taken(s, {"reply", "lost"})
       \/ /\ Turns(s, {"rollback"}, {"rolledback"})
          /\ job[page[s].conn].status = 204 /\ Taken(s, {"reply"})
       \/ /\ page[s].dialog \in {"starting", "reverting"}
          /\ page'[s].dialog = page[s].dialog
          /\ Taken(s, {"lost"})

\* The page of session s changes by itself, or is loaded.
Turned(s) ==
    /\ UNCHANGED <<clicks, job>>
    /\ \/ UNCHANGED page
       \/ /\ Turns(s, {"confirming"}, {"confirming"})
          /\ page'[s].deadline = page[s].deadline /\ page'[s].conn = page[s].conn
       \/ GivesUp(s)
       \/ page'[s].dialog = "closed" /\ page'[s].conn \in {page[s].conn, NoConn}
       \/ /\ record.ttl > 0 /\ page'[s].conn = NoConn
          /\ page'[s].dialog = "confirming" /\ page'[s].checked = TRUE
          /\ page'[s].auth = record.token /\ page'[s].deadline = Down(record.ttl)

\* What the step of a page, or of its user, means to the others.
PageStep(s) ==
    /\ UNCHANGED trialVars
    /\ \A r \in Sessions \ {s} : page'[r] = page[r]
    /\ Asks(s) \/ Hears(s) \/ Turned(s)

\* What Send does, field by field.
LEMMA Sending ==
    ASSUME TypeInv, NEW s \in Sessions, NEW kind, NEW entry, NEW token, NEW p \in Page,
           Send(s, kind, entry, token, p)
    PROVE  /\ \E h \in Conns : Sent(s, h, kind, entry, token)
           /\ \A r \in Sessions \ {s} : page'[r] = page[r]
           /\ page'[s].dialog = p.dialog /\ page'[s].checked = p.checked
           /\ page'[s].auth = p.auth /\ page'[s].deadline = p.deadline
<1> USE DEF TypeInv, TypeOK
<1>1. PICK h \in Conns :
         /\ job[h].pc = "idle"
         /\ job' = [job EXCEPT ![h] = [IdleJob EXCEPT
                       !.pc = entry, !.kind = kind, !.sid = s, !.token = token]]
         /\ page' = [page EXCEPT ![s] = [p EXCEPT !.conn = h]]
  BY DEF Send
<1>2. /\ page'[s] = [p EXCEPT !.conn = h]
      /\ \A r \in Sessions \ {s} : page'[r] = page[r]
      /\ job'[h] = [IdleJob EXCEPT !.pc = entry, !.kind = kind, !.sid = s, !.token = token]
      /\ \A g \in Conns \ {h} : job'[g] = job[g]
  BY <1>1
<1>3. /\ page'[s].conn = h /\ page'[s].dialog = p.dialog /\ page'[s].checked = p.checked
      /\ page'[s].auth = p.auth /\ page'[s].deadline = p.deadline
  BY <1>2 DEF Page
<1>4. /\ job'[h].pc = entry /\ job'[h].kind = kind /\ job'[h].sid = s
      /\ job'[h].token = token /\ job'[h].lag = 0
  BY <1>2 DEF IdleJob
<1> QED BY <1>1, <1>2, <1>3, <1>4 DEF Sent

\* What Receive does, field by field.
LEMMA Receiving ==
    ASSUME TypeInv, NEW s \in Sessions, NEW pcs, Answered(s, pcs), NEW p \in Page, Receive(s, p)
    PROVE  /\ Taken(s, pcs)
           /\ \A r \in Sessions \ {s} : page'[r] = page[r]
           /\ page'[s].dialog = p.dialog /\ page'[s].checked = p.checked
           /\ page'[s].auth = p.auth /\ page'[s].deadline = p.deadline
<1> USE DEF TypeInv, TypeOK
<1>1. page[s].conn \in Conns /\ job[page[s].conn].pc \in pcs
  BY DEF Answered, Page
<1>2. /\ job' = [job EXCEPT ![page[s].conn] = IdleJob]
      /\ page' = [page EXCEPT ![s] = [p EXCEPT !.conn = NoConn]]
  BY DEF Receive
<1>3. /\ page'[s] = [p EXCEPT !.conn = NoConn]
      /\ \A r \in Sessions \ {s} : page'[r] = page[r]
      /\ job'[page[s].conn] = IdleJob
      /\ \A g \in Conns \ {page[s].conn} : job'[g] = job[g]
  BY <1>1, <1>2
<1>4. /\ page'[s].conn = NoConn /\ page'[s].dialog = p.dialog /\ page'[s].checked = p.checked
      /\ page'[s].auth = p.auth /\ page'[s].deadline = p.deadline
  BY <1>3 DEF Page
<1> QED BY <1>1, <1>3, <1>4 DEF Taken

\* What is left of a page under its next dialog.
LEMMA Shown ==
    ASSUME NEW p, NEW d
    PROVE  /\ Show(p, d).dialog = d /\ Show(p, d).checked = p.checked
           /\ Show(p, d).auth = p.auth /\ Show(p, d).conn = NoConn
           /\ Show(p, d).deadline = 0
BY DEF Show, FreshPage

\* What is left of a page that gave up.
LEMMA GaveUp ==
    ASSUME NEW p
    PROVE  /\ GiveUp(p).dialog = IF p.checked THEN "rollback" ELSE "unreachable"
           /\ GiveUp(p).checked = p.checked /\ GiveUp(p).auth = p.auth
           /\ GiveUp(p).conn = NoConn
BY Shown DEF GiveUp

\* Every step that a page takes by itself is one of those.
LEMMA ProceedSteps ==
    ASSUME TypeInv, NEW s \in Sessions, Proceed(s)
    PROVE  PageStep(s)
<1>0. /\ page[s] \in Page /\ page \in [Sessions -> Page]
      /\ job \in [Conns -> Job]
  BY DEF TypeInv, TypeOK
<1>1. UNCHANGED trialVars /\ clicks' = clicks
  BY DEF Proceed, ApplyReply, FirstCall, SendConfirm, ConfirmReply, SendRollbackPoll,
     RollbackReply, RevertReply, RequestError, trialVars, backendVars, historyVars
<1>d. /\ {"nochanges", "failed", "applied", "rolledback", "reverted"} \subseteq Dialogs
      /\ \A d \in Dialogs : Show(page[s], d) \in Page
      /\ GiveUp(page[s]) \in Page
  BY <1>0, ShowType, GiveUpType DEF Dialogs
<1>2. CASE ApplyReply(s)
  <2>. DEFINE p == page[s]
              r == job[p.conn]
              ok == [p EXCEPT !.dialog = "confirming", !.first = TRUE,
                        !.auth = IF p.checked THEN r.token ELSE @,
                        !.deadline = Timeout, !.wait = Holdoff]
  <2>1. /\ p.dialog = "starting" /\ Answered(s, {"reply"})
        /\ Receive(s, IF r.status = (IF p.checked THEN 200 ELSE 204) THEN ok
                      ELSE Show(p, IF p.checked /\ r.status = 204 THEN "nochanges" ELSE "failed"))
    BY <1>2 DEF ApplyReply
  <2>2. CASE r.status = (IF p.checked THEN 200 ELSE 204)
    <3>1. r \in Job
      BY <1>0, <2>1 DEF Answered, Page
    <3>2. /\ ok \in Page /\ ok.dialog = "confirming" /\ ok.checked = p.checked
          /\ ok.deadline = Timeout
          /\ p.checked => ok.auth = r.token
      BY <1>0, <3>1, TimeoutType, NumbersAssumption DEF Page, Job, Dialogs
    <3>3. Receive(s, ok)
      BY <2>1, <2>2
    <3>. HIDE DEF ok
    <3>4. /\ Taken(s, {"reply"})
          /\ \A q \in Sessions \ {s} : page'[q] = page[q]
          /\ page'[s].dialog = ok.dialog /\ page'[s].checked = ok.checked
          /\ page'[s].auth = ok.auth /\ page'[s].deadline = ok.deadline
      BY <2>1, <3>2, <3>3, Receiving
    <3>. QED BY <1>1, <2>1, <2>2, <3>2, <3>4 DEF PageStep, Asks, Hears, Turned
  <2>3. CASE r.status # (IF p.checked THEN 200 ELSE 204)
    <3>1. PICK d \in {"nochanges", "failed"} : Receive(s, Show(p, d))
      BY <2>1, <2>3
    <3>2. /\ Taken(s, {"reply"})
          /\ \A q \in Sessions \ {s} : page'[q] = page[q]
          /\ page'[s].dialog = Show(p, d).dialog
      BY <1>d, <2>1, <3>1, Receiving
    <3>. QED BY <1>1, <3>1, <3>2, Shown DEF PageStep, Asks, Hears, Turned
  <2>. QED BY <2>2, <2>3
<1>3. CASE FirstCall(s)
  <2>. DEFINE p == [page[s] EXCEPT !.first = FALSE]
  <2>1. /\ page[s].dialog = "confirming"
        /\ page' = [page EXCEPT ![s] = IF p.deadline = 0 THEN GiveUp(p) ELSE p]
        /\ UNCHANGED job
    BY <1>3 DEF FirstCall
  <2>2. /\ p.dialog = "confirming" /\ p.deadline = page[s].deadline /\ p.conn = page[s].conn
        /\ p.checked = page[s].checked /\ p.auth = page[s].auth
    BY <1>0, <2>1 DEF Page
  <2>3. /\ page'[s] = IF p.deadline = 0 THEN GiveUp(p) ELSE p
        /\ \A r \in Sessions \ {s} : page'[r] = page[r]
    BY <1>0, <2>1
  <2>. HIDE DEF p
  <2>4. CASE p.deadline = 0
    BY <1>1, <2>1, <2>2, <2>3, <2>4, GaveUp DEF PageStep, Hears, Turned, GivesUp, Turns
  <2>5. CASE p.deadline # 0
    BY <1>1, <2>1, <2>2, <2>3, <2>5 DEF PageStep, Asks, Hears, Turned, Turns
  <2>. QED BY <2>4, <2>5
<1>4. CASE SendConfirm(s)
  <2>1. page[s].dialog = "confirming" /\ Send(s, "confirm", "check", page[s].auth, page[s])
    BY <1>4 DEF SendConfirm
  <2>2. /\ \E h \in Conns : Sent(s, h, "confirm", "check", page[s].auth)
        /\ \A r \in Sessions \ {s} : page'[r] = page[r]
        /\ page'[s].dialog = page[s].dialog /\ page'[s].checked = page[s].checked
        /\ page'[s].auth = page[s].auth /\ page'[s].deadline = page[s].deadline
    BY <1>0, <2>1, Sending
  <2>. QED BY <1>1, <2>1, <2>2 DEF PageStep, Asks, Hears, Turned, Turns
<1>5. CASE ConfirmReply(s)
  <2>. DEFINE p == page[s]
              r == job[p.conn]
  <2>1. /\ p.dialog = "confirming" /\ Answered(s, {"reply", "lost"})
        /\ Receive(s, IF p.deadline = 0 THEN GiveUp(p)
                      ELSE IF r.pc = "reply" /\ r.status \in {200, 204}
                           THEN Show(p, "applied") ELSE p)
    BY <1>5 DEF ConfirmReply
  <2>2. CASE p.deadline = 0
    <3>1. Receive(s, GiveUp(p))
      BY <2>1, <2>2
    <3>2. /\ Taken(s, {"reply", "lost"})
          /\ \A q \in Sessions \ {s} : page'[q] = page[q]
          /\ page'[s].dialog = GiveUp(p).dialog /\ page'[s].checked = GiveUp(p).checked
          /\ page'[s].auth = GiveUp(p).auth
      BY <1>d, <2>1, <3>1, Receiving
    <3>3. page'[s].conn = NoConn
      BY <3>2 DEF Taken
    <3>. QED BY <1>1, <2>1, <2>2, <3>2, <3>3, GaveUp DEF PageStep, Hears, Turned, GivesUp, Turns
  <2>3. CASE p.deadline # 0 /\ r.pc = "reply" /\ r.status \in {200, 204}
    <3>1. Receive(s, Show(p, "applied")) /\ Answered(s, {"reply"})
      BY <2>1, <2>3 DEF Answered
    <3>2. /\ Taken(s, {"reply"})
          /\ \A q \in Sessions \ {s} : page'[q] = page[q]
          /\ page'[s].dialog = Show(p, "applied").dialog
          /\ page'[s].checked = Show(p, "applied").checked
          /\ page'[s].auth = Show(p, "applied").auth
      BY <1>d, <3>1, Receiving
    <3>. QED BY <1>1, <2>1, <2>3, <3>2, Shown DEF PageStep, Asks, Hears, Turned, Turns
  <2>4. CASE p.deadline # 0 /\ ~(r.pc = "reply" /\ r.status \in {200, 204})
    <3>1. Receive(s, p)
      BY <2>1, <2>4
    <3>2. /\ Taken(s, {"reply", "lost"})
          /\ \A q \in Sessions \ {s} : page'[q] = page[q]
          /\ page'[s].dialog = p.dialog /\ page'[s].checked = p.checked
          /\ page'[s].auth = p.auth /\ page'[s].deadline = p.deadline
      BY <1>0, <2>1, <3>1, Receiving
    <3>. QED BY <1>1, <2>1, <3>2 DEF PageStep, Asks, Hears, Turned, Turns
  <2>. QED BY <2>2, <2>3, <2>4
<1>6. CASE SendRollbackPoll(s)
  <2>1. page[s].dialog = "rollback" /\ Send(s, "confirm", "check", 0, page[s])
    BY <1>6 DEF SendRollbackPoll
  <2>2. /\ \E h \in Conns : Sent(s, h, "confirm", "check", 0)
        /\ \A r \in Sessions \ {s} : page'[r] = page[r]
        /\ page'[s].dialog = page[s].dialog /\ page'[s].checked = page[s].checked
        /\ page'[s].auth = page[s].auth
    BY <1>0, <2>1, Sending
  <2>. QED BY <1>1, <2>1, <2>2 DEF PageStep, Asks, Hears, Turned, Turns
<1>7. CASE RollbackReply(s)
  <2>. DEFINE p == page[s]
              r == job[p.conn]
              w == [p EXCEPT !.wait = 1]
  <2>1. /\ p.dialog = "rollback" /\ Answered(s, {"reply", "lost"})
        /\ Receive(s, IF r.pc = "lost" THEN w
                      ELSE IF r.status = 204 THEN Show(p, "rolledback") ELSE p)
    BY <1>7 DEF RollbackReply
  <2>2. CASE r.pc # "lost" /\ r.status = 204
    <3>1. Receive(s, Show(p, "rolledback")) /\ Answered(s, {"reply"})
      BY <2>1, <2>2 DEF Answered
    <3>2. /\ Taken(s, {"reply"})
          /\ \A q \in Sessions \ {s} : page'[q] = page[q]
          /\ page'[s].dialog = Show(p, "rolledback").dialog
          /\ page'[s].checked = Show(p, "rolledback").checked
          /\ page'[s].auth = Show(p, "rolledback").auth
      BY <1>d, <3>1, Receiving
    <3>. QED BY <1>1, <2>1, <2>2, <3>2, Shown DEF PageStep, Asks, Hears, Turned, Turns
  <2>3. CASE r.pc = "lost" \/ r.status # 204
    <3>1. w \in Page /\ w.dialog = p.dialog /\ w.checked = p.checked /\ w.auth = p.auth
      BY <1>0 DEF Page
    <3>2. PICK q \in {w, p} : Receive(s, q)
      BY <2>1, <2>3
    <3>3. q \in Page /\ q.dialog = p.dialog /\ q.checked = p.checked /\ q.auth = p.auth
      BY <1>0, <3>1, <3>2
    <3>4. /\ Taken(s, {"reply", "lost"})
          /\ \A x \in Sessions \ {s} : page'[x] = page[x]
          /\ page'[s].dialog = q.dialog /\ page'[s].checked = q.checked
          /\ page'[s].auth = q.auth
      BY <2>1, <3>2, <3>3, Receiving
    <3>. QED BY <1>1, <2>1, <3>3, <3>4 DEF PageStep, Asks, Hears, Turned, Turns
  <2>. QED BY <2>2, <2>3
<1>8. CASE RevertReply(s)
  <2>1. PICK d \in {"reverted", "failed"} :
          page[s].dialog = "reverting" /\ Answered(s, {"reply"}) /\ Receive(s, Show(page[s], d))
    BY <1>8 DEF RevertReply
  <2>2. /\ Taken(s, {"reply"})
        /\ \A q \in Sessions \ {s} : page'[q] = page[q]
        /\ page'[s].dialog = Show(page[s], d).dialog
    BY <1>d, <2>1, Receiving
  <2>. QED BY <1>1, <2>1, <2>2, Shown DEF PageStep, Asks, Hears, Turned
<1>9. CASE RequestError(s)
  <2>1. /\ page[s].dialog \in {"starting", "reverting"} /\ Answered(s, {"lost"})
        /\ Receive(s, page[s])
    BY <1>9 DEF RequestError
  <2>2. /\ Taken(s, {"lost"})
        /\ \A q \in Sessions \ {s} : page'[q] = page[q]
        /\ page'[s].dialog = page[s].dialog
    BY <1>0, <2>1, Receiving
  <2>. QED BY <1>1, <2>1, <2>2 DEF PageStep, Asks, Hears, Turned
<1> QED BY <1>2, <1>3, <1>4, <1>5, <1>6, <1>7, <1>8, <1>9 DEF Proceed

\* And so is every step of its user.
LEMMA UserSteps ==
    ASSUME TypeInv, NEW s \in Sessions, User(s)
    PROVE  PageStep(s)
<1>0. /\ page[s] \in Page /\ page \in [Sessions -> Page]
      /\ job \in [Conns -> Job] /\ clicks \in Nat /\ MaxApplies \in Nat
      /\ record.ttl \in Nat
  BY NumbersAssumption DEF TypeInv, TypeOK, Tokens
<1>1. UNCHANGED trialVars
  BY DEF User, Edit, Stage, ApplyChecked, ApplyUnchecked, Revert, Close, PageLoad,
     trialVars, backendVars, historyVars
<1>d. {"starting", "reverting"} \subseteq Dialogs
  BY DEF Dialogs
<1>2. CASE Edit(s)
  BY <1>1, <1>2 DEF Edit, pageVars, PageStep, Turned
<1>3. ASSUME NEW d \in {"starting", "reverting"}, NEW b \in BOOLEAN
      PROVE  LET x == [Show(page[s], d) EXCEPT !.checked = b]
             IN x \in Page /\ x.dialog = d /\ x.checked = b
  <2>1. Show(page[s], d) \in Page /\ Show(page[s], d).dialog = d
    BY <1>0, <1>d, ShowType, Shown
  <2>. QED BY <2>1 DEF Page
<1>4. CASE ApplyChecked(s)
  <2>. DEFINE x == [Show(page[s], "starting") EXCEPT !.checked = TRUE]
  <2>1. /\ clicks' = clicks + 1 /\ clicks < MaxApplies
        /\ Send(s, "apply_rollback", "apply", clicks + 1, x)
    BY <1>4 DEF ApplyChecked
  <2>2. x \in Page /\ x.dialog = "starting" /\ x.checked = TRUE
    BY <1>3
  <2>. HIDE DEF x
  <2>3. /\ \E h \in Conns : Sent(s, h, "apply_rollback", "apply", clicks + 1)
        /\ \A r \in Sessions \ {s} : page'[r] = page[r]
        /\ page'[s].dialog = x.dialog /\ page'[s].checked = x.checked
    BY <2>1, <2>2, Sending
  <2>4. clicks + 1 \in Ids
    BY <1>0, <2>1 DEF Ids
  <2>. QED BY <1>1, <2>1, <2>2, <2>3, <2>4 DEF PageStep, Asks, Hears, Turned
<1>5. CASE ApplyUnchecked(s)
  <2>. DEFINE x == [Show(page[s], "starting") EXCEPT !.checked = FALSE]
  <2>1. clicks' = clicks /\ Send(s, "apply_unchecked", "changes", 0, x)
    BY <1>5 DEF ApplyUnchecked
  <2>2. x \in Page /\ x.dialog = "starting" /\ x.checked = FALSE
    BY <1>3
  <2>. HIDE DEF x
  <2>3. /\ \E h \in Conns : Sent(s, h, "apply_unchecked", "changes", 0)
        /\ \A r \in Sessions \ {s} : page'[r] = page[r]
        /\ page'[s].dialog = x.dialog /\ page'[s].checked = x.checked
    BY <2>1, <2>2, Sending
  <2>. QED BY <1>1, <2>1, <2>2, <2>3 DEF PageStep, Asks, Hears, Turned
<1>6. CASE Revert(s)
  <2>. DEFINE x == Show(page[s], "reverting")
  <2>1. clicks' = clicks /\ Send(s, "revert", "changes", 0, x)
    BY <1>6 DEF Revert
  <2>2. x \in Page /\ x.dialog = "reverting"
    BY <1>0, <1>d, ShowType, Shown
  <2>. HIDE DEF x
  <2>3. /\ \E h \in Conns : Sent(s, h, "revert", "changes", 0)
        /\ \A r \in Sessions \ {s} : page'[r] = page[r]
        /\ page'[s].dialog = x.dialog
    BY <2>1, <2>2, Sending
  <2>. QED BY <1>1, <2>1, <2>2, <2>3 DEF PageStep, Asks, Hears, Turned
<1>7. CASE Close(s)
  <2>1. /\ page' = [page EXCEPT ![s].dialog = "closed"] /\ UNCHANGED <<clicks, job>>
    BY <1>7 DEF Close
  <2>2. /\ page'[s].dialog = "closed" /\ page'[s].conn = page[s].conn
        /\ \A r \in Sessions \ {s} : page'[r] = page[r]
    BY <1>0, <2>1 DEF Page
  <2>. QED BY <1>1, <2>1, <2>2 DEF PageStep, Asks, Hears, Turned
<1>8. CASE PageLoad(s)
  <2>. DEFINE remaining == Down(record.ttl)
              x == [FreshPage EXCEPT !.dialog = "confirming", !.checked = TRUE,
                  !.auth = record.token, !.first = TRUE, !.deadline = remaining,
                  !.wait = IF Holdoff + remaining > Timeout
                           THEN (Holdoff + remaining) - Timeout ELSE 0]
  <2>1. /\ page' = [page EXCEPT ![s] = IF remaining > 0 THEN x ELSE FreshPage]
        /\ UNCHANGED <<clicks, job>>
    BY <1>8 DEF PageLoad
  <2>2. /\ page'[s] = IF remaining > 0 THEN x ELSE FreshPage
        /\ \A r \in Sessions \ {s} : page'[r] = page[r]
    BY <1>0, <2>1
  <2>3. CASE remaining > 0
    <3>1. /\ x.dialog = "confirming" /\ x.checked = TRUE /\ x.auth = record.token
          /\ x.deadline = remaining /\ x.conn = NoConn
      BY DEF FreshPage
    <3>2. record.ttl > 0
      BY <1>0, <2>3 DEF Down
    <3>. QED BY <1>1, <2>1, <2>2, <2>3, <3>1, <3>2 DEF PageStep, Asks, Hears, Turned
  <2>4. CASE ~(remaining > 0)
    <3>1. page'[s].dialog = "closed" /\ page'[s].conn = NoConn
      BY <2>2, <2>4 DEF FreshPage
    <3>. QED BY <1>1, <2>1, <2>2, <3>1 DEF PageStep, Asks, Hears, Turned
  <2>. QED BY <2>3, <2>4
<1> QED BY <1>2, <1>4, <1>5, <1>6, <1>7, <1>8 DEF User

\* The numbers of applies that are named anywhere.
LEMMA Named ==
    ASSUME LinkInv
    PROVE  /\ clicks \in Nat /\ 1..clicks \subseteq Ids /\ outcome \in [Ids -> {"requested", "pending", "kept", "reverted"}]
           /\ \A h \in Conns : job[h].pc \in {"apply", "record"} => job[h].token \in 1..clicks
           /\ record.ttl > 0 => record.token \in 1..clicks
           /\ Pending => pendingId \in 1..clicks
<1>1. clicks \in 0..MaxApplies /\ MaxApplies \in Nat
  BY NumbersAssumption DEF LinkInv, TypeInv, TypeOK, Tokens
<1>2. 1..clicks \subseteq Ids
  BY <1>1 DEF Ids
<1>3. outcome \in [Ids -> {"requested", "pending", "kept", "reverted"}]
  BY DEF LinkInv, TypeInv, TypeOK
<1>4. \A h \in Conns : job[h].pc \in {"apply", "record"} => job[h].token \in 1..clicks
  BY DEF LinkInv, TokenInv, HandlerTokens, Requested
<1>5. /\ record.ttl > 0 => record.token \in 1..clicks
      /\ Pending => pendingId \in 1..clicks
  BY DEF LinkInv, TokenInv, Requested
<1> QED BY <1>1, <1>2, <1>3, <1>4, <1>5

\* A handler's step keeps the links.
LEMMA HandleLinks ==
    ASSUME LinkInv, NEW h \in Conns, HandlerStep(h), RecordedInPeace'
    PROVE  JobKinds' /\ PageJobs' /\ Outcomes'
<1>0. JobKinds /\ PageJobs /\ Outcomes /\ TokenInv
  BY DEF LinkInv
<1>1. /\ page' = page /\ clicks' = clicks
      /\ \A g \in Conns \ {h} : job'[g] = job[g]
      /\ job'[h].kind = job[h].kind /\ job'[h].sid = job[h].sid
      /\ job'[h].token = job[h].token
  BY DEF HandlerStep
<1>2. JobKinds'
  <2>1. ASSUME NEW g \in Conns
        PROVE  /\ job'[g].pc \in {"apply", "record"} => job'[g].kind = "apply_rollback"
               /\ job'[g].pc \in {"check", "confirm", "clear"} => job'[g].kind = "confirm"
               /\ job'[g].pc \in {"changes", "commit", "reload", "revert"}
                    => job'[g].kind \in {"apply_unchecked", "revert"}
    <3>1. CASE g # h
      BY <1>0, <1>1, <3>1 DEF JobKinds
    <3>2. CASE g = h
      BY <1>0, <1>1, <3>2 DEF JobKinds, HandlerStep, Moves
    <3>. QED BY <3>1, <3>2
  <2>. QED BY <2>1 DEF JobKinds
<1>3. PageJobs'
  <2>1. ASSUME NEW s \in Sessions, page[s].conn = h
        PROVE  PageJob(s, page[s])'
    <3>1. PageJob(s, page[s])
      BY <1>0 DEF PageJobs
    <3>2. job'[h].pc # "idle"
      BY DEF HandlerStep, Moves
    <3>3. page[s].dialog = "rollback" => job'[h].pc \in {"check", "reply", "lost"}
      <4>1. SUFFICES ASSUME page[s].dialog = "rollback"
                     PROVE  job'[h].pc \in {"check", "reply", "lost"}
        OBVIOUS
      <4>2. job[h].token = 0 /\ job[h].pc \in {"check", "reply", "lost"}
        BY <2>1, <3>1, <4>1, NoConnAssumption DEF PageJob
      <4>3. record.ttl > 0 => record.token # 0
        BY Named
      <4>. QED BY <4>2, <4>3 DEF HandlerStep, Moves
    <3>. QED BY <1>1, <2>1, <3>1, <3>2, <3>3 DEF PageJob
  <2>2. ASSUME NEW s \in Sessions, page[s].conn # h
        PROVE  PageJob(s, page[s])'
    <3>1. page[s].conn \in Conns \cup {NoConn}
      BY DEF LinkInv, TypeInv, TypeOK, Page
    <3>2. page[s].conn # NoConn => job'[page[s].conn] = job[page[s].conn]
      BY <1>1, <2>2, <3>1
    <3>. QED BY <1>0, <1>1, <3>2 DEF PageJob, PageJobs
  <2>. QED BY <1>0, <1>1, <2>1, <2>2 DEF PageJobs
<1>4. Outcomes'
  <2>0. /\ clicks \in Nat /\ 1..clicks \subseteq Ids /\ outcome \in [Ids -> {"requested", "pending", "kept", "reverted"}]
        /\ \A g \in Conns : job[g].pc \in {"apply", "record"} => job[g].token \in 1..clicks
        /\ Pending => pendingId \in 1..clicks
    BY Named
  <2>1. CASE /\ Moves(h, "apply", "record")
             /\ ~Pending /\ Pending' /\ timer' = Timeout
             /\ pendingId' = job[h].token /\ record' = record
             /\ outcome' = [outcome EXCEPT ![job[h].token] = "pending"]
    <3>1. /\ outcome'[job[h].token] = "pending"
          /\ \A id \in Ids : id # job[h].token => outcome'[id] = outcome[id]
      BY <2>0, <2>1 DEF Moves
    <3>2. Pending' => outcome'[pendingId'] = "pending" /\ timer' <= Timeout
      BY <2>1, <3>1, TimeoutType
    <3>3. \A id \in Ids : id > clicks' => outcome'[id] = "requested"
      BY <1>0, <1>1, <2>0, <2>1, <3>1 DEF Outcomes, Moves
    <3>4. \A g \in Conns : job'[g].pc = "apply" =>
              g # h /\ job[g].pc = "apply" /\ job'[g].token = job[g].token
      BY <1>1, <2>1 DEF Moves
    <3>5. \A g \in Conns : job'[g].pc = "apply" => outcome'[job'[g].token] = "requested"
      BY <1>0, <2>0, <2>1, <3>1, <3>4 DEF Outcomes, Moves
    <3>6. \A g \in Conns : job'[g].pc # "clear"
      BY <2>1 DEF RecordedInPeace, Moves
    <3>7. Timeout' = Timeout
      BY DEF Timeout
    <3>. QED BY <1>0, <3>2, <3>3, <3>4, <3>5, <3>6, <3>7 DEF Outcomes
  <2>2. CASE /\ Moves(h, "confirm", "clear")
             /\ Pending /\ ~Pending'
             /\ outcome' = [outcome EXCEPT ![pendingId] = "kept"]
             /\ UNCHANGED <<record, pendingId>>
    <3>1. \A id \in Ids : id # pendingId => outcome'[id] = outcome[id]
      BY <2>0, <2>2
    <3>3. \A id \in Ids : id > clicks' => outcome'[id] = "requested"
      BY <1>0, <1>1, <2>0, <2>2, <3>1 DEF Outcomes
    <3>4. \A g \in Conns : job'[g].pc = "apply" =>
              job[g].pc = "apply" /\ job'[g].token = job[g].token
      BY <1>1, <2>2 DEF Moves
    <3>5. \A g \in Conns : job'[g].pc = "apply" => outcome'[job'[g].token] = "requested"
      BY <1>0, <2>0, <2>2, <3>1, <3>4 DEF Outcomes
    <3>. QED BY <1>0, <2>2, <3>3, <3>4, <3>5 DEF Outcomes
  <2>3. CASE /\ UNCHANGED <<applySid, timer, outcome, pendingId>>
             /\ job'[h].pc \notin {"apply", "clear"}
    <3>1. \A g \in Conns : job'[g].pc = "apply" =>
              job[g].pc = "apply" /\ job'[g].token = job[g].token
      BY <1>1, <2>3
    <3>2. \A g \in Conns : job'[g].pc = "clear" => job[g].pc = "clear"
      BY <1>1, <2>3
    <3>3. Pending' = Pending /\ Timeout' = Timeout
      BY <2>3 DEF Pending, Timeout
    <3>. QED BY <1>0, <1>1, <2>3, <3>1, <3>2, <3>3 DEF Outcomes
  <2>. QED BY <2>1, <2>2, <2>3 DEF HandlerStep, Moves, trialVars
<1>. QED BY <1>2, <1>3, <1>4

\* The job that a page receives is that page's only.
LEMMA OwnConn ==
    ASSUME LinkInv, NEW s \in Sessions, NEW r \in Sessions, r # s,
           page[s].conn # NoConn
    PROVE  page[r].conn # page[s].conn
BY DEF LinkInv, PageJobs, PageJob

\* What a job is about stays as it is in the steps that only start or end jobs.
LEMMA OtherPages ==
    ASSUME LinkInv, NEW s \in Sessions, NEW h \in Conns,
           \A r \in Sessions \ {s} : page'[r] = page[r] /\ page[r].conn # h,
           \A g \in Conns \ {h} : job'[g] = job[g],
           PageJob(s, page[s])', page'[s].dialog = "rollback" => page'[s].checked
    PROVE  PageJobs'
<1>1. ASSUME NEW r \in Sessions, r # s
      PROVE  PageJob(r, page[r])' /\ (page'[r].dialog = "rollback" => page'[r].checked)
  <2>1. page[r].conn \in Conns \cup {NoConn} /\ page'[r] = page[r] /\ page[r].conn # h
    BY <1>1 DEF LinkInv, TypeInv, TypeOK, Page
  <2>2. page[r].conn # NoConn => job'[page[r].conn] = job[page[r].conn]
    BY <2>1
  <2>. QED BY <2>1, <2>2 DEF LinkInv, PageJobs, PageJob
<1>. QED BY <1>1 DEF PageJobs

\* A step of a page or of its user keeps the links.
LEMMA PageLinks ==
    ASSUME LinkInv, NEW s \in Sessions, PageStep(s)
    PROVE  JobKinds' /\ PageJobs' /\ Outcomes'
<1>0. JobKinds /\ PageJobs /\ Outcomes
  BY DEF LinkInv
<1>1. /\ UNCHANGED <<applySid, timer, record, outcome, pendingId>>
      /\ \A r \in Sessions \ {s} : page'[r] = page[r]
      /\ Pending' = Pending /\ Timeout' = Timeout
  BY DEF PageStep, trialVars, Pending, Timeout
<1>2. /\ clicks \in Nat /\ 1..clicks \subseteq Ids
      /\ \A g \in Conns : job[g].pc \in {"apply", "record"} => job[g].token \in 1..clicks
  BY Named
<1>3. ASSUME NEW h, NEW kind, NEW entry, NEW token, Sent(s, h, kind, entry, token),
             \/ kind = "apply_rollback" /\ entry = "apply" /\ token = clicks + 1
                /\ clicks + 1 \in Ids /\ clicks' = clicks + 1
             \/ kind \in {"apply_unchecked", "revert"} /\ entry = "changes" /\ clicks' = clicks
             \/ kind = "confirm" /\ entry = "check" /\ clicks' = clicks,
             page'[s].dialog = "starting" =>
               kind = IF page'[s].checked THEN "apply_rollback" ELSE "apply_unchecked",
             page'[s].dialog \in {"confirming", "rollback"} => kind = "confirm",
             page'[s].dialog = "rollback" => page'[s].checked /\ token = 0
      PROVE  JobKinds' /\ PageJobs' /\ Outcomes'
  <2>1. /\ h \in Conns /\ job[h].pc = "idle" /\ page'[s].conn = h
        /\ job'[h].pc = entry /\ job'[h].kind = kind
        /\ job'[h].sid = s /\ job'[h].token = token
        /\ \A g \in Conns \ {h} : job'[g] = job[g]
    BY <1>3 DEF Sent
  <2>2. JobKinds'
    BY <1>0, <1>3, <2>1 DEF JobKinds
  <2>3. PageJob(s, page[s])'
    BY <1>3, <2>1 DEF PageJob
  <2>4. \A r \in Sessions \ {s} : page'[r] = page[r] /\ page[r].conn # h
    BY <1>0, <1>1, <2>1, NoConnAssumption DEF PageJobs, PageJob
  <2>5. PageJobs'
    BY <1>3, <2>1, <2>3, <2>4, OtherPages
  <2>6. ASSUME NEW g \in Conns, job'[g].pc = "apply"
        PROVE  /\ outcome'[job'[g].token] = "requested"
               /\ g # h => job[g].pc = "apply" /\ job'[g].token = job[g].token
               /\ g = h => job'[g].token = clicks + 1 /\ clicks' = clicks + 1
    BY <1>0, <1>1, <1>2, <1>3, <2>1, <2>6 DEF Outcomes
  <2>7. \A id \in Ids : id > clicks' => outcome'[id] = "requested"
    BY <1>0, <1>1, <1>2, <1>3 DEF Outcomes, Ids
  <2>8. \A g, k \in Conns :
         job'[g].pc = "apply" /\ job'[k].pc = "apply" /\ job'[g].token = job'[k].token => g = k
    <3>1. ASSUME NEW g \in Conns, g # h, job'[g].pc = "apply", job'[h].pc = "apply"
          PROVE  job'[g].token # job'[h].token
      <4>1. job'[g].token \in 1..clicks /\ job'[h].token = clicks + 1
        BY <1>2, <2>1, <2>6, <3>1
      <4>. QED BY <1>2, <4>1
    <3>. QED BY <1>0, <2>1, <2>6, <3>1 DEF Outcomes
  <2>9. \A g \in Conns : job'[g].pc = "clear" => job[g].pc = "clear"
    BY <1>3, <2>1
  <2>10. Outcomes'
    BY <1>0, <1>1, <2>6, <2>7, <2>8, <2>9 DEF Outcomes
  <2>. QED BY <2>2, <2>5, <2>10
<1>4. ASSUME clicks' = clicks, NEW pcs, Taken(s, pcs), page'[s].dialog = "rollback" => page'[s].checked
      PROVE  JobKinds' /\ PageJobs' /\ Outcomes'
  <2>. DEFINE h == page[s].conn
  <2>1. /\ h \in Conns /\ page'[s].conn = NoConn /\ job'[h].pc = "idle"
        /\ \A g \in Conns \ {h} : job'[g] = job[g]
    BY <1>4 DEF Taken, IdleJob
  <2>2. PageJob(s, page[s])'
    BY <2>1 DEF PageJob
  <2>3. \A r \in Sessions \ {s} : page[r].conn # h
    BY <2>1, OwnConn, NoConnAssumption
  <2>. HIDE DEF h
  <2>4. PageJobs'
    BY <1>1, <1>4, <2>1, <2>2, <2>3, OtherPages
  <2>5. JobKinds'
    BY <1>0, <2>1 DEF JobKinds
  <2>6. Outcomes'
    <3>1. \A g \in Conns : job'[g].pc \in {"apply", "clear"} => job'[g] = job[g]
      BY <2>1
    <3>. QED BY <1>0, <1>1, <1>4, <3>1 DEF Outcomes
  <2>. QED BY <2>4, <2>5, <2>6
<1>5. ASSUME UNCHANGED <<clicks, job>>, page'[s].dialog = "rollback" => page'[s].checked,
             \/ page'[s].conn = NoConn
             \/ page'[s].dialog = "closed" /\ page'[s].conn \in {page[s].conn, NoConn}
             \/ Turns(s, {"confirming"}, {"confirming"}) /\ page'[s].conn = page[s].conn
      PROVE  JobKinds' /\ PageJobs' /\ Outcomes'
  <2>1. PageJob(s, page[s])
    BY <1>0 DEF PageJobs
  <2>2. PageJob(s, page[s])'
    <3>1. CASE page'[s].conn = NoConn
      BY <3>1 DEF PageJob
    <3>2. CASE Turns(s, {"confirming"}, {"confirming"}) /\ page'[s].conn = page[s].conn
      BY <1>5, <2>1, <3>2 DEF PageJob, Turns
    <3>3. CASE page'[s].dialog = "closed" /\ page'[s].conn \in {page[s].conn, NoConn}
      BY <1>5, <2>1, <3>3 DEF PageJob
    <3>. QED BY <1>5, <3>1, <3>2, <3>3
  <2>3. ASSUME NEW r \in Sessions, r # s
        PROVE  PageJob(r, page[r])' /\ (page'[r].dialog = "rollback" => page'[r].checked)
    BY <1>0, <1>1, <1>5, <2>3 DEF PageJobs, PageJob
  <2>4. PageJobs'
    BY <1>5, <2>2, <2>3 DEF PageJobs
  <2>5. JobKinds' /\ Outcomes'
    BY <1>0, <1>1, <1>5 DEF JobKinds, Outcomes
  <2>. QED BY <2>4, <2>5
<1>6. CASE UNCHANGED <<page, job, clicks>>
  BY <1>0, <1>1, <1>6 DEF JobKinds, Outcomes, PageJobs, PageJob
<1>7. CASE Asks(s)
  <2>1. CASE /\ clicks' = clicks + 1 /\ clicks + 1 \in Ids
             /\ page'[s].dialog = "starting" /\ page'[s].checked = TRUE
             /\ \E h \in Conns : Sent(s, h, "apply_rollback", "apply", clicks + 1)
    BY <1>3, <2>1
  <2>2. CASE /\ clicks' = clicks
             /\ page'[s].dialog = "starting" /\ page'[s].checked = FALSE
             /\ \E h \in Conns : Sent(s, h, "apply_unchecked", "changes", 0)
    BY <1>3, <2>2
  <2>3. CASE /\ clicks' = clicks
             /\ page'[s].dialog = "reverting"
             /\ \E h \in Conns : Sent(s, h, "revert", "changes", 0)
    BY <1>3, <2>3
  <2>4. CASE /\ clicks' = clicks
             /\ Turns(s, {"confirming"}, {"confirming"})
             /\ \E h \in Conns : Sent(s, h, "confirm", "check", page[s].auth)
    BY <1>3, <2>4 DEF Turns
  <2>5. CASE /\ clicks' = clicks
             /\ Turns(s, {"rollback"}, {"rollback"})
             /\ \E h \in Conns : Sent(s, h, "confirm", "check", 0)
    <3>1. page'[s].dialog = "rollback" /\ page'[s].checked
      BY <1>0, <2>5 DEF Turns, PageJobs
    <3>. QED BY <1>3, <2>5, <3>1
  <2>. QED BY <1>7, <2>1, <2>2, <2>3, <2>4, <2>5 DEF Asks
<1>8. CASE Hears(s)
  <2>1. \E pcs : Taken(s, pcs)
    BY <1>8 DEF Hears
  <2>2. page'[s].dialog = "rollback" => page'[s].checked
    BY <1>0, <1>8 DEF Hears, Turns, GivesUp, PageJobs
  <2>. QED BY <1>4, <1>8, <2>1, <2>2 DEF Hears
<1>9. CASE Turned(s)
  <2>1. page'[s].dialog = "rollback" /\ ~ UNCHANGED page => page'[s].checked
    BY <1>9 DEF Turned, Turns, GivesUp
  <2>. QED BY <1>5, <1>6, <1>9, <2>1 DEF Turned, GivesUp
<1>. QED BY <1>7, <1>8, <1>9 DEF PageStep

\* The network loses a request or an answer, or drops one that nobody waits for.
NetworkStep(h) ==
    /\ UNCHANGED trialVars /\ UNCHANGED <<page, clicks>>
    /\ \A g \in Conns \ {h} : job'[g] = job[g]
    /\ \/ /\ job[h].pc \in {"apply", "changes", "check", "reply"} /\ job'[h].pc = "lost"
          /\ job'[h].kind = job[h].kind /\ job'[h].sid = job[h].sid
          /\ job'[h].token = job[h].token /\ job'[h].lag = job[h].lag
       \/ /\ \A s \in Sessions : page[s].conn # h
          /\ job'[h].pc = "idle" /\ job'[h].lag = 0

\* Whatever the network does is one of those.
LEMMA NetworkSteps ==
    ASSUME TypeInv, NEW h \in Conns, Network(h)
    PROVE  NetworkStep(h)
<1>0. job[h] \in Job /\ job \in [Conns -> Job]
  BY DEF TypeInv, TypeOK
<1>1. UNCHANGED trialVars /\ UNCHANGED <<page, clicks>>
  BY DEF Network, LoseRequest, LoseReply, DropReply, trialVars, backendVars,
     pageVars, historyVars
<1>2. CASE LoseRequest(h) \/ LoseReply(h)
  <2>1. /\ job[h].pc \in {"apply", "changes", "check", "reply"}
        /\ job' = [job EXCEPT ![h].pc = "lost"]
    BY <1>2 DEF LoseRequest, LoseReply, Step, Entry
  <2>2. /\ job'[h].pc = "lost"
        /\ job'[h].kind = job[h].kind /\ job'[h].sid = job[h].sid
        /\ job'[h].token = job[h].token /\ job'[h].lag = job[h].lag
        /\ \A g \in Conns \ {h} : job'[g] = job[g]
    BY <1>0, <2>1 DEF Job
  <2> QED BY <1>1, <2>1, <2>2 DEF NetworkStep
<1>3. CASE DropReply(h)
  <2>1. job'[h] = IdleJob /\ \A g \in Conns \ {h} : job'[g] = job[g]
    BY <1>0, <1>3 DEF DropReply
  <2>2. job'[h].pc = "idle" /\ job'[h].lag = 0
    BY <2>1 DEF IdleJob
  <2> QED BY <1>1, <1>3, <2>1, <2>2 DEF NetworkStep, DropReply
<1> QED BY <1>2, <1>3 DEF Network

\* It keeps the links.
LEMMA NetworkLinks ==
    ASSUME LinkInv, NEW h \in Conns, NetworkStep(h)
    PROVE  JobKinds' /\ PageJobs' /\ Outcomes'
<1>0. JobKinds /\ PageJobs /\ Outcomes
  BY DEF LinkInv
<1>1. /\ UNCHANGED <<applySid, timer, record, outcome, pendingId>>
      /\ page' = page /\ clicks' = clicks
      /\ \A g \in Conns \ {h} : job'[g] = job[g]
      /\ Pending' = Pending /\ Timeout' = Timeout
      /\ job'[h].pc \in {"lost", "idle"}
  BY DEF NetworkStep, trialVars, Pending, Timeout
<1>2. JobKinds'
  BY <1>0, <1>1 DEF JobKinds
<1>3. Outcomes'
  <2>1. \A g \in Conns : job'[g].pc \in {"apply", "clear"} => job'[g] = job[g]
    BY <1>1
  <2>. QED BY <1>0, <1>1, <2>1 DEF Outcomes
<1>4. ASSUME NEW s \in Sessions
      PROVE  PageJob(s, page[s])'
  <2>1. page[s].conn \in Conns \cup {NoConn} /\ PageJob(s, page[s])
    BY <1>0 DEF LinkInv, TypeInv, TypeOK, Page, PageJobs
  <2>2. CASE page[s].conn = h
    BY <1>1, <2>1, <2>2 DEF NetworkStep, PageJob
  <2>3. CASE page[s].conn # h
    <3>1. page[s].conn # NoConn => job'[page[s].conn] = job[page[s].conn]
      BY <1>1, <2>1, <2>3
    <3>. QED BY <1>1, <2>1, <3>1 DEF PageJob
  <2>. QED BY <2>2, <2>3
<1>. QED BY <1>0, <1>1, <1>2, <1>3, <1>4 DEF PageJobs

\* rpcd's timer keeps the links.
LEMMA TimeoutLinks ==
    ASSUME LinkInv, RpcdTimeout
    PROVE  JobKinds' /\ PageJobs' /\ Outcomes'
<1>0. JobKinds /\ PageJobs /\ Outcomes
  BY DEF LinkInv
<1>1. /\ Pending /\ ~Pending'
      /\ outcome' = [outcome EXCEPT ![pendingId] = "reverted"]
      /\ UNCHANGED <<page, job, clicks>>
  BY DEF RpcdTimeout, RestoreSnapshot, EndTrial, Pending, pageVars
<1>2. /\ clicks \in Nat /\ 1..clicks \subseteq Ids
      /\ outcome \in [Ids -> {"requested", "pending", "kept", "reverted"}]
      /\ \A h \in Conns : job[h].pc \in {"apply", "record"} => job[h].token \in 1..clicks
      /\ pendingId \in 1..clicks
  BY <1>1, Named
<1>3. \A id \in Ids : id # pendingId => outcome'[id] = outcome[id]
  BY <1>1, <1>2
<1>4. JobKinds' /\ PageJobs'
  BY <1>0, <1>1 DEF JobKinds, PageJobs, PageJob
<1>5. Outcomes'
  <2>1. \A id \in Ids : id > clicks' => outcome'[id] = "requested"
    BY <1>0, <1>1, <1>2, <1>3 DEF Outcomes
  <2>2. \A g \in Conns : job'[g].pc = "apply" => outcome'[job'[g].token] = "requested"
    BY <1>0, <1>1, <1>2, <1>3 DEF Outcomes
  <2>. QED BY <1>0, <1>1, <2>1, <2>2 DEF Outcomes
<1>. QED BY <1>4, <1>5

\* Time goes on for the timers, the record and the pages alike.
LEMMA Ticked ==
    ASSUME TypeInv, Tick
    PROVE  /\ ~ (Pending /\ timer = 0) /\ timer' = Down(timer)
           /\ UNCHANGED <<applySid, outcome, pendingId, clicks>>
           /\ record.ttl > 1 => /\ record'.ttl = record.ttl - 1
                                /\ record'.token = record.token
           /\ ~ (record.ttl > 1) => record'.ttl = 0
           /\ \A h \in Conns :
                /\ job'[h].pc = job[h].pc /\ job'[h].kind = job[h].kind
                /\ job'[h].sid = job[h].sid /\ job'[h].token = job[h].token
                /\ job'[h].status = job[h].status
                /\ job[h].lag <= MaxLag => job'[h].lag <= MaxLag
                /\ job'[h].lag = IF job[h].pc = "idle" THEN job[h].lag ELSE job[h].lag + 1
           /\ \A s \in Sessions :
                /\ page'[s].dialog = page[s].dialog /\ page'[s].checked = page[s].checked
                /\ page'[s].auth = page[s].auth /\ page'[s].conn = page[s].conn
                /\ page'[s].deadline = Down(page[s].deadline)
<1> USE DEF TypeInv, TypeOK
<1>1. /\ ~ (Pending /\ timer = 0) /\ timer' = Down(timer)
      /\ UNCHANGED <<applySid, outcome, pendingId, clicks>>
  BY DEF Tick, historyVars
<1>2. /\ record.ttl > 1 => record'.ttl = record.ttl - 1 /\ record'.token = record.token
      /\ ~ (record.ttl > 1) => record'.ttl = 0
  BY DEF Tick, NoRecord
<1>3. ASSUME NEW h \in Conns
      PROVE  /\ job'[h].pc = job[h].pc /\ job'[h].kind = job[h].kind
             /\ job'[h].sid = job[h].sid /\ job'[h].token = job[h].token
             /\ job'[h].status = job[h].status
             /\ job[h].lag <= MaxLag => job'[h].lag <= MaxLag
             /\ job'[h].lag = IF job[h].pc = "idle" THEN job[h].lag ELSE job[h].lag + 1
  <2>1. job[h] \in Job /\ job[h].lag \in Nat
    BY DEF Job
  <2>2. job'[h] = IF job[h].pc = "idle" THEN job[h] ELSE [job[h] EXCEPT !.lag = @ + 1]
    BY DEF Tick
  <2>3. job[h].pc # "idle" => job[h].lag < MaxLag
    BY DEF Tick
  <2>4. job'[h].lag = IF job[h].pc = "idle" THEN job[h].lag ELSE job[h].lag + 1
    BY <2>1, <2>2 DEF Job
  <2>6. job[h].lag <= MaxLag => job'[h].lag <= MaxLag
    BY <2>1, <2>3, <2>4, NumbersAssumption
  <2>5. /\ job'[h].pc = job[h].pc /\ job'[h].kind = job[h].kind
        /\ job'[h].sid = job[h].sid /\ job'[h].token = job[h].token
        /\ job'[h].status = job[h].status
    BY <2>1, <2>2 DEF Job
  <2>. QED BY <2>4, <2>5, <2>6
<1>4. ASSUME NEW s \in Sessions
      PROVE  /\ page'[s].dialog = page[s].dialog /\ page'[s].checked = page[s].checked
             /\ page'[s].auth = page[s].auth /\ page'[s].conn = page[s].conn
             /\ page'[s].deadline = Down(page[s].deadline)
  <2>1. page'[s] = [page[s] EXCEPT !.deadline = Down(@), !.wait = Down(@)] /\ page[s] \in Page
    BY DEF Tick
  <2>. QED BY <2>1 DEF Page
<1>. QED BY <1>1, <1>2, <1>3, <1>4

\* So does the passing of time.
LEMMA TickLinks ==
    ASSUME LinkInv, Tick
    PROVE  JobKinds' /\ PageJobs' /\ Outcomes'
<1>0. JobKinds /\ PageJobs /\ Outcomes /\ TypeInv
  BY DEF LinkInv
<1>. HIDE DEF Tick
<1>1. /\ UNCHANGED <<applySid, outcome, pendingId, clicks>>
      /\ \A h \in Conns : /\ job'[h].pc = job[h].pc /\ job'[h].kind = job[h].kind
                          /\ job'[h].sid = job[h].sid /\ job'[h].token = job[h].token
      /\ \A s \in Sessions :
           /\ page'[s].dialog = page[s].dialog /\ page'[s].checked = page[s].checked
           /\ page'[s].conn = page[s].conn
  BY <1>0, Ticked
<1>2. timer' = Down(timer) /\ timer \in Nat /\ Pending' = Pending /\ Timeout' = Timeout
  BY <1>0, <1>1, Ticked DEF TypeInv, TypeOK, BackendTypeOK, Pending, Timeout
<1>3. timer <= Timeout => timer' <= Timeout
  BY <1>2, TimeoutType DEF Down
<1>4. JobKinds'
  BY <1>0, <1>1 DEF JobKinds
<1>5. Outcomes'
  BY <1>0, <1>1, <1>2, <1>3 DEF Outcomes
<1>6. ASSUME NEW s \in Sessions
      PROVE  PageJob(s, page[s])' /\ (page'[s].dialog = "rollback" => page'[s].checked)
  <2>1. page[s].conn \in Conns \cup {NoConn} /\ PageJob(s, page[s])
    BY <1>0 DEF TypeInv, TypeOK, Page, PageJobs
  <2>. QED BY <1>0, <1>1, <2>1 DEF PageJobs, PageJob
<1>. QED BY <1>4, <1>5, <1>6 DEF PageJobs

\* The links hold at first.
LEMMA LinksInit == Init => LinkInv
<1> SUFFICES ASSUME Init PROVE LinkInv
  OBVIOUS
<1>1. TypeInv /\ TokenInv
  BY InitTypeInv DEF Init, BackendInit, TokenInv, HandlerTokens, IdleJob, NoRecord, Pending
<1>2. /\ \A h \in Conns : job[h].pc = "idle"
      /\ \A s \in Sessions : page[s].conn = NoConn /\ page[s].dialog = "closed"
      /\ ~Pending /\ clicks = 0 /\ \A id \in Ids : outcome[id] = "requested"
  BY DEF Init, BackendInit, Pending, IdleJob, FreshPage
<1>. QED BY <1>1, <1>2 DEF LinkInv, JobKinds, PageJobs, PageJob, Outcomes

\* The four kinds of steps.
LEMMA StepKinds ==
    ASSUME TypeInv, [Next]_vars
    PROVE  \/ \E h \in Conns : HandlerStep(h) \/ NetworkStep(h)
           \/ \E s \in Sessions : PageStep(s)
           \/ RpcdTimeout \/ Tick
           \/ UNCHANGED vars
BY HandlerSteps, NetworkSteps, ProceedSteps, UserSteps DEF Next

\* Every step keeps the links.
LEMMA LinksKept ==
    ASSUME LinkInv, [Next]_vars, RecordedInPeace'
    PROVE  LinkInv'
<1>1. TypeInv' /\ TokenInv'
  BY NextTypeInv, NextTokenInv DEF LinkInv
<1>2. CASE UNCHANGED vars
  BY <1>1, <1>2 DEF LinkInv, JobKinds, PageJobs, PageJob, Outcomes, Pending, Timeout,
     vars, backendVars, pageVars, historyVars
<1>3. CASE \/ \E h \in Conns : HandlerStep(h) \/ NetworkStep(h)
           \/ \E s \in Sessions : PageStep(s)
           \/ RpcdTimeout \/ Tick
  <2>1. JobKinds' /\ PageJobs' /\ Outcomes'
    BY <1>3, HandleLinks, NetworkLinks, PageLinks, TimeoutLinks, TickLinks
  <2>. QED BY <1>1, <2>1 DEF LinkInv
<1>. QED BY <1>2, <1>3, StepKinds DEF LinkInv

\* Numbers that the arguments about time need.
LEMMA Times ==
    ASSUME LinkInv, Conf >= Floor
    PROVE  /\ timer \in Nat /\ record.ttl \in Nat /\ (Pending => timer <= Timeout)
           /\ Conf \in Nat /\ Timeout = Conf
<1>1. timer \in Nat /\ record.ttl \in Nat
  BY DEF LinkInv, TypeInv, TypeOK, BackendTypeOK
<1>2. Conf \in Nat /\ Floor \in Nat
  BY NumbersAssumption
<1>3. Timeout = Conf
  BY <1>2 DEF Timeout, Larger
<1>. QED BY <1>1, <1>2, <1>3 DEF LinkInv, Outcomes

-----------------------------------------------------------------------------
(* What a page says after a rollback: the token in the record lives longer *)
(* than the trial, so a page that finds no token finds no trial either.    *)

\* Apply id is over, or its token outlives it.
Outlived(id) == Over(id) \/ (OnTrial(id) /\ record.ttl > timer)

\* The record, the handlers on their way, and the pages name only such applies.
RollbackInv ==
    /\ record.ttl > 0 => Outlived(record.token)
    /\ \A h \in Conns :
         /\ job[h].pc = "record" => Over(job[h].token) \/ OnTrial(job[h].token)
         /\ job[h].pc = "reply" /\ job[h].kind = "apply_rollback" /\ job[h].status = 200
              => Outlived(job[h].token)
    /\ \A s \in Sessions :
         /\ page[s].dialog \in {"confirming", "rollback"} /\ page[s].checked
              => Outlived(page[s].auth)
         /\ page[s].dialog = "rolledback" => Over(page[s].auth)
         /\ page[s].dialog = "rollback" /\ page[s].conn # NoConn =>
              (job[page[s].conn].pc = "reply" /\ job[page[s].conn].status = 204
                 => Over(page[s].auth))

\* An apply that is over remains so, and one whose token outlives it does too.
LEMMA OutlivedKept ==
    ASSUME LinkInv, [Next]_vars, RecordedInPeace', Conf >= Floor, NEW id \in Tokens
    PROVE  /\ Over(id) => Over(id)'
           /\ Over(id) \/ OnTrial(id) => Over(id)' \/ OnTrial(id)'
           /\ Outlived(id) => Outlived(id)'
<1>0. TypeInv /\ JobKinds /\ PageJobs /\ Outcomes
  BY DEF LinkInv
<1>n. /\ clicks \in Nat /\ 1..clicks \subseteq Ids
      /\ outcome \in [Ids -> {"requested", "pending", "kept", "reverted"}]
      /\ \A h \in Conns : job[h].pc \in {"apply", "record"} => job[h].token \in 1..clicks
      /\ Pending => pendingId \in 1..clicks
  BY Named
<1>t. /\ timer \in Nat /\ record.ttl \in Nat /\ (Pending => timer <= Timeout)
      /\ Conf \in Nat /\ Timeout = Conf
  BY Times
<1>1. ASSUME NEW h \in Conns, HandlerStep(h)
      PROVE  /\ Over(id) => Over(id)'
             /\ Over(id) \/ OnTrial(id) => Over(id)' \/ OnTrial(id)'
             /\ Outlived(id) => Outlived(id)'
  <2>1. CASE /\ Moves(h, "apply", "record")
             /\ ~Pending /\ Pending' /\ timer' = Timeout
             /\ pendingId' = job[h].token /\ record' = record
             /\ outcome' = [outcome EXCEPT ![job[h].token] = "pending"]
    <3>1. outcome[job[h].token] = "requested" /\ job[h].token \in Ids
      BY <1>0, <1>n, <2>1 DEF Moves, Outcomes
    <3>2. Over(id) => Over(id)'
      BY <1>n, <2>1, <3>1 DEF Over
    <3>. QED BY <2>1, <3>2 DEF Outlived, OnTrial
  <2>2. CASE /\ Moves(h, "confirm", "clear")
             /\ Pending /\ ~Pending'
             /\ outcome' = [outcome EXCEPT ![pendingId] = "kept"]
             /\ UNCHANGED <<record, pendingId>>
    <3>1. (Over(id) => Over(id)') /\ (OnTrial(id) => Over(id)')
      BY <1>n, <2>2 DEF Over, OnTrial
    <3>. QED BY <3>1 DEF Outlived
  <2>3. CASE Moves(h, "clear", "reply") /\ UNCHANGED <<applySid, timer, outcome, pendingId>>
    <3>1. ~Pending
      BY <1>0, <2>3 DEF Outcomes, Moves
    <3>. QED BY <2>3, <3>1 DEF Outlived, Over, OnTrial
  <2>4. CASE record'.ttl = Conf + 1 /\ UNCHANGED <<applySid, timer, outcome, pendingId>>
    <3>1. Pending => record'.ttl > timer'
      BY <1>t, <2>4
    <3>. QED BY <2>4, <3>1 DEF Outlived, Over, OnTrial, Pending
  <2>5. CASE UNCHANGED trialVars
    BY <2>5 DEF trialVars, Outlived, Over, OnTrial, Pending
  <2>. QED BY <1>1, <2>1, <2>2, <2>3, <2>4, <2>5 DEF HandlerStep
<1>2. ASSUME UNCHANGED trialVars
      PROVE  /\ Over(id) => Over(id)'
             /\ Over(id) \/ OnTrial(id) => Over(id)' \/ OnTrial(id)'
             /\ Outlived(id) => Outlived(id)'
  BY <1>2 DEF trialVars, Outlived, Over, OnTrial, Pending
<1>3. CASE RpcdTimeout
  <2>1. /\ Pending /\ outcome' = [outcome EXCEPT ![pendingId] = "reverted"]
    BY <1>3 DEF RpcdTimeout, RestoreSnapshot
  <2>2. (Over(id) => Over(id)') /\ (OnTrial(id) => Over(id)')
    BY <1>n, <2>1 DEF Over, OnTrial
  <2>. QED BY <2>2 DEF Outlived
<1>4. CASE Tick
  <2>1. /\ ~ (Pending /\ timer = 0) /\ timer' = Down(timer)
        /\ UNCHANGED <<applySid, outcome, pendingId>>
        /\ record.ttl > 1 => record'.ttl = record.ttl - 1
    BY <1>0, <1>4, Ticked
  <2>2. Pending /\ record.ttl > timer => record'.ttl > timer'
    BY <1>t, <2>1 DEF Down
  <2>. QED BY <2>1, <2>2 DEF Outlived, Over, OnTrial, Pending
<1>5. UNCHANGED vars => UNCHANGED trialVars
  BY DEF vars, trialVars, backendVars, historyVars
<1>. QED BY <1>0, <1>1, <1>2, <1>3, <1>4, <1>5, StepKinds DEF NetworkStep, PageStep

\* Every step keeps that.
LEMMA RollbackKept ==
    ASSUME LinkInv, RollbackInv, [Next]_vars, RecordedInPeace', Conf >= Floor
    PROVE  RollbackInv'
<1>0. TypeInv /\ JobKinds /\ PageJobs /\ Outcomes
  BY DEF LinkInv
<1>t. /\ timer \in Nat /\ record.ttl \in Nat /\ (Pending => timer <= Timeout)
      /\ Conf \in Nat /\ Timeout = Conf
  BY Times
<1>k. \A id \in Tokens : /\ Over(id) => Over(id)'
                         /\ Over(id) \/ OnTrial(id) => Over(id)' \/ OnTrial(id)'
                         /\ Outlived(id) => Outlived(id)'
  BY OutlivedKept
<1>y. /\ record.token \in Tokens
      /\ \A h \in Conns : job[h].token \in Tokens
      /\ \A s \in Sessions : page[s].auth \in Tokens /\ page[s].conn \in Conns \cup {NoConn}
  BY <1>0 DEF TypeInv, TypeOK, Job, Page
<1>1. ASSUME NEW h \in Conns, HandlerStep(h)
      PROVE  RollbackInv'
  <2>1. /\ page' = page
        /\ \A g \in Conns \ {h} : job'[g] = job[g]
        /\ job'[h].kind = job[h].kind /\ job'[h].token = job[h].token
    BY <1>1 DEF HandlerStep
  <2>2. record'.ttl > 0 => Outlived(record.token)'
    <3>1. CASE Moves(h, "record", "reply")
      <4>1. /\ record'.ttl = Conf + 1 /\ record'.token = job[h].token
            /\ UNCHANGED <<applySid, timer, outcome, pendingId>>
        BY <1>1, <3>1 DEF HandlerStep, Moves
      <4>2. Over(job[h].token)' \/ OnTrial(job[h].token)'
        BY <2>1, <3>1, <1>k, <1>y DEF RollbackInv, Moves
      <4>3. Pending => record'.ttl > timer'
        BY <1>t, <4>1
      <4>4. Over(record.token)' \/ OnTrial(record.token)'
        BY <2>1, <4>1, <4>2 DEF Over, OnTrial
      <4>. QED BY <4>1, <4>3, <4>4 DEF Outlived, OnTrial, Pending
    <3>2. CASE Moves(h, "clear", "reply")
      <4>1. record'.ttl = 0
        BY <1>1, <3>2 DEF HandlerStep, Moves, NoRecord
      <4>. QED BY <4>1
    <3>3. CASE ~ Moves(h, "record", "reply") /\ ~ Moves(h, "clear", "reply")
      <4>1. record' = record
        BY <1>1, <3>3 DEF HandlerStep, trialVars, Moves
      <4>2. record.ttl > 0 => Outlived(record.token)
        BY DEF RollbackInv
      <4>. QED BY <1>k, <1>y, <4>1, <4>2 DEF Outlived, Over, OnTrial
    <3>. QED BY <3>1, <3>2, <3>3
  <2>3. ASSUME NEW g \in Conns
        PROVE  /\ job'[g].pc = "record" => Over(job[g].token)' \/ OnTrial(job[g].token)'
               /\ job'[g].pc = "reply" /\ job'[g].kind = "apply_rollback" /\ job'[g].status = 200
                    => Outlived(job[g].token)'
    <3>1. CASE g # h
      <4>1. job'[g] = job[g]
        BY <2>1, <3>1
      <4>2. /\ job[g].pc = "record" => Over(job[g].token) \/ OnTrial(job[g].token)
            /\ job[g].pc = "reply" /\ job[g].kind = "apply_rollback" /\ job[g].status = 200
                  => Outlived(job[g].token)
        BY DEF RollbackInv
      <4>3. /\ job[g].pc = "record" => Over(job[g].token)' \/ OnTrial(job[g].token)'
            /\ job[g].pc = "reply" /\ job[g].kind = "apply_rollback" /\ job[g].status = 200
                  => Outlived(job[g].token)'
        BY ONLY <1>k, <1>y, <4>1, <4>2 DEF Over, OnTrial, Outlived
      <4>. QED BY <4>1, <4>3
    <3>2. CASE g = h
      <4>1. CASE Moves(h, "apply", "record")
        <5>1. Pending' /\ pendingId' = job[h].token
          BY <1>1, <4>1 DEF HandlerStep, Moves
        <5>. QED BY <2>1, <3>2, <4>1, <5>1 DEF OnTrial, Moves
      <4>2. CASE Moves(h, "record", "reply")
        <5>1. /\ record'.ttl = Conf + 1
              /\ UNCHANGED <<applySid, timer, outcome, pendingId>>
          BY <1>1, <4>2 DEF HandlerStep, Moves
        <5>2. Over(job[h].token)' \/ OnTrial(job[h].token)'
          BY <2>1, <4>2, <1>k, <1>y DEF RollbackInv, Moves
        <5>3. Pending => record'.ttl > timer'
          BY <1>t, <5>1
        <5>. QED BY <3>2, <4>2, <5>1, <5>2, <5>3 DEF Outlived, OnTrial, Pending, Moves
      <4>3. CASE ~ Moves(h, "apply", "record") /\ ~ Moves(h, "record", "reply")
        <5>1. job'[h].pc # "record"
          BY <1>1, <4>3 DEF HandlerStep, Moves
        <5>2. job'[h].pc = "reply" /\ job'[h].kind = "apply_rollback" => job'[h].status # 200
          BY <1>0, <1>1, <2>1, <4>3 DEF HandlerStep, Moves, JobKinds
        <5>. QED BY <3>2, <5>1, <5>2
      <4>. QED BY <4>1, <4>2, <4>3
    <3>. QED BY <3>1, <3>2
  <2>4. ASSUME NEW s \in Sessions
        PROVE  /\ page[s].dialog \in {"confirming", "rollback"} /\ page[s].checked
                    => Outlived(page[s].auth)'
               /\ page[s].dialog = "rolledback" => Over(page[s].auth)'
               /\ page[s].dialog = "rollback" /\ page[s].conn # NoConn =>
                    (job'[page[s].conn].pc = "reply" /\ job'[page[s].conn].status = 204
                       => Over(page[s].auth)')
    <3>1. /\ page[s].dialog \in {"confirming", "rollback"} /\ page[s].checked
                => Outlived(page[s].auth)
          /\ page[s].dialog = "rolledback" => Over(page[s].auth)
      BY DEF RollbackInv
    <3>2. /\ Over(page[s].auth) => Over(page[s].auth)'
          /\ Outlived(page[s].auth) => Outlived(page[s].auth)'
      BY <1>k, <1>y, <2>1 DEF Over, Outlived, OnTrial
    <3>3. ASSUME page[s].dialog = "rollback", page[s].conn # NoConn,
                 job'[page[s].conn].pc = "reply", job'[page[s].conn].status = 204
          PROVE  Over(page[s].auth)
      <4>1. CASE page[s].conn # h
        <5>1. job'[page[s].conn] = job[page[s].conn]
          BY <1>y, <2>1, <3>3, <4>1
        <5>. QED BY <3>3, <5>1 DEF RollbackInv
      <4>2. CASE page[s].conn = h
        <5>1. job[h].pc \in {"check", "reply", "lost"}
          BY <1>0, <3>3, <4>2 DEF PageJobs, PageJob
        <5>2. record.ttl = 0
          BY <1>1, <3>3, <4>2, <5>1 DEF HandlerStep, Moves
        <5>3. Outlived(page[s].auth)
          BY <1>0, <3>1, <3>3 DEF PageJobs
        <5>4. ~ (record.ttl > timer)
          BY <1>t, <5>2
        <5>. QED BY <5>3, <5>4 DEF Outlived
      <4>. QED BY <4>1, <4>2
    <3>. QED BY <3>1, <3>2, <3>3
  <2>. QED BY <2>1, <2>2, <2>3, <2>4 DEF RollbackInv, Outlived, Over, OnTrial
<1>2. ASSUME NEW s \in Sessions, PageStep(s)
      PROVE  RollbackInv'
  <2>1. /\ \A r \in Sessions \ {s} : page'[r] = page[r]
        /\ UNCHANGED <<applySid, timer, record, outcome, pendingId>>
    BY <1>2 DEF PageStep, trialVars
  <2>2. ASSUME NEW g \in Conns, job'[g].pc \in {"record", "reply"}
        PROVE  job'[g] = job[g]
    BY <1>2, <2>2 DEF PageStep, Asks, Hears, Turned, Sent, Taken, IdleJob
  <2>3. ASSUME NEW r \in Sessions, r # s, page[r].conn # NoConn
        PROVE  job'[page[r].conn] = job[page[r].conn] \/ job'[page[r].conn].pc \notin {"record", "reply"}
    BY <1>y, <2>2, <2>3
  <2>4. \A id \in Tokens : (Over(id) => Over(id)') /\ (Outlived(id) => Outlived(id)')
    BY <1>k
  <2>5. /\ page'[s].dialog \in {"confirming", "rollback"} /\ page'[s].checked
              => Outlived(page[s].auth)'
        /\ page'[s].dialog = "rolledback" => Over(page[s].auth)'
        /\ page'[s].dialog = "rollback" /\ page'[s].conn # NoConn =>
              (job'[page'[s].conn].pc = "reply" /\ job'[page'[s].conn].status = 204
                 => Over(page[s].auth)')
    <3>0. /\ UNCHANGED <<applySid, timer, record, outcome, pendingId>>
          /\ page[s].dialog \in {"confirming", "rollback"} /\ page[s].checked
                => Outlived(page[s].auth)
          /\ record.ttl > 0 => Outlived(record.token)
          /\ page[s].dialog = "rollback" => page[s].checked
      BY <1>0, <2>1 DEF RollbackInv, PageJobs
    <3>1. CASE Asks(s)
      <4>1. /\ page'[s].dialog \notin {"rolledback"}
            /\ \A k \in Conns : k = page'[s].conn => job'[k].pc # "reply"
        BY <3>1 DEF Asks, Sent, Turns
      <4>2. page'[s].conn \in Conns
        BY <3>1 DEF Asks, Sent
      <4>3. page'[s].dialog \in {"confirming", "rollback"} =>
              /\ page[s].dialog \in {"confirming", "rollback"}
              /\ page'[s].checked = page[s].checked /\ page'[s].auth = page[s].auth
        BY <3>1 DEF Asks, Turns
      <4>. QED BY <3>0, <4>1, <4>2, <4>3 DEF Outlived, Over, OnTrial, Pending
    <3>2. CASE Hears(s)
      <4>1. page'[s].conn = NoConn
        BY <3>2 DEF Hears, Taken, GivesUp
      <4>2. CASE /\ page[s].dialog = "starting" /\ page'[s].dialog = "confirming"
                 /\ page'[s].checked = page[s].checked
                 /\ page[s].checked => /\ job[page[s].conn].status = 200
                                       /\ page'[s].auth = job[page[s].conn].token
                 /\ Taken(s, {"reply"})
        <5>1. page[s].conn \in Conns /\ job[page[s].conn].pc = "reply"
          BY <4>2 DEF Taken
        <5>2. page[s].checked => job[page[s].conn].kind = "apply_rollback"
          BY <1>0, <4>2, <5>1, NoConnAssumption DEF PageJobs, PageJob
        <5>3. page[s].checked => Outlived(job[page[s].conn].token)
          BY <4>2, <5>1, <5>2 DEF RollbackInv
        <5>. QED BY <3>0, <4>1, <4>2, <5>3 DEF Outlived, Over, OnTrial, Pending
      <4>3. CASE /\ Turns(s, {"rollback"}, {"rolledback"})
                 /\ job[page[s].conn].status = 204 /\ Taken(s, {"reply"})
        <5>1. Over(page[s].auth)
          BY <4>3, NoConnAssumption DEF RollbackInv, Turns, Taken
        <5>. QED BY <3>0, <4>1, <4>3, <5>1 DEF Over, Turns
      <4>4. CASE page'[s].dialog \in {"confirming", "rollback"} => Turns(s, {"confirming", "rollback"}, {"confirming", "rollback"})
        <5>1. CASE page'[s].dialog # "rolledback"
          BY <3>0, <4>1, <4>4, <5>1 DEF Outlived, Over, OnTrial, Pending, Turns
        <5>2. CASE page'[s].dialog = "rolledback"
          BY <3>2, <4>3, <5>2 DEF Hears, GivesUp, Turns
        <5>. QED BY <5>1, <5>2
      <4>5. ~(page'[s].dialog \in {"confirming", "rollback"} => Turns(s, {"confirming", "rollback"}, {"confirming", "rollback"}))
            => page[s].dialog = "starting" /\ page'[s].dialog = "confirming"
        BY <3>2 DEF Hears, GivesUp, Turns
      <4>. QED BY <3>2, <4>2, <4>4, <4>5 DEF Hears, GivesUp, Turns
    <3>3. CASE Turned(s)
      <4>1. CASE UNCHANGED page
        BY <2>1, <3>3, <4>1 DEF Turned, RollbackInv, Outlived, Over, OnTrial, Pending
      <4>2. CASE page'[s].dialog = "closed"
        BY <4>2
      <4>3. CASE Turns(s, {"confirming"}, {"confirming"})
        BY <3>0, <4>3 DEF Turns, Outlived, Over, OnTrial, Pending
      <4>4. CASE GivesUp(s)
        BY <3>0, <4>4 DEF GivesUp, Turns, Outlived, Over, OnTrial, Pending
      <4>5. CASE /\ record.ttl > 0 /\ page'[s].conn = NoConn
                 /\ page'[s].dialog = "confirming" /\ page'[s].auth = record.token
        BY <3>0, <4>5 DEF Outlived, Over, OnTrial, Pending
      <4>. QED BY <3>3, <4>1, <4>2, <4>3, <4>4, <4>5 DEF Turned
    <3>. QED BY <1>2, <3>1, <3>2, <3>3 DEF PageStep
  <2>6. ASSUME NEW r \in Sessions, r # s
        PROVE  /\ page'[r].dialog \in {"confirming", "rollback"} /\ page'[r].checked
                    => Outlived(page[r].auth)'
               /\ page'[r].dialog = "rolledback" => Over(page[r].auth)'
               /\ page'[r].dialog = "rollback" /\ page'[r].conn # NoConn =>
                    (job'[page'[r].conn].pc = "reply" /\ job'[page'[r].conn].status = 204
                       => Over(page[r].auth)')
    <3>1. page'[r] = page[r]
      BY <2>1, <2>6
    <3>. QED BY <2>1, <2>3, <2>6, <3>1 DEF RollbackInv, Over, Outlived, OnTrial, Pending
  <2>7. record'.ttl > 0 => Outlived(record.token)'
    BY <2>1 DEF RollbackInv, Over, Outlived, OnTrial, Pending
  <2>8. ASSUME NEW g \in Conns
        PROVE  /\ job'[g].pc = "record" => Over(job[g].token)' \/ OnTrial(job[g].token)'
               /\ job'[g].pc = "reply" /\ job'[g].kind = "apply_rollback" /\ job'[g].status = 200
                    => Outlived(job[g].token)'
    BY <2>1, <2>2 DEF RollbackInv, Over, Outlived, OnTrial, Pending
  <2>. QED BY <2>5, <2>6, <2>7, <2>8 DEF RollbackInv
<1>3. ASSUME NEW h \in Conns, NetworkStep(h)
      PROVE  RollbackInv'
  <2>1. /\ UNCHANGED <<applySid, timer, record, outcome, pendingId, page>>
        /\ \A g \in Conns : job'[g] = job[g] \/ job'[g].pc \in {"lost", "idle"}
    BY <1>3 DEF NetworkStep, trialVars
  <2>2. \A s \in Sessions : page[s].conn # NoConn =>
           job'[page[s].conn] = job[page[s].conn] \/ job'[page[s].conn].pc \in {"lost", "idle"}
    BY <1>y, <2>1
  <2>. QED BY <2>1, <2>2 DEF RollbackInv, Over, Outlived, OnTrial, Pending
<1>4. CASE RpcdTimeout
  <2>1. UNCHANGED <<record, job, page>>
    BY <1>4 DEF RpcdTimeout, pageVars
  <2>. QED BY <1>k, <1>y, <2>1 DEF RollbackInv, Over, Outlived, OnTrial
<1>5. CASE Tick
  <2>1. /\ record.ttl > 1 => record'.token = record.token
        /\ ~ (record.ttl > 1) => record'.ttl = 0
        /\ \A h \in Conns :
             /\ job'[h].pc = job[h].pc /\ job'[h].kind = job[h].kind
             /\ job'[h].token = job[h].token /\ job'[h].status = job[h].status
        /\ \A s \in Sessions :
             /\ page'[s].dialog = page[s].dialog /\ page'[s].checked = page[s].checked
             /\ page'[s].auth = page[s].auth /\ page'[s].conn = page[s].conn
    BY <1>0, <1>5, Ticked
  <2>2. record'.ttl > 0 => Outlived(record.token)'
    <3>1. CASE record.ttl > 1
      <4>1. Outlived(record.token)
        BY <1>t, <3>1 DEF RollbackInv
      <4>2. record'.token = record.token /\ record.token \in Tokens
        BY <1>y, <2>1, <3>1
      <4>. QED BY <1>k, <4>1, <4>2 DEF Outlived, Over, OnTrial
    <3>2. CASE ~ (record.ttl > 1)
      BY <2>1, <3>2
    <3>. QED BY <3>1, <3>2
  <2>3. ASSUME NEW h \in Conns
        PROVE  /\ job'[h].pc = "record" => Over(job[h].token)' \/ OnTrial(job[h].token)'
               /\ job'[h].pc = "reply" /\ job'[h].kind = "apply_rollback" /\ job'[h].status = 200
                    => Outlived(job[h].token)'
    BY <1>k, <1>y, <2>1 DEF RollbackInv, Outlived, Over, OnTrial
  <2>4. ASSUME NEW s \in Sessions
        PROVE  /\ page'[s].dialog \in {"confirming", "rollback"} /\ page'[s].checked
                    => Outlived(page[s].auth)'
               /\ page'[s].dialog = "rolledback" => Over(page[s].auth)'
               /\ page'[s].dialog = "rollback" /\ page'[s].conn # NoConn =>
                    (job'[page'[s].conn].pc = "reply" /\ job'[page'[s].conn].status = 204
                       => Over(page[s].auth)')
    <3>1. /\ page[s].dialog \in {"confirming", "rollback"} /\ page[s].checked
                => Outlived(page[s].auth)
          /\ page[s].dialog = "rolledback" => Over(page[s].auth)
          /\ page[s].dialog = "rollback" /\ page[s].conn # NoConn =>
               (job[page[s].conn].pc = "reply" /\ job[page[s].conn].status = 204
                  => Over(page[s].auth))
      BY DEF RollbackInv
    <3>2. /\ Over(page[s].auth) => Over(page[s].auth)'
          /\ Outlived(page[s].auth) => Outlived(page[s].auth)'
      BY <1>k, <1>y, <2>1 DEF Outlived, Over, OnTrial
    <3>. QED BY <1>y, <2>1, <3>1, <3>2
  <2>. QED BY <2>2, <2>3, <2>4 DEF RollbackInv
<1>6. CASE UNCHANGED vars
  BY <1>6 DEF vars, backendVars, pageVars, historyVars, RollbackInv, Over, Outlived,
     OnTrial, Pending
<1>. QED BY <1>0, <1>1, <1>2, <1>3, <1>4, <1>5, <1>6, StepKinds

\* A page says that the changes were rolled back only when the trial of its
\* apply is over: the token, recorded for Conf ticks after an apply was armed
\* for as many, is gone only then.  However long requests take, whatever gets
\* lost and whichever session polls, as long as no confirm is about to clear
\* the record while an apply is about to write it, and the configured time is
\* not below the clamp (rollback() of ui.js, uci_apply of uci.uc).
THEOREM RolledBackIsOver ==
    Conf >= Floor => (Spec /\ []RecordedInPeace => []RolledBackMeansOver)
<1> SUFFICES ASSUME Conf >= Floor
             PROVE  Spec /\ []RecordedInPeace => []RolledBackMeansOver
  OBVIOUS
<1>1. Init => LinkInv /\ RollbackInv
  <2>1. ASSUME Init PROVE RollbackInv
    <3>1. /\ record.ttl = 0 /\ \A h \in Conns : job[h].pc = "idle"
          /\ \A s \in Sessions : page[s].dialog = "closed"
      BY <2>1 DEF Init, NoRecord, IdleJob, FreshPage
    <3>. QED BY <3>1 DEF RollbackInv
  <2>. QED BY <2>1, LinksInit
<1>2. LinkInv /\ RollbackInv /\ RecordedInPeace' /\ [Next]_vars => (LinkInv /\ RollbackInv)'
  BY LinksKept, RollbackKept
<1>3. RollbackInv => RolledBackMeansOver
  BY DEF RollbackInv, RolledBackMeansOver, Over
<1>. QED BY <1>1, <1>2, <1>3, PTL DEF Spec

-----------------------------------------------------------------------------
(* What a page says after a confirmation: until its own deadline passes,   *)
(* the trial it waits for is kept, or still confirmed in time.             *)

\* Apply id is kept, or will be if it is confirmed before l of the d ticks
\* that are left are reached.
Held(id, d, l) ==
    \/ Kept(id)
    \/ d <= l
    \/ OnTrial(id) /\ timer + l >= d /\ record.ttl + l > d

\* Apply id is kept, or its trial began no more than l ticks ago.
Armed(id, l) ==
    Kept(id) \/ Timeout <= l \/ (OnTrial(id) /\ timer + l >= Timeout)

\* The answer of handler j will be taken, or is there, for a confirmation.
Confirmed(j) == j.pc = "clear" \/ (j.pc = "reply" /\ j.status \in {200, 204})

\* What page p waits for is held for as long as it waits.
PageHeld(p) ==
    /\ p.dialog = "confirming" /\ p.checked => Held(p.auth, p.deadline, MaxLag)
    /\ p.dialog = "confirming" /\ p.checked /\ p.conn # NoConn =>
         (Confirmed(job[p.conn]) => Kept(p.auth) \/ p.deadline <= MaxLag)

\* So is what the record and the handlers on their way name.
AppliedInv ==
    /\ record.ttl > 0 => Held(record.token, Down(record.ttl), MaxLag)
    /\ \A h \in Conns :
         /\ job[h].pc = "record" => Armed(job[h].token, job[h].lag)
         /\ job[h].pc = "reply" /\ job[h].kind = "apply_rollback" /\ job[h].status = 200
              => Held(job[h].token, Timeout, job[h].lag)
    /\ \A s \in Sessions : PageHeld(page[s])

\* No request is under way for more than MaxLag ticks.
OnTime == \A h \in Conns : job[h].lag <= MaxLag

\* Every step keeps that.
LEMMA OnTimeKept ==
    ASSUME LinkInv, OnTime, [Next]_vars
    PROVE  OnTime'
<1>0. TypeInv
  BY DEF LinkInv
<1>1. 0 <= MaxLag
  BY NumbersAssumption
<1>2. ASSUME NEW h \in Conns, HandlerStep(h) \/ NetworkStep(h)
      PROVE  OnTime'
  BY <1>1, <1>2 DEF OnTime, HandlerStep, NetworkStep
<1>3. ASSUME NEW s \in Sessions, PageStep(s)
      PROVE  OnTime'
  <2>1. \A h \in Conns : job'[h].lag = job[h].lag \/ job'[h].lag = 0
    BY <1>3 DEF PageStep, Asks, Hears, Turned, Sent, Taken, IdleJob
  <2>. QED BY <1>1, <2>1 DEF OnTime
<1>4. CASE Tick
  <2>1. \A h \in Conns : job[h].lag <= MaxLag => job'[h].lag <= MaxLag
    <3>. HIDE DEF Tick
    <3>. QED BY <1>0, <1>4, Ticked
  <2>. QED BY <2>1 DEF OnTime
<1>5. CASE RpcdTimeout
  BY <1>5 DEF OnTime, RpcdTimeout
<1>6. CASE UNCHANGED vars
  BY <1>6 DEF OnTime, vars
<1>. QED BY <1>0, <1>2, <1>3, <1>4, <1>5, <1>6, StepKinds

\* What is held remains so for as long, unless time passes.
LEMMA HeldKept ==
    ASSUME LinkInv, [Next]_vars, ~Tick, RecordedInPeace', Conf >= Floor,
           NEW id \in Tokens, NEW d \in Nat, NEW l \in Nat
    PROVE  /\ Kept(id) => Kept(id)'
           /\ Armed(id, l) => Armed(id, l)'
           /\ Held(id, d, l) => Held(id, d, l)'
<1>0. TypeInv /\ Outcomes
  BY DEF LinkInv
<1>n. /\ outcome \in [Ids -> {"requested", "pending", "kept", "reverted"}]
      /\ \A h \in Conns : job[h].pc \in {"apply", "record"} => job[h].token \in Ids
      /\ Pending => pendingId \in Ids
  BY Named
<1>t. /\ timer \in Nat /\ record.ttl \in Nat /\ (Pending => timer <= Timeout)
      /\ Conf \in Nat /\ Timeout = Conf /\ Timeout' = Timeout
  BY Times DEF Timeout
<1>1. ASSUME NEW h \in Conns, HandlerStep(h)
      PROVE  /\ Kept(id) => Kept(id)'
             /\ Armed(id, l) => Armed(id, l)'
             /\ Held(id, d, l) => Held(id, d, l)'
  <2>1. CASE /\ Moves(h, "apply", "record")
             /\ ~Pending
             /\ outcome' = [outcome EXCEPT ![job[h].token] = "pending"]
    <3>1. outcome[job[h].token] = "requested" /\ job[h].token \in Ids
      BY <1>0, <1>n, <2>1 DEF Moves, Outcomes
    <3>2. Kept(id) => Kept(id)'
      BY <1>n, <2>1, <3>1 DEF Kept
    <3>. QED BY <1>t, <2>1, <3>2 DEF Armed, Held, OnTrial
  <2>2. CASE /\ Pending /\ outcome' = [outcome EXCEPT ![pendingId] = "kept"]
    <3>1. (Kept(id) => Kept(id)') /\ (OnTrial(id) => Kept(id)')
      BY <1>n, <2>2 DEF Kept, OnTrial
    <3>. QED BY <1>t, <3>1 DEF Armed, Held
  <2>3. CASE Moves(h, "clear", "reply") /\ UNCHANGED <<applySid, timer, outcome, pendingId>>
    <3>1. ~Pending
      BY <1>0, <2>3 DEF Outcomes, Moves
    <3>. QED BY <1>t, <2>3, <3>1 DEF Armed, Held, Kept, OnTrial
  <2>4. CASE record'.ttl = Conf + 1 /\ UNCHANGED <<applySid, timer, outcome, pendingId>>
    <3>1. Pending /\ timer >= d => record'.ttl > d
      BY <1>t, <2>4
    <3>. QED BY <1>t, <2>4, <3>1 DEF Armed, Held, Kept, OnTrial, Pending
  <2>5. CASE UNCHANGED trialVars
    BY <1>t, <2>5 DEF trialVars, Armed, Held, Kept, OnTrial, Pending
  <2>. QED BY <1>1, <2>1, <2>2, <2>3, <2>4, <2>5 DEF HandlerStep
<1>2. ASSUME UNCHANGED trialVars
      PROVE  /\ Kept(id) => Kept(id)'
             /\ Armed(id, l) => Armed(id, l)'
             /\ Held(id, d, l) => Held(id, d, l)'
  BY <1>t, <1>2 DEF trialVars, Armed, Held, Kept, OnTrial, Pending
<1>3. CASE RpcdTimeout
  <2>1. /\ Pending /\ timer = 0 /\ outcome' = [outcome EXCEPT ![pendingId] = "reverted"]
    BY <1>3 DEF RpcdTimeout, RestoreSnapshot
  <2>2. Kept(id) => Kept(id)'
    BY <1>0, <1>n, <2>1 DEF Kept, Outcomes
  <2>. QED BY <1>t, <2>1, <2>2 DEF Armed, Held
<1>4. UNCHANGED vars => UNCHANGED trialVars
  BY DEF vars, trialVars, backendVars, historyVars
<1>. QED BY <1>0, <1>1, <1>2, <1>3, <1>4, StepKinds DEF NetworkStep, PageStep

\* Every step keeps that.
LEMMA AppliedKept ==
    ASSUME LinkInv, OnTime, AppliedInv, [Next]_vars, RecordedInPeace', Conf >= Floor
    PROVE  AppliedInv'
<1>0. TypeInv /\ JobKinds /\ PageJobs /\ Outcomes
  BY DEF LinkInv
<1>t. /\ timer \in Nat /\ record.ttl \in Nat /\ (Pending => timer <= Timeout)
      /\ Conf \in Nat /\ Timeout = Conf /\ Timeout' = Timeout
  BY Times DEF Timeout
<1>y. /\ record.token \in Tokens /\ Down(record.ttl) \in Nat
      /\ \A h \in Conns : job[h].token \in Tokens /\ job[h].lag \in Nat
      /\ MaxLag \in Nat
      /\ \A s \in Sessions : /\ page[s].auth \in Tokens /\ page[s].deadline \in Nat
                             /\ page[s].conn \in Conns \cup {NoConn}
  BY <1>0, NumbersAssumption DEF TypeInv, TypeOK, Job, Page, Down
<1>k. ASSUME ~Tick
      PROVE  /\ \A id \in Tokens : Kept(id) => Kept(id)'
             /\ \A id \in Tokens, l \in Nat : Armed(id, l) => Armed(id, l)'
             /\ \A id \in Tokens, d, l \in Nat : Held(id, d, l) => Held(id, d, l)'
  BY <1>k, HeldKept
<1>1. ASSUME ~Tick, NEW h \in Conns, HandlerStep(h)
      PROVE  AppliedInv'
  <2>1. /\ page' = page
        /\ \A g \in Conns \ {h} : job'[g] = job[g]
        /\ job'[h].kind = job[h].kind /\ job'[h].token = job[h].token
        /\ job'[h].lag = job[h].lag
    BY <1>1 DEF HandlerStep
  <2>k. /\ \A id \in Tokens : Kept(id) => Kept(id)'
        /\ \A id \in Tokens, l \in Nat : Armed(id, l) => Armed(id, l)'
        /\ \A id \in Tokens, d, l \in Nat : Held(id, d, l) => Held(id, d, l)'
    BY <1>1, <1>k
  <2>a. Moves(h, "record", "reply") => Held(job[h].token, Timeout, job[h].lag)'
    <3>1. SUFFICES ASSUME Moves(h, "record", "reply")
                   PROVE  Held(job[h].token, Timeout, job[h].lag)'
      OBVIOUS
    <3>2. record'.ttl = Conf + 1 /\ timer' = timer
      BY <1>1, <3>1 DEF HandlerStep, Moves
    <3>3. Armed(job[h].token, job[h].lag)
      BY <3>1 DEF AppliedInv, Moves
    <3>4. Armed(job[h].token, job[h].lag)'
      BY <2>k, <1>t, <1>y, <2>1, <3>3 DEF Armed, Kept, OnTrial
    <3>. QED BY <1>t, <1>y, <2>1, <3>2, <3>4 DEF Armed, Held
  <2>2. record'.ttl > 0 => Held(record.token, Down(record.ttl), MaxLag)'
    <3>1. CASE Moves(h, "record", "reply")
      <4>1. record'.ttl = Conf + 1 /\ record'.token = job[h].token
        BY <1>1, <3>1 DEF HandlerStep, Moves
      <4>2. Down(record'.ttl) = Timeout
        BY <1>t, <4>1 DEF Down
      <4>3. job'[h].lag \in Nat /\ job'[h].lag <= MaxLag
        BY <1>y, <2>1 DEF OnTime
      <4>4. timer' \in Nat /\ record'.ttl \in Nat /\ Timeout \in Nat /\ Timeout' = Timeout
        BY <1>1, <1>t, <3>1, <4>1 DEF HandlerStep, Moves
      <4>5. record'.token = job'[h].token
        BY <2>1, <4>1
      <4>6. Held(job[h].token, Timeout, job[h].lag)'
        BY <2>a, <3>1
      <4>7. CASE Kept(job[h].token)' \/ Timeout <= MaxLag
        BY <4>2, <4>4, <4>5, <4>7 DEF Held, Kept
      <4>8. CASE /\ OnTrial(job[h].token)'
                 /\ timer' + MaxLag >= Timeout /\ record'.ttl + MaxLag > Timeout
        BY <4>2, <4>4, <4>5, <4>8 DEF Held, OnTrial
      <4>9. \/ Kept(job[h].token)' \/ Timeout <= job'[h].lag
            \/ /\ OnTrial(job[h].token)'
               /\ timer' + job'[h].lag >= Timeout /\ record'.ttl + job'[h].lag > Timeout
        BY <4>4, <4>6 DEF Held
      <4>10. /\ Timeout <= job'[h].lag => Timeout <= MaxLag
             /\ timer' + job'[h].lag >= Timeout => timer' + MaxLag >= Timeout
             /\ record'.ttl + job'[h].lag > Timeout => record'.ttl + MaxLag > Timeout
        <5>1. \A l, m, t, n \in Nat :
                l <= m => /\ t <= l => t <= m
                          /\ n + l >= t => n + m >= t
                          /\ n + l > t => n + m > t
          OBVIOUS
        <5>2. job'[h].lag \in Nat /\ MaxLag \in Nat /\ job'[h].lag <= MaxLag
          BY <1>y, <4>3
        <5>3. Timeout \in Nat /\ timer' \in Nat /\ record'.ttl \in Nat
          BY <4>4
        <5>. QED BY <5>1, <5>2, <5>3
      <4>. QED BY <4>7, <4>8, <4>9, <4>10
    <3>2. CASE Moves(h, "clear", "reply")
      <4>1. record'.ttl = 0
        BY <1>1, <3>2 DEF HandlerStep, Moves, NoRecord
      <4>. QED BY <4>1
    <3>3. CASE ~ Moves(h, "record", "reply") /\ ~ Moves(h, "clear", "reply")
      <4>1. record' = record
        BY <1>1, <3>3 DEF HandlerStep, trialVars, Moves
      <4>2. record.ttl > 0 => Held(record.token, Down(record.ttl), MaxLag)
        BY DEF AppliedInv
      <4>. QED BY <2>k, <1>y, <4>1, <4>2 DEF Held, Kept, OnTrial
    <3>. QED BY <3>1, <3>2, <3>3
  <2>3. ASSUME NEW g \in Conns
        PROVE  /\ job'[g].pc = "record" => Armed(job[g].token, job[g].lag)'
               /\ job'[g].pc = "reply" /\ job'[g].kind = "apply_rollback" /\ job'[g].status = 200
                    => Held(job[g].token, Timeout, job[g].lag)'
    <3>1. CASE g # h
      <4>1. job'[g] = job[g]
        BY <2>1, <3>1
      <4>2. /\ job[g].pc = "record" => Armed(job[g].token, job[g].lag)
            /\ job[g].pc = "reply" /\ job[g].kind = "apply_rollback" /\ job[g].status = 200
                  => Held(job[g].token, Timeout, job[g].lag)
        BY DEF AppliedInv
      <4>3. /\ job[g].pc = "record" => Armed(job[g].token, job[g].lag)'
            /\ job[g].pc = "reply" /\ job[g].kind = "apply_rollback" /\ job[g].status = 200
                  => Held(job[g].token, Timeout, job[g].lag)'
        BY <1>t, <1>y, <2>k, <4>1, <4>2 DEF Armed, Held, Kept, OnTrial
      <4>. QED BY <4>1, <4>3
    <3>2. CASE g = h
      <4>1. CASE Moves(h, "apply", "record")
        <5>1. Pending' /\ pendingId' = job[h].token /\ timer' = Timeout
          BY <1>1, <4>1 DEF HandlerStep, Moves
        <5>2. job'[h].lag \in Nat /\ Timeout' = Timeout /\ Timeout \in Nat
          BY <1>t, <1>y, <2>1
        <5>. QED BY <2>1, <3>2, <4>1, <5>1, <5>2 DEF OnTrial, Armed, Moves
      <4>2. CASE Moves(h, "record", "reply")
        BY <2>a, <3>2, <4>2 DEF Moves
      <4>3. CASE ~ Moves(h, "apply", "record") /\ ~ Moves(h, "record", "reply")
        <5>1. job'[h].pc # "record"
          BY <1>1, <4>3 DEF HandlerStep, Moves
        <5>2. job'[h].pc = "reply" /\ job'[h].kind = "apply_rollback" => job'[h].status # 200
          BY <1>0, <1>1, <2>1, <4>3 DEF HandlerStep, Moves, JobKinds
        <5>. QED BY <3>2, <5>1, <5>2
      <4>. QED BY <4>1, <4>2, <4>3
    <3>. QED BY <3>1, <3>2
  <2>4. ASSUME NEW s \in Sessions
        PROVE  PageHeld(page[s])'
    <3>1. PageHeld(page[s]) /\ page'[s] = page[s]
      BY <2>1 DEF AppliedInv
    <3>2. page[s].dialog = "confirming" /\ page[s].checked
            => Held(page[s].auth, page[s].deadline, MaxLag)'
      BY <2>k, <1>y, <2>1, <3>1 DEF PageHeld, Held, Kept, OnTrial
    <3>3. ASSUME page[s].dialog = "confirming", page[s].checked, page[s].conn # NoConn,
                 Confirmed(job[page[s].conn])'
          PROVE  Kept(page[s].auth)' \/ page[s].deadline <= MaxLag
      <4>1. CASE page[s].conn # h \/ Confirmed(job[h])
        <5>1. page[s].conn # h => job'[page[s].conn] = job[page[s].conn]
          BY <1>y, <2>1, <3>3
        <5>2. Confirmed(job[page[s].conn])
          BY <2>1, <3>1, <3>3, <4>1, <5>1 DEF Confirmed
        <5>3. Kept(page[s].auth) \/ page[s].deadline <= MaxLag
          BY <3>1, <3>3, <5>2 DEF PageHeld
        <5>. QED BY <2>k, <1>y, <2>1, <5>3 DEF Kept
      <4>2. CASE page[s].conn = h /\ ~Confirmed(job[h])
        <5>1. job[h].kind = "confirm"
          BY <1>0, <3>3, <4>2 DEF PageJobs, PageJob
        <5>2. Confirmed(job'[h])
          BY <2>1, <3>1, <3>3, <4>2 DEF Confirmed
        <5>3. Held(page[s].auth, page[s].deadline, MaxLag)
          BY <3>1, <3>3 DEF PageHeld
        <5>4. CASE Moves(h, "check", "reply")
          <6>1. record.ttl = 0
            BY <1>1, <5>2, <5>4 DEF HandlerStep, Moves, Confirmed
          <6>2. Kept(page[s].auth) \/ page[s].deadline <= MaxLag
            BY <1>t, <1>y, <5>3, <6>1 DEF Held
          <6>. QED BY <2>k, <1>y, <2>1, <6>2 DEF Kept
        <5>5. CASE Moves(h, "confirm", "reply")
          <6>1. ~Pending
            BY <1>1, <5>2, <5>5 DEF HandlerStep, Moves, Confirmed
          <6>2. Kept(page[s].auth) \/ page[s].deadline <= MaxLag
            BY <5>3, <6>1 DEF Held, OnTrial
          <6>. QED BY <2>k, <1>y, <2>1, <6>2 DEF Kept
        <5>6. CASE Moves(h, "confirm", "clear")
          <6>1. ~Pending'
            BY <1>1, <5>6 DEF HandlerStep, Moves
          <6>2. Held(page[s].auth, page[s].deadline, MaxLag)'
            BY <3>2, <3>3
          <6>. QED BY <3>1, <6>1, <6>2 DEF Held, OnTrial
        <5>7. \/ Moves(h, "check", "reply") \/ Moves(h, "confirm", "reply")
              \/ Moves(h, "confirm", "clear")
          BY <1>0, <1>1, <4>2, <5>1, <5>2 DEF HandlerStep, Moves, Confirmed, JobKinds
        <5>. QED BY <5>4, <5>5, <5>6, <5>7
      <4>. QED BY <4>1, <4>2
    <3>. QED BY <3>1, <3>2, <3>3 DEF PageHeld
  <2>. QED BY <2>1, <2>2, <2>3, <2>4 DEF AppliedInv, Armed, Held, Kept, OnTrial
<1>2. ASSUME NEW s \in Sessions, PageStep(s)
      PROVE  AppliedInv'
  <2>1. /\ \A r \in Sessions \ {s} : page'[r] = page[r]
        /\ UNCHANGED <<applySid, timer, record, outcome, pendingId>>
        /\ Pending' = Pending /\ Timeout' = Timeout
    BY <1>2 DEF PageStep, trialVars, Pending, Timeout
  <2>2. ASSUME NEW g \in Conns, job'[g].pc \in {"record", "clear", "reply"}
        PROVE  job'[g] = job[g]
    BY <1>2, <2>2 DEF PageStep, Asks, Hears, Turned, Sent, Taken, IdleJob
  <2>3. ASSUME NEW r \in Sessions, r # s
        PROVE  PageHeld(page[r])'
    <3>1. page'[r] = page[r] /\ PageHeld(page[r])
      BY <2>1, <2>3 DEF AppliedInv
    <3>2. page[r].conn # NoConn /\ Confirmed(job[page[r].conn])' => Confirmed(job[page[r].conn])
      <4>1. SUFFICES ASSUME page[r].conn # NoConn, Confirmed(job[page[r].conn])'
                     PROVE  Confirmed(job[page[r].conn])
        OBVIOUS
      <4>2. job'[page[r].conn].pc \in {"record", "clear", "reply"} /\ page[r].conn \in Conns
        BY <1>y, <3>1, <4>1 DEF Confirmed
      <4>. QED BY <2>2, <3>1, <4>1, <4>2 DEF Confirmed
    <3>. QED BY <2>1, <3>1, <3>2 DEF PageHeld, Held, Kept, OnTrial
  <2>4. PageHeld(page[s])'
    <3>0. /\ PageHeld(page[s])
          /\ record.ttl > 0 => Held(record.token, Down(record.ttl), MaxLag)
      BY DEF AppliedInv
    <3>1. CASE Asks(s)
      <4>1. /\ page'[s].dialog # "applied"
            /\ page'[s].conn # NoConn => ~Confirmed(job'[page'[s].conn])
        BY <3>1 DEF Asks, Sent, Turns, Confirmed
      <4>2. page'[s].dialog = "confirming" =>
              /\ Turns(s, {"confirming"}, {"confirming"})
              /\ page'[s].deadline = page[s].deadline
        BY <3>1 DEF Asks, Turns
      <4>. QED BY <2>1, <3>0, <4>1, <4>2 DEF PageHeld, Turns, Held, Kept, OnTrial
    <3>2. CASE Hears(s)
      <4>1. page'[s].conn = NoConn
        BY <3>2 DEF Hears, Taken, GivesUp
      <4>2. CASE /\ page[s].dialog = "starting" /\ page'[s].dialog = "confirming"
                 /\ page'[s].checked = page[s].checked /\ page'[s].deadline = Timeout
                 /\ page[s].checked => /\ job[page[s].conn].status = 200
                                       /\ page'[s].auth = job[page[s].conn].token
                 /\ Taken(s, {"reply"})
        <5>1. page[s].conn \in Conns /\ job[page[s].conn].pc = "reply"
          BY <4>2 DEF Taken
        <5>2. page[s].checked => job[page[s].conn].kind = "apply_rollback"
          BY <1>0, <4>2, <5>1, NoConnAssumption DEF PageJobs, PageJob
        <5>3. page[s].checked => Held(job[page[s].conn].token, Timeout, job[page[s].conn].lag)
          BY <4>2, <5>1, <5>2 DEF AppliedInv
        <5>4. page'[s].checked => Held(page[s].auth, page[s].deadline, MaxLag)'
          <6>1. job[page[s].conn].lag \in Nat /\ job[page[s].conn].lag <= MaxLag
            BY <1>y, <5>1 DEF OnTime
          <6>. QED BY <1>t, <1>y, <2>1, <4>2, <5>3, <6>1 DEF Held, Kept, OnTrial
        <5>. QED BY <4>1, <4>2, <5>4 DEF PageHeld
      <4>3. CASE /\ Turns(s, {"confirming"}, {"applied"}) /\ page[s].deadline # 0
                 /\ job[page[s].conn].status \in {200, 204} /\ Taken(s, {"reply"})
        BY <4>3 DEF PageHeld, Turns
      <4>4. CASE /\ Turns(s, {"confirming"}, {"confirming"})
                 /\ page'[s].deadline = page[s].deadline
        BY <2>1, <3>0, <4>1, <4>4 DEF PageHeld, Turns, Held, Kept, OnTrial
      <4>5. CASE page'[s].dialog \notin {"confirming", "applied"}
        BY <4>5 DEF PageHeld
      <4>. QED BY <3>2, <4>2, <4>3, <4>4, <4>5 DEF Hears, GivesUp, Turns
    <3>3. CASE Turned(s)
      <4>1. CASE UNCHANGED page
        BY <2>1, <3>0, <3>3, <4>1 DEF Turned, PageHeld, Held, Kept, OnTrial
      <4>2. CASE page'[s].dialog \notin {"confirming", "applied"}
        BY <4>2 DEF PageHeld
      <4>3. CASE /\ Turns(s, {"confirming"}, {"confirming"})
                 /\ page'[s].deadline = page[s].deadline /\ page'[s].conn = page[s].conn
        BY <2>1, <3>0, <3>3, <4>3 DEF Turned, PageHeld, Turns, Held, Kept, OnTrial
      <4>4. CASE /\ record.ttl > 0 /\ page'[s].conn = NoConn
                 /\ page'[s].dialog = "confirming" /\ page'[s].checked = TRUE
                 /\ page'[s].auth = record.token /\ page'[s].deadline = Down(record.ttl)
        BY <2>1, <3>0, <4>4 DEF PageHeld, Held, Kept, OnTrial
      <4>. QED BY <3>3, <4>1, <4>2, <4>3, <4>4 DEF Turned, GivesUp, Turns
    <3>. QED BY <1>2, <3>1, <3>2, <3>3 DEF PageStep
  <2>5. record'.ttl > 0 => Held(record.token, Down(record.ttl), MaxLag)'
    BY <2>1 DEF AppliedInv, Held, Kept, OnTrial
  <2>6. ASSUME NEW g \in Conns
        PROVE  /\ job'[g].pc = "record" => Armed(job[g].token, job[g].lag)'
               /\ job'[g].pc = "reply" /\ job'[g].kind = "apply_rollback" /\ job'[g].status = 200
                    => Held(job[g].token, Timeout, job[g].lag)'
    BY <2>1, <2>2 DEF AppliedInv, Armed, Held, Kept, OnTrial
  <2>. QED BY <2>3, <2>4, <2>5, <2>6 DEF AppliedInv
<1>3. ASSUME NEW h \in Conns, NetworkStep(h)
      PROVE  AppliedInv'
  <2>1. /\ UNCHANGED <<applySid, timer, record, outcome, pendingId, page>>
        /\ Pending' = Pending /\ Timeout' = Timeout
        /\ \A g \in Conns : job'[g] = job[g] \/ job'[g].pc \in {"lost", "idle"}
    BY <1>3 DEF NetworkStep, trialVars, Pending, Timeout
  <2>2. \A s \in Sessions : page[s].conn # NoConn =>
           job'[page[s].conn] = job[page[s].conn] \/ job'[page[s].conn].pc \in {"lost", "idle"}
    BY <1>y, <2>1
  <2>3. record'.ttl > 0 => Held(record.token, Down(record.ttl), MaxLag)'
    BY <2>1 DEF AppliedInv, Held, Kept, OnTrial
  <2>4. ASSUME NEW g \in Conns
        PROVE  /\ job'[g].pc = "record" => Armed(job[g].token, job[g].lag)'
               /\ job'[g].pc = "reply" /\ job'[g].kind = "apply_rollback" /\ job'[g].status = 200
                    => Held(job[g].token, Timeout, job[g].lag)'
    BY <2>1 DEF AppliedInv, Armed, Held, Kept, OnTrial
  <2>5. ASSUME NEW s \in Sessions
        PROVE  PageHeld(page[s])'
    BY <2>1, <2>2 DEF AppliedInv, PageHeld, Confirmed, Held, Kept, OnTrial
  <2>. QED BY <2>3, <2>4, <2>5 DEF AppliedInv
<1>4. ASSUME ~Tick, UNCHANGED <<record, job, page>>
      PROVE  AppliedInv'
  <2>k. /\ \A id \in Tokens : Kept(id) => Kept(id)'
        /\ \A id \in Tokens, l \in Nat : Armed(id, l) => Armed(id, l)'
        /\ \A id \in Tokens, d, l \in Nat : Held(id, d, l) => Held(id, d, l)'
    BY <1>k, <1>4
  <2>1. record.ttl > 0 => Held(record.token, Down(record.ttl), MaxLag)'
    BY <1>y, <1>4, <2>k DEF AppliedInv, Held, Kept, OnTrial
  <2>2. ASSUME NEW h \in Conns
        PROVE  /\ job[h].pc = "record" => Armed(job[h].token, job[h].lag)'
               /\ job[h].pc = "reply" /\ job[h].kind = "apply_rollback" /\ job[h].status = 200
                    => Held(job[h].token, Timeout, job[h].lag)'
    BY <1>t, <1>y, <1>4, <2>k DEF AppliedInv, Armed, Held, Kept, OnTrial
  <2>3. ASSUME NEW s \in Sessions
        PROVE  PageHeld(page[s])'
    BY <1>y, <1>4, <2>k DEF AppliedInv, PageHeld, Held, Kept, OnTrial
  <2>. QED BY <1>4, <2>1, <2>2, <2>3 DEF AppliedInv
<1>5. CASE Tick
  <2>1. /\ ~ (Pending /\ timer = 0) /\ timer' = Down(timer)
        /\ UNCHANGED <<applySid, outcome, pendingId>>
        /\ record.ttl > 1 => record'.ttl = record.ttl - 1 /\ record'.token = record.token
        /\ ~ (record.ttl > 1) => record'.ttl = 0
        /\ \A h \in Conns :
             /\ job'[h].pc = job[h].pc /\ job'[h].kind = job[h].kind
             /\ job'[h].token = job[h].token /\ job'[h].status = job[h].status
             /\ job'[h].lag = IF job[h].pc = "idle" THEN job[h].lag ELSE job[h].lag + 1
        /\ \A s \in Sessions :
             /\ page'[s].dialog = page[s].dialog /\ page'[s].checked = page[s].checked
             /\ page'[s].auth = page[s].auth /\ page'[s].conn = page[s].conn
             /\ page'[s].deadline = Down(page[s].deadline)
    <3>. HIDE DEF Tick
    <3>. QED BY <1>0, <1>5, Ticked
  <2>2. ASSUME NEW id \in Tokens, NEW d \in Nat, NEW l \in Nat, Held(id, d, l)
        PROVE  Held(id, Down(d), l)' /\ Held(id, d, l + 1)'
    <3>1. Kept(id)' = Kept(id) /\ OnTrial(id)' = OnTrial(id)
      BY <2>1 DEF Kept, OnTrial, Pending
    <3>2. CASE Kept(id) \/ d <= l
      BY <3>1, <3>2 DEF Held, Down
    <3>3. CASE OnTrial(id) /\ timer + l >= d /\ record.ttl + l > d
      <4>1. timer > 0 /\ timer' = timer - 1
        BY <1>t, <2>1, <3>3 DEF OnTrial, Down
      <4>. QED BY <1>t, <2>1, <3>1, <3>3, <4>1 DEF Held, Down
    <3>. QED BY <2>2, <3>2, <3>3 DEF Held
  <2>a. ASSUME NEW id \in Tokens, NEW l \in Nat, Armed(id, l)
        PROVE  Armed(id, l + 1)'
    <3>1. Kept(id)' = Kept(id) /\ OnTrial(id)' = OnTrial(id)
      BY <2>1 DEF Kept, OnTrial, Pending
    <3>2. OnTrial(id) => timer' = timer - 1
      BY <1>t, <2>1 DEF OnTrial, Down
    <3>. QED BY <1>t, <2>a, <3>1, <3>2 DEF Armed
  <2>3. record'.ttl > 0 => Held(record.token, Down(record.ttl), MaxLag)'
    <3>1. CASE record.ttl > 1
      <4>1. Held(record.token, Down(record.ttl), MaxLag)
        BY <1>t, <3>1 DEF AppliedInv
      <4>2. Down(record'.ttl) = Down(Down(record.ttl))
        BY <1>t, <2>1, <3>1 DEF Down
      <4>. QED BY <1>y, <2>1, <2>2, <3>1, <4>1, <4>2 DEF Held, Kept, OnTrial, Pending
    <3>2. CASE ~ (record.ttl > 1)
      BY <2>1, <3>2
    <3>. QED BY <3>1, <3>2
  <2>4. ASSUME NEW s \in Sessions
        PROVE  PageHeld(page[s])'
    <3>1. PageHeld(page[s])
      BY DEF AppliedInv
    <3>2. page'[s].dialog = "confirming" /\ page'[s].checked
            => Held(page[s].auth, page[s].deadline, MaxLag)'
      <4>1. SUFFICES ASSUME page'[s].dialog = "confirming", page'[s].checked
                     PROVE  Held(page[s].auth, page[s].deadline, MaxLag)'
        OBVIOUS
      <4>2. Held(page[s].auth, page[s].deadline, MaxLag)
        BY <2>1, <3>1, <4>1 DEF PageHeld
      <4>. QED BY <1>y, <2>1, <2>2, <4>2 DEF Held, Kept, OnTrial, Pending
    <3>3. page[s].conn # NoConn /\ Confirmed(job[page[s].conn])' => Confirmed(job[page[s].conn])
      BY <1>y, <2>1 DEF Confirmed
    <3>4. Down(page[s].deadline) <= page[s].deadline
      BY <1>y DEF Down
    <3>5. ASSUME page[s].dialog = "confirming", page[s].checked, page[s].conn # NoConn,
                 Confirmed(job[page[s].conn])'
          PROVE  Kept(page[s].auth)' \/ page'[s].deadline <= MaxLag
      <4>1. Confirmed(job[page[s].conn])
        BY <2>1, <3>3, <3>5 DEF Confirmed
      <4>2. Kept(page[s].auth) \/ page[s].deadline <= MaxLag
        BY <3>1, <3>5, <4>1 DEF PageHeld
      <4>3. page'[s].deadline <= page[s].deadline /\ page'[s].deadline \in Nat
        BY <1>y, <2>1, <3>4 DEF Down
      <4>. QED BY <1>y, <2>1, <4>2, <4>3 DEF Kept
    <3>. QED BY <2>1, <3>2, <3>5 DEF PageHeld
  <2>5. ASSUME NEW h \in Conns
        PROVE  /\ job'[h].pc = "record" => Armed(job[h].token, job[h].lag)'
               /\ job'[h].pc = "reply" /\ job'[h].kind = "apply_rollback" /\ job'[h].status = 200
                    => Held(job[h].token, Timeout, job[h].lag)'
    <3>1. /\ job[h].pc = "record" => Armed(job[h].token, job[h].lag)
          /\ job[h].pc = "reply" /\ job[h].kind = "apply_rollback" /\ job[h].status = 200
                => Held(job[h].token, Timeout, job[h].lag)
      BY DEF AppliedInv
    <3>2. job'[h].pc \in {"record", "reply"} => job'[h].lag = job[h].lag + 1
      BY <2>1
    <3>3. PICK id \in Tokens, l \in Nat : id = job[h].token /\ l = job[h].lag
      BY <1>y
    <3>4. /\ Armed(id, l) => Armed(id, l + 1)'
          /\ Held(id, Timeout, l) => Held(id, Timeout, l + 1)'
      BY <1>t, <2>2, <2>a
    <3>5. CASE job[h].pc = "record"
      <4>1. Armed(id, l + 1)'
        BY <3>1, <3>3, <3>4, <3>5
      <4>. QED BY <2>1, <3>2, <3>3, <3>5, <4>1 DEF Armed, Kept, OnTrial
    <3>6. CASE job[h].pc = "reply" /\ job[h].kind = "apply_rollback" /\ job[h].status = 200
      <4>1. Held(id, Timeout, l + 1)'
        BY <3>1, <3>3, <3>4, <3>6
      <4>. QED BY <1>t, <2>1, <3>2, <3>3, <3>6, <4>1 DEF Held, Kept, OnTrial
    <3>. QED BY <2>1, <3>5, <3>6
  <2>. QED BY <2>1, <2>3, <2>4, <2>5 DEF AppliedInv
<1>6. CASE RpcdTimeout /\ ~Tick
  <2>1. UNCHANGED <<record, job, page>>
    BY <1>6 DEF RpcdTimeout, pageVars
  <2>. QED BY <1>4, <1>6, <2>1
<1>7. CASE UNCHANGED vars /\ ~Tick
  <2>1. UNCHANGED <<record, job, page>>
    BY <1>7 DEF vars, pageVars
  <2>. QED BY <1>4, <1>7, <2>1
<1>. QED BY <1>0, <1>1, <1>2, <1>3, <1>5, <1>6, <1>7, StepKinds

\* A page says that its apply is in effect when it takes such an answer.
LEMMA SaysSo ==
    ASSUME LinkInv, AppliedInv, [Next]_vars, NEW s \in Sessions,
           page[s].dialog = "confirming", page'[s].dialog = "applied",
           page[s].checked, page[s].deadline > MaxLag
    PROVE  Kept(page[s].auth)
<1>0. TypeInv /\ PageHeld(page[s])
  BY DEF LinkInv, AppliedInv
<1>1. page'[s].dialog # page[s].dialog
  OBVIOUS
<1>2. PICK r \in Sessions : PageStep(r)
  <2>1. \A h \in Conns : ~HandlerStep(h) /\ ~NetworkStep(h)
    BY <1>1 DEF HandlerStep, NetworkStep
  <2>2. ~RpcdTimeout /\ ~UNCHANGED vars
    BY <1>1 DEF RpcdTimeout, vars, pageVars
  <2>3. ~Tick
    <3>. HIDE DEF Tick
    <3>. QED BY <1>0, <1>1, Ticked
  <2>. QED BY <1>0, <2>1, <2>2, <2>3, StepKinds
<1>3. r = s
  BY <1>1, <1>2 DEF PageStep
<1>4. Hears(s)
  BY <1>2, <1>3 DEF PageStep, Asks, Turned, Turns, GivesUp
<1>5. job[page[s].conn].status \in {200, 204} /\ Taken(s, {"reply"})
  BY <1>4 DEF Hears, Turns, GivesUp
<1>6. page[s].conn # NoConn /\ Confirmed(job[page[s].conn])
  BY <1>5, NoConnAssumption DEF Taken, Confirmed
<1>7. MaxLag \in Nat /\ page[s].deadline \in Nat
  BY <1>0, NumbersAssumption DEF TypeInv, TypeOK, Page
<1>. QED BY <1>0, <1>6, <1>7 DEF PageHeld

\* A page says that the changes are in effect only when rpcd has kept them,
\* unless it says so in the last MaxLag ticks of its deadline.  rpcd's timer
\* starts with the apply, the token's time when it is recorded and the page's
\* deadline with the answer, so requests that take up to MaxLag ticks set the
\* clocks apart by no more than that, whatever gets lost and however many
\* sessions poll (apply() and confirm() of ui.js, uci_apply and uci_confirm of
\* uci.uc).  The configured time is not below the clamp, and no confirm is about
\* to clear the record while an apply is about to write it.
THEOREM AppliedIsKept ==
    Conf >= Floor => (Spec /\ []RecordedInPeace => AppliedInTime)
<1> SUFFICES ASSUME Conf >= Floor
             PROVE  Spec /\ []RecordedInPeace => AppliedInTime
  OBVIOUS
<1>1. Init => LinkInv /\ OnTime /\ AppliedInv
  <2>1. ASSUME Init PROVE OnTime /\ AppliedInv
    <3>1. /\ record.ttl = 0 /\ \A h \in Conns : job[h].pc = "idle" /\ job[h].lag = 0
          /\ \A s \in Sessions : page[s].dialog = "closed"
      BY <2>1 DEF Init, NoRecord, IdleJob, FreshPage
    <3>. QED BY <3>1, NumbersAssumption DEF OnTime, AppliedInv, PageHeld
  <2>. QED BY <2>1, LinksInit
<1>2. LinkInv /\ OnTime /\ AppliedInv /\ RecordedInPeace' /\ [Next]_vars
        => (LinkInv /\ OnTime /\ AppliedInv)'
  BY LinksKept, OnTimeKept, AppliedKept
<1>3. LinkInv /\ AppliedInv /\ [Next]_vars =>
        [\A s \in Sessions :
           page[s].dialog = "confirming" /\ page'[s].dialog = "applied"
             /\ page[s].checked /\ page[s].deadline > MaxLag
           => outcome[page[s].auth] = "kept"]_vars
  BY SaysSo DEF Kept
<1>. QED BY <1>1, <1>2, <1>3, PTL DEF Spec, AppliedInTime
=============================================================================
