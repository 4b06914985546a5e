---------------------------- MODULE ApplyConfirm ----------------------------
(***************************************************************************)
(* "Save & Apply" of LuCI: the request handlers of uci.uc, the footer.ut   *)
(* page hook and the changes dialog of ui.js around the uci backend.       *)
(*                                                                         *)
(* A checked apply puts the staged changes into effect and arms a rollback *)
(* timer in rpcd; the handler then records a random token in the global    *)
(* session.  The page polls admin/uci/confirm with that token until it is  *)
(* told that the apply is kept, or until its own deadline passes.          *)
(*                                                                         *)
(* uhttpd runs every request in a process of its own, so handlers          *)
(* interleave between their ubus calls.  Time is counted in ticks; every   *)
(* timer is a countdown.                                                   *)
(***************************************************************************)
EXTENDS UciBackend, Integers

CONSTANTS
    Conns,         \* connections: requests that can be in progress at a time
    NoConn,        \* "no request outstanding"
    MaxApplies,    \* bound: checked applies requested in one behaviour
    MaxOthers,     \* bound: unchecked applies and reverts requested
    Conf,          \* option config.apply.rollback, in ticks
    Floor,         \* the 90 of max(timeout, 90), in ticks
    Holdoff,       \* option config.apply.holdoff, in ticks
    MaxLag,        \* a request is answered, or given up, within MaxLag ticks
    LoseRequests,  \* TRUE: requests may get lost (device not reachable)
    LoseReplies    \* TRUE: replies may get lost after the handler has run

ASSUME NoConnAssumption == NoConn \notin Conns
ASSUME NumbersAssumption ==
    {MaxApplies, MaxOthers, Conf, Floor, Holdoff, MaxLag} \subseteq Nat
ASSUME LossAssumption == {LoseRequests, LoseReplies} \subseteq BOOLEAN

VARIABLES
    record,       \* "rollback" value of the global session: token, session, ttl
    job,          \* per connection: the handler process that serves it
    page,         \* per session: the changes dialog of its LuCI page
    clicks,       \* history: checked applies requested so far
    others,       \* history: unchecked applies and reverts requested so far
    owner,        \* history: the session that requested each of them
    outcome,      \* history: what became of each of them
    confirmedBy,  \* history: the token that made rpcd keep each of them
    pendingId,    \* history: the apply that is pending in rpcd
    kept          \* history: the configuration last confirmed or committed

pageVars == <<page, clicks, others, owner>>
historyVars == <<outcome, confirmedBy, pendingId, kept>>
vars == <<backendVars, record, job, pageVars, historyVars>>

-----------------------------------------------------------------------------
(* Helpers and types.                                                      *)

Larger(a, b) == IF a > b THEN a ELSE b
Down(n) == IF n > 0 THEN n - 1 ELSE 0

\* How long rpcd, and the page, wait: both are clamped to at least Floor.
Timeout == Larger(Conf, Floor)

\* An apply's number stands for its token: randomid(16) never repeats.
\* Number 0 is any string that is no rollback token.
Ids == 1..MaxApplies
Tokens == 0..MaxApplies

NoRecord == [token |-> 0, session |-> NoSession, ttl |-> 0]

\* pc of a handler = its next ubus call; "reply" once the status is known,
\* "lost" when its request or its reply will never arrive.
Entry == {"apply", "changes", "check"}
PCs == Entry \cup {"idle", "record", "commit", "reload", "revert",
                   "confirm", "clear", "reply", "lost"}

Kinds == {"none", "apply_rollback", "apply_unchecked", "confirm", "revert"}

Statuses == {0, 200, 204, 403}

IdleJob == [pc |-> "idle", kind |-> "none", sid |-> NoSession, token |-> 0,
            peer |-> NoSession, todo |-> {}, status |-> 0, lag |-> 0]

Job == [pc : PCs, kind : Kinds, sid : Sessions \cup {NoSession},
        token : Tokens, peer : Sessions \cup {NoSession},
        todo : SUBSET Configs, status : Statuses, lag : Nat]

Dialogs == {"closed", "starting", "confirming", "rollback", "applied",
            "rolledback", "unreachable", "nochanges", "failed",
            "reverting", "reverted"}

\* auth is confirm_auth, wait the time until the dialog's next call.
Page == [dialog : Dialogs, checked : BOOLEAN, auth : Tokens, first : BOOLEAN,
         deadline : Nat, wait : Nat, conn : Conns \cup {NoConn}]

FreshPage == [dialog |-> "closed", checked |-> FALSE, auth |-> 0,
              first |-> FALSE, deadline |-> 0, wait |-> 0, conn |-> NoConn]

\* Dialog d replaces that of page p; what is left are the page's variables.
Show(p, d) ==
    [FreshPage EXCEPT !.dialog = d, !.checked = p.checked, !.auth = p.auth]

TypeOK ==
    /\ BackendTypeOK
    /\ record \in [token : Tokens, session : Sessions \cup {NoSession}, ttl : Nat]
    /\ job \in [Conns -> Job]
    /\ page \in [Sessions -> Page]
    /\ clicks \in Tokens
    /\ others \in 0..MaxOthers
    /\ owner \in [Ids -> Sessions \cup {NoSession}]
    /\ outcome \in [Ids -> {"requested", "pending", "kept", "reverted"}]
    /\ confirmedBy \in [Ids -> Tokens]
    /\ pendingId \in Tokens
    /\ kept \in Config

Init ==
    /\ BackendInit
    /\ record = NoRecord
    /\ job = [h \in Conns |-> IdleJob]
    /\ page = [s \in Sessions |-> FreshPage]
    /\ clicks = 0
    /\ others = 0
    /\ owner = [id \in Ids |-> NoSession]
    /\ outcome = [id \in Ids |-> "requested"]
    /\ confirmedBy = [id \in Ids |-> 0]
    /\ pendingId = 0
    /\ kept = NoChanges

\* Handler h takes its next step and changes only its own job.
Step(h, from, to) ==
    /\ job[h].pc = from
    /\ job' = [job EXCEPT ![h].pc = to]

Reply(h, from, status) ==
    /\ job[h].pc = from
    /\ job' = [job EXCEPT ![h] = [@ EXCEPT !.pc = "reply", !.status = status]]

-----------------------------------------------------------------------------
(* uci.uc: uci_apply(true).                                                *)

\* Mutant: the option "rollback" of "uci apply" is left out.
ApplyUciNoRollback(h) ==
    LET s == job[h].sid IN
    /\ job[h].pc = "apply"
    /\ \/ /\ PlainApply(s)
          /\ Step(h, "apply", "record")
       \/ /\ PlainApplyStatus(s) # 200
          /\ Reply(h, "apply", PlainApplyStatus(s))
          /\ UNCHANGED backendVars
    /\ UNCHANGED <<record, pageVars, historyVars>>

\* ubus "uci apply": on success the token is still to be recorded.
ApplyUci(h) ==
    LET s == job[h].sid IN
    /\ job[h].pc = "apply"
    /\ \/ /\ StartApply(s, Timeout)
          /\ Step(h, "apply", "record")
          /\ pendingId' = job[h].token
          /\ outcome' = [outcome EXCEPT ![job[h].token] = "pending"]
       \/ /\ ApplyStatus(s) # 200
          /\ Reply(h, "apply", ApplyStatus(s))
          /\ UNCHANGED <<backendVars, outcome, pendingId>>
    /\ UNCHANGED <<record, pageVars, confirmedBy, kept>>

\* ubus "session set": the token is valid while time() <= set time + Conf, so
\* for Conf + 1 ticks counted from this one.  Conf is not clamped here.
RecordToken(h) ==
    /\ Reply(h, "record", 200)
    /\ record' = [token |-> job[h].token, session |-> job[h].sid, ttl |-> Conf + 1]
    /\ UNCHANGED <<backendVars, pageVars, historyVars>>

(* uci.uc: uci_confirm(token).                                             *)

\* Mutant: the token of the request is not compared.
CheckTokenAny(h) ==
    /\ job[h].pc = "check"
    /\ \/ /\ record.ttl = 0
          /\ Reply(h, "check", 204)
       \/ /\ record.ttl > 0
          /\ job' = [job EXCEPT ![h] = [@ EXCEPT !.pc = "confirm", !.peer = record.session]]
    /\ UNCHANGED <<backendVars, record, pageVars, historyVars>>

\* ubus "session get" and the checks on what it returned.
CheckToken(h) ==
    /\ \/ /\ record.ttl = 0
          /\ Reply(h, "check", 204)
       \/ /\ record.ttl > 0
          /\ job[h].token # record.token
          /\ Reply(h, "check", 403)
       \/ /\ record.ttl > 0
          /\ job[h].token = record.token
          /\ job[h].pc = "check"
          /\ job' = [job EXCEPT ![h] = [@ EXCEPT !.pc = "confirm", !.peer = record.session]]
    /\ UNCHANGED <<backendVars, record, pageVars, historyVars>>

\* ubus "uci confirm" for the session that was read from the record.
ConfirmUci(h) ==
    LET s == job[h].peer IN
    /\ job[h].pc = "confirm"
    /\ \/ /\ KeepApply(s)
          /\ Step(h, "confirm", "clear")
          /\ outcome' = [outcome EXCEPT ![pendingId] = "kept"]
          /\ confirmedBy' = [confirmedBy EXCEPT ![pendingId] = job[h].token]
          /\ kept' = running
       \/ /\ ConfirmStatus(s) # 200
          /\ Reply(h, "confirm", ConfirmStatus(s))
          /\ UNCHANGED <<backendVars, outcome, confirmedBy, kept>>
    /\ UNCHANGED <<record, pageVars, pendingId>>

\* ubus "session set" with an empty rollback value, whatever is there now.
ClearRecord(h) ==
    /\ Reply(h, "clear", 200)
    /\ record' = NoRecord
    /\ UNCHANGED <<backendVars, pageVars, historyVars>>

(* uci.uc: uci_apply(false) and action_revert.                             *)

\* ubus "uci changes": the files to commit, or to revert.
ReadChanges(h) ==
    /\ job[h].pc = "changes"
    /\ job' = [job EXCEPT ![h] = [@ EXCEPT
          !.pc = IF job[h].kind = "revert" THEN "revert" ELSE "commit",
          !.todo = {c \in Configs : staged[job[h].sid][c] # 0},
          !.status = 200]]
    /\ UNCHANGED <<backendVars, record, pageVars, historyVars>>

\* One turn of the commit loop; the first failure ends the request.
CommitOne(h) ==
    /\ job[h].pc = "commit"
    /\ \/ /\ job[h].todo = {}
          /\ Step(h, "commit", "reload")
          /\ UNCHANGED <<backendVars, kept>>
       \/ /\ job[h].todo # {} /\ CommitStatus # 200
          /\ Reply(h, "commit", CommitStatus)
          /\ UNCHANGED <<backendVars, kept>>
       \/ \E c \in job[h].todo :
            /\ CommitFile(job[h].sid, c)
            /\ job' = [job EXCEPT ![h].todo = @ \ {c}]
            /\ kept' = running'
    /\ UNCHANGED <<record, pageVars, outcome, confirmedBy, pendingId>>

\* ubus "uci apply" without rollback.
ReloadUci(h) ==
    LET s == job[h].sid IN
    /\ job[h].pc = "reload"
    /\ \/ PlainApply(s) /\ kept' = running'
       \/ PlainApplyStatus(s) # 200 /\ UNCHANGED <<backendVars, kept>>
    /\ Reply(h, "reload", PlainApplyStatus(s))
    /\ UNCHANGED <<record, pageVars, outcome, confirmedBy, pendingId>>

\* One turn of the revert loop; the status is that of the last call.
RevertOne(h) ==
    /\ job[h].pc = "revert"
    /\ \/ /\ job[h].todo = {}
          /\ Step(h, "revert", "reply")
          /\ UNCHANGED backendVars
       \/ /\ job[h].todo # {} /\ CommitStatus # 200
          /\ Reply(h, "revert", CommitStatus)
          /\ UNCHANGED backendVars
       \/ \E c \in job[h].todo :
            /\ RevertFile(job[h].sid, c)
            /\ job' = [job EXCEPT ![h].todo = @ \ {c}]
    /\ UNCHANGED <<record, pageVars, historyVars>>

Handle(h) ==
    \/ ApplyUci(h) \/ RecordToken(h)
    \/ CheckToken(h) \/ ConfirmUci(h) \/ ClearRecord(h)
    \/ ReadChanges(h) \/ CommitOne(h) \/ ReloadUci(h) \/ RevertOne(h)

\* rpcd's timer.
RpcdTimeout ==
    /\ RestoreSnapshot
    /\ outcome' = [outcome EXCEPT ![pendingId] = "reverted"]
    /\ UNCHANGED <<record, job, pageVars, confirmedBy, pendingId, kept>>

-----------------------------------------------------------------------------
(* ui.js: the changes dialog.                                              *)

\* Send a request from the page of session s, which becomes p.
Send(s, kind, entry, token, p) ==
    \E h \in Conns :
      /\ job[h].pc = "idle"
      /\ job' = [job EXCEPT ![h] = [IdleJob EXCEPT
                    !.pc = entry, !.kind = kind, !.sid = s, !.token = token]]
      /\ page' = [page EXCEPT ![s] = [p EXCEPT !.conn = h]]

\* The page of session s takes the answer off its connection and becomes p.
Receive(s, p) ==
    /\ job' = [job EXCEPT ![page[s].conn] = IdleJob]
    /\ page' = [page EXCEPT ![s] = [p EXCEPT !.conn = NoConn]]

Answered(s, pcs) == page[s].conn # NoConn /\ job[page[s].conn].pc \in pcs

\* The user edits and saves a form; the changes are staged in rpcd.
Edit(s) ==
    /\ page[s].dialog = "closed"
    /\ \E c \in Configs : Stage(s, c)
    /\ UNCHANGED <<record, job, pageVars, historyVars>>

\* apply(true): "Save & Apply".
ApplyChecked(s) ==
    /\ page[s].dialog = "closed"
    /\ clicks < MaxApplies
    /\ clicks' = clicks + 1
    /\ owner' = [owner EXCEPT ![clicks + 1] = s]
    /\ Send(s, "apply_rollback", "apply", clicks + 1,
            [Show(page[s], "starting") EXCEPT !.checked = TRUE])
    /\ UNCHANGED <<backendVars, record, others, historyVars>>

\* apply(false): "Apply unchecked", also offered after a rollback.
ApplyUnchecked(s) ==
    /\ page[s].dialog \in {"closed", "rolledback"}
    /\ others < MaxOthers
    /\ others' = others + 1
    /\ Send(s, "apply_unchecked", "changes", 0,
            [Show(page[s], "starting") EXCEPT !.checked = FALSE])
    /\ UNCHANGED <<backendVars, record, clicks, owner, historyVars>>

\* Mutant: the deadline is counted from the end of the holdoff.
ApplyReplyAfterHoldoff(s) ==
    LET p == page[s]
        r == job[p.conn]
    IN
    /\ p.dialog = "starting"
    /\ Answered(s, {"reply"})
    /\ Receive(s,
         IF r.status = (IF p.checked THEN 200 ELSE 204)
         THEN [p EXCEPT !.dialog = "confirming", !.first = TRUE,
                        !.auth = IF p.checked THEN r.token ELSE @,
                        !.deadline = Timeout + Holdoff, !.wait = Holdoff]
         ELSE Show(p, IF p.checked /\ r.status = 204 THEN "nochanges" ELSE "failed"))
    /\ UNCHANGED <<backendVars, record, clicks, others, owner, historyVars>>

\* The reply to apply(): start confirm(), with a deadline counted from now.
ApplyReply(s) ==
    LET p == page[s]
        r == job[p.conn]
    IN
    /\ p.dialog = "starting"
    /\ Answered(s, {"reply"})
    /\ Receive(s,
         IF r.status = (IF p.checked THEN 200 ELSE 204)
         THEN [p EXCEPT !.dialog = "confirming", !.first = TRUE,
                        !.auth = IF p.checked THEN r.token ELSE @,
                        !.deadline = Timeout, !.wait = Holdoff]
         ELSE Show(p, IF p.checked /\ r.status = 204 THEN "nochanges" ELSE "failed"))
    /\ UNCHANGED <<backendVars, record, clicks, others, owner, historyVars>>

\* rollback(checked): the deadline of confirm() has passed.
GiveUp(p) ==
    Show(p, IF p.checked THEN "rollback" ELSE "unreachable")

\* The first call() of confirm(), after the holdoff and without a reply.
FirstCall(s) ==
    LET p == [page[s] EXCEPT !.first = FALSE] IN
    /\ page[s].dialog = "confirming"
    /\ page[s].first
    /\ page[s].wait = 0
    /\ page' = [page EXCEPT ![s] = IF p.deadline = 0 THEN GiveUp(p) ELSE p]
    /\ UNCHANGED <<backendVars, record, job, clicks, others, owner, historyVars>>

SendConfirm(s) ==
    /\ page[s].dialog = "confirming"
    /\ ~page[s].first
    /\ page[s].conn = NoConn
    /\ Send(s, "confirm", "check", page[s].auth, page[s])
    /\ UNCHANGED <<backendVars, record, clicks, others, owner, historyVars>>

\* call(r) of confirm(): a reply, or the error of a request that got none.
ConfirmReply(s) ==
    LET p == page[s]
        r == job[p.conn]
    IN
    /\ p.dialog = "confirming"
    /\ Answered(s, {"reply", "lost"})
    /\ Receive(s,
         IF p.deadline = 0 THEN GiveUp(p)
         ELSE IF r.pc = "reply" /\ r.status \in {200, 204}
              THEN Show(p, "applied") ELSE p)
    /\ UNCHANGED <<backendVars, record, clicks, others, owner, historyVars>>

\* rollback(): poll confirm with the page's own token until there is no record.
SendRollbackPoll(s) ==
    /\ page[s].dialog = "rollback"
    /\ page[s].wait = 0
    /\ page[s].conn = NoConn
    /\ Send(s, "confirm", "check", 0, page[s])
    /\ UNCHANGED <<backendVars, record, clicks, others, owner, historyVars>>

\* Mutant: any refusal ends the wait for the rollback.
RollbackReplyAny(s) ==
    LET p == page[s]
        r == job[p.conn]
    IN
    /\ p.dialog = "rollback"
    /\ Answered(s, {"reply", "lost"})
    /\ Receive(s, IF r.pc = "lost" THEN [p EXCEPT !.wait = 1]
                  ELSE Show(p, "rolledback"))
    /\ UNCHANGED <<backendVars, record, clicks, others, owner, historyVars>>

\* Mutant: the wait for the rollback looks for status 200.
RollbackReplyOk(s) ==
    LET p == page[s]
        r == job[p.conn]
    IN
    /\ p.dialog = "rollback"
    /\ Answered(s, {"reply", "lost"})
    /\ Receive(s,
         IF r.pc = "lost" THEN [p EXCEPT !.wait = 1]
         ELSE IF r.status = 200 THEN Show(p, "rolledback") ELSE p)
    /\ UNCHANGED <<backendVars, record, clicks, others, owner, historyVars>>

RollbackReply(s) ==
    LET p == page[s]
        r == job[p.conn]
    IN
    /\ p.dialog = "rollback"
    /\ Answered(s, {"reply", "lost"})
    /\ Receive(s,
         IF r.pc = "lost" THEN [p EXCEPT !.wait = 1]
         ELSE IF r.status = 204 THEN Show(p, "rolledback") ELSE p)
    /\ UNCHANGED <<backendVars, record, clicks, others, owner, historyVars>>

\* revert().
Revert(s) ==
    /\ page[s].dialog \in {"closed", "rolledback"}
    /\ others < MaxOthers
    /\ others' = others + 1
    /\ Send(s, "revert", "changes", 0, Show(page[s], "reverting"))
    /\ UNCHANGED <<backendVars, record, clicks, owner, historyVars>>

RevertReply(s) ==
    LET p == page[s] IN
    /\ p.dialog = "reverting"
    /\ Answered(s, {"reply"})
    /\ Receive(s, Show(p, IF job[p.conn].status = 200 THEN "reverted" ELSE "failed"))
    /\ UNCHANGED <<backendVars, record, clicks, others, owner, historyVars>>

\* No rejection handler: after a network error these dialogs spin on.
RequestError(s) ==
    /\ page[s].dialog \in {"starting", "reverting"}
    /\ Answered(s, {"lost"})
    /\ Receive(s, page[s])
    /\ UNCHANGED <<backendVars, record, clicks, others, owner, historyVars>>

\* displayStatus(false): after apply_display, or the Dismiss button.
Close(s) ==
    /\ page[s].dialog \in {"nochanges", "failed", "rolledback"}
    /\ page' = [page EXCEPT ![s].dialog = "closed"]
    /\ UNCHANGED <<backendVars, record, job, clicks, others, owner, historyVars>>

(* footer.ut and rollback_pending() of dispatcher.uc: a page that is loaded *)
(* while a token is recorded, by whatever session, takes over confirming.   *)
PageLoad(s) ==
    LET remaining == Down(record.ttl) IN
    /\ page' = [page EXCEPT ![s] =
          IF remaining > 0
          THEN [FreshPage EXCEPT !.dialog = "confirming", !.checked = TRUE,
                  !.auth = record.token, !.first = TRUE, !.deadline = remaining,
                  !.wait = IF Holdoff + remaining > Timeout
                           THEN (Holdoff + remaining) - Timeout ELSE 0]
          ELSE FreshPage]
    /\ UNCHANGED <<backendVars, record, job, clicks, others, owner, historyVars>>

-----------------------------------------------------------------------------
(* The network and the clock.                                              *)

LoseRequest(h) ==
    /\ LoseRequests
    /\ job[h].pc \in Entry
    /\ job' = [job EXCEPT ![h].pc = "lost"]
    /\ UNCHANGED <<backendVars, record, pageVars, historyVars>>

LoseReply(h) ==
    /\ LoseReplies
    /\ Step(h, "reply", "lost")
    /\ UNCHANGED <<backendVars, record, pageVars, historyVars>>

\* The page that sent the request is gone.
DropReply(h) ==
    /\ job[h].pc \in {"reply", "lost"}
    /\ \A s \in Sessions : page[s].conn # h
    /\ job' = [job EXCEPT ![h] = IdleJob]
    /\ UNCHANGED <<backendVars, record, pageVars, historyVars>>

\* rpcd's timer does not wait; no request takes longer than MaxLag.  An
\* expired record is as good as none: both of its readers check the time.
Tick ==
    /\ ~(Pending /\ timer = 0)
    /\ \A h \in Conns : job[h].pc # "idle" => job[h].lag < MaxLag
    /\ timer' = Down(timer)
    /\ record' = IF record.ttl > 1 THEN [record EXCEPT !.ttl = @ - 1] ELSE NoRecord
    /\ job' = [h \in Conns |->
          IF job[h].pc = "idle" THEN job[h] ELSE [job[h] EXCEPT !.lag = @ + 1]]
    /\ page' = [s \in Sessions |->
          [page[s] EXCEPT !.deadline = Down(@), !.wait = Down(@)]]
    /\ UNCHANGED <<running, staged, applySid, snapshot, delta, edits,
                   clicks, others, owner, historyVars>>

-----------------------------------------------------------------------------
\* What a page does without its user.
Proceed(s) ==
    \/ ApplyReply(s) \/ FirstCall(s) \/ SendConfirm(s) \/ ConfirmReply(s)
    \/ SendRollbackPoll(s) \/ RollbackReply(s) \/ RevertReply(s)
    \/ RequestError(s)

User(s) ==
    \/ Edit(s) \/ ApplyChecked(s) \/ ApplyUnchecked(s) \/ Revert(s)
    \/ Close(s) \/ PageLoad(s)

Network(h) == LoseRequest(h) \/ LoseReply(h) \/ DropReply(h)

Next ==
    \/ \E h \in Conns : Handle(h) \/ Network(h)
    \/ \E s \in Sessions : Proceed(s) \/ User(s)
    \/ RpcdTimeout
    \/ Tick

Spec == Init /\ [][Next]_vars

\* Time passes although requests keep it busy (SF); processes and timers that
\* can run do run; a reply whose page is gone is dropped.
Fairness ==
    /\ SF_vars(Tick)
    /\ WF_vars(RpcdTimeout)
    /\ \A h \in Conns : WF_vars(Handle(h)) /\ WF_vars(DropReply(h))
    /\ \A s \in Sessions : SF_vars(Proceed(s))

FairSpec == Spec /\ Fairness

-----------------------------------------------------------------------------
(* Properties.                                                             *)

\* Between trials the device runs what was last confirmed or committed, and
\* during one the rollback would restore exactly that, whatever the handlers
\* of other sessions do in between.
SettledConfig ==
    IF Pending THEN snapshot = kept ELSE running = kept

\* rpcd keeps an apply only for a request that presents a token generated for
\* an apply of the same session, however late its handler runs.
ConfirmedByOwnSession ==
    \A id \in Ids : confirmedBy[id] # 0 => owner[confirmedBy[id]] = owner[id]

\* A page that says "Configuration changes applied." of a checked apply tells
\* the truth: the apply was kept.  rpcd's timer starts with the apply, the
\* token's time when it is recorded, and the page's deadline only with the
\* answer, so in the last MaxLag ticks of its deadline the page may be wrong;
\* before them it never is.
AppliedInTime ==
    [][\A s \in Sessions :
         page[s].dialog = "confirming" /\ page'[s].dialog = "applied"
           /\ page[s].checked /\ page[s].deadline > MaxLag
         => outcome[page[s].auth] = "kept"]_vars

\* A page says that the changes were rolled back only when the trial of its
\* apply is over, one way or the other.
RolledBackMeansOver ==
    \A s \in Sessions :
      page[s].dialog = "rolledback"
        => outcome[page[s].auth] \in {"kept", "reverted"}

\* A page that waits for a confirmation comes to a verdict.
VerdictReached ==
    \A s \in Sessions :
      page[s].dialog \in {"confirming", "rollback"}
        ~> page[s].dialog \notin {"confirming", "rollback"}

\* The system implements the promise of KeepOrRevert.
Promise == INSTANCE KeepOrRevert WITH
    Configuration <- Config, onTrial <- Pending

\* In particular every trial ends: an apply that nobody confirms is rolled back.
KeepsPromise == Promise!Spec
=============================================================================
