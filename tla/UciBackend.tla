----------------------------- MODULE UciBackend -----------------------------
(***************************************************************************)
(* The rpcd "uci" object as src/usr/share/ucode/luci/controller/admin/     *)
(* uci.uc and src/resources/ui.js use it.  rpcd itself is a binary, so     *)
(* this module is external: every operator below is one ubus call of       *)
(* uci.uc, with the status codes uci.uc tells apart (ubus_error_map).      *)
(*                                                                         *)
(* A configuration is a version number per config file.  Version 0 in a    *)
(* staging area means "no staged change".                                  *)
(***************************************************************************)
EXTENDS Naturals

CONSTANTS Sessions,   \* LuCI login sessions (ubus_rpc_session)
          NoSession,  \* "no session": no apply is waiting for a confirmation
          Configs,    \* config files under /etc/config
          MaxEdits    \* bound: number of staged edits in one behaviour

ASSUME NoSessionAssumption == NoSession \notin Sessions
ASSUME MaxEditsAssumption == MaxEdits \in Nat

VARIABLES running,    \* the committed configuration the services run with
          staged,     \* per session: uncommitted changes
          applySid,   \* session of the apply that waits for its confirmation
          snapshot,   \* configuration to restore when it is not confirmed
          delta,      \* the changes that apply took out of the staging area
          timer,      \* ticks until rpcd rolls the pending apply back
          edits       \* history: number of edits so far (the last version)

backendVars == <<running, staged, applySid, snapshot, delta, timer, edits>>

Version == 0..MaxEdits
Config == [Configs -> Version]
NoChanges == [c \in Configs |-> 0]

Pending == applySid # NoSession

\* Changes laid over a configuration.
Overlay(base, changes) ==
    [c \in Configs |-> IF changes[c] # 0 THEN changes[c] ELSE base[c]]

BackendTypeOK ==
    /\ running \in Config
    /\ staged \in [Sessions -> Config]
    /\ applySid \in Sessions \cup {NoSession}
    /\ snapshot \in Config
    /\ delta \in Config
    /\ timer \in Nat
    /\ edits \in 0..MaxEdits

BackendInit ==
    /\ running = NoChanges
    /\ staged = [s \in Sessions |-> NoChanges]
    /\ applySid = NoSession
    /\ snapshot = NoChanges
    /\ delta = NoChanges
    /\ timer = 0
    /\ edits = 0

\* "uci set" through rpcd: session s stages a new value for file c.
Stage(s, c) ==
    /\ edits < MaxEdits
    /\ edits' = edits + 1
    /\ staged' = [staged EXCEPT ![s][c] = edits + 1]
    /\ UNCHANGED <<running, applySid, snapshot, delta, timer>>

\* Status of "uci apply" with rollback: only one apply may be pending.
ApplyStatus(s) ==
    IF Pending THEN 403 ELSE IF staged[s] = NoChanges THEN 204 ELSE 200

\* A successful "uci apply" with rollback: snapshot, apply, arm the timer.
StartApply(s, timeout) ==
    /\ ApplyStatus(s) = 200
    /\ snapshot' = running
    /\ delta' = staged[s]
    /\ running' = Overlay(running, staged[s])
    /\ staged' = [staged EXCEPT ![s] = NoChanges]
    /\ applySid' = s
    /\ timer' = timeout
    /\ UNCHANGED edits

\* Status of "uci confirm" for session s.
ConfirmStatus(s) ==
    IF ~Pending THEN 204 ELSE IF applySid # s THEN 403 ELSE 200

\* The end of a trial: no timer, no snapshot.
EndTrial ==
    /\ applySid' = NoSession
    /\ snapshot' = NoChanges
    /\ delta' = NoChanges
    /\ timer' = 0

\* A successful "uci confirm".
KeepApply(s) ==
    /\ ConfirmStatus(s) = 200
    /\ EndTrial
    /\ UNCHANGED <<running, staged, edits>>

\* The timer of the pending apply has run out: restore the files, and give the
\* session its changes back (ui.js tells the user to edit, revert or reapply).
RestoreSnapshot ==
    /\ Pending
    /\ timer = 0
    /\ running' = snapshot
    /\ staged' = [staged EXCEPT ![applySid] = Overlay(@, delta)]
    /\ EndTrial
    /\ UNCHANGED edits

\* Status of "uci commit" and "uci revert": refused while an apply is pending.
CommitStatus == IF Pending THEN 403 ELSE 200

\* A successful "uci commit" of one file.
CommitFile(s, c) ==
    /\ CommitStatus = 200
    /\ running' = IF staged[s][c] # 0
                  THEN [running EXCEPT ![c] = staged[s][c]] ELSE running
    /\ staged' = [staged EXCEPT ![s][c] = 0]
    /\ UNCHANGED <<applySid, snapshot, delta, timer, edits>>

\* A successful "uci revert" of one file.
RevertFile(s, c) ==
    /\ CommitStatus = 200
    /\ staged' = [staged EXCEPT ![s][c] = 0]
    /\ UNCHANGED <<running, applySid, snapshot, delta, timer, edits>>

\* Status of "uci apply" without rollback, and its effect when it succeeds.
PlainApplyStatus(s) ==
    IF Pending THEN 403 ELSE IF staged[s] = NoChanges THEN 204 ELSE 200

PlainApply(s) ==
    /\ PlainApplyStatus(s) = 200
    /\ running' = Overlay(running, staged[s])
    /\ staged' = [staged EXCEPT ![s] = NoChanges]
    /\ UNCHANGED <<applySid, snapshot, delta, timer, edits>>
=============================================================================
