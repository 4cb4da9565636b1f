----------------------------- MODULE TunnelClient -----------------------------
(***************************************************************************)
(* The tunnel of runtime.py, during the life of one client: a supervisor   *)
(* keeps a gateway session open and opens a new one when it is lost, the   *)
(* switch of switch.py restarts it in another access mode, and unloading   *)
(* the config entry stops it for good.  A session carries requests to Home *)
(* Assistant, as one exchange or as a stream, each run by a handler task.  *)
(*                                                                         *)
(* Tasks share one event loop: an action is what runs between two awaits.  *)
(* Only what the teardown of a session finds in the middle is kept of a    *)
(* request; its contents are abstracted away.                              *)
(***************************************************************************)
EXTENDS Naturals, Sequences

CONSTANTS
  Request,      \* requests the gateway sends, each once
  Stream,       \* those that are streams; the others are one exchange
  MaxSessions,  \* bounds: sessions the gateway accepts and
  MaxToggles    \*   uses of the switch

ASSUME TunnelAssumption ==
  /\ Stream \subseteq Request
  /\ {MaxSessions, MaxToggles} \subseteq Nat

VARIABLES
  option,    \* the remote-control option stored in the config entry
  gate,      \* the client's remote_admin_enabled
  waiting,   \* the toggles that wait for the access-mode lock
  toggle,    \* the lock's holder: "none", or "stopping" the session
  unload,    \* async_stop: "no", "stopping" (_closed is set), "done"
  main,      \* the supervisor
  ws,        \* the current session, 0 for none
  mode,      \* whether the handshake under way or done allows remote control
  reported,  \* an authentication failure was reported
  phase,     \* what each request's task is doing
  streams,   \* the registered streams
  cancelled, \* the handlers that were cancelled and have not ended
  local,     \* the local connection of each request: "none", "open", "closed"
  \* observation
  sessions,  \* sessions so far
  session,   \* the session a request came on
  strayed,   \* requests of which a message went to another session
  givenUp,   \* requests whose caller sent stream_close
  aborted,   \* requests that a teardown cut off while Home Assistant ran them
  reauths,   \* reauthentication flows that were asked for
  toggles    \* bound

accessVars == <<option, gate, waiting, toggle, toggles>>
authVars == <<reported, reauths>>
requestVars == <<phase, streams, cancelled, local, session, strayed, givenUp, aborted>>
vars == <<accessVars, authVars, requestVars, unload, main, ws, mode, sessions>>

Handling == {"connecting", "awaiting", "answering"}
Handlers == {r \in Request : phase[r] \in Handling}
closed == unload # "no"
stopping == toggle = "stopping" \/ closed

Init ==
  /\ option \in BOOLEAN /\ gate = option /\ mode = gate
  /\ waiting = <<>> /\ toggle = "none" /\ toggles = 0
  /\ unload = "no" /\ main = "connecting" /\ ws = 0 /\ sessions = 0
  /\ reported = FALSE /\ reauths = 0
  /\ phase = [r \in Request |-> "new"] /\ streams = {} /\ cancelled = {}
  /\ local = [r \in Request |-> "none"] /\ session = [r \in Request |-> 0]
  /\ strayed = {} /\ givenUp = {} /\ aborted = {}

----------------------------------------------------------------------------
(* Helpers *)

(* _send: on the session that is open now, if one is. *)
Replying(r) == strayed' = IF ws \in {0, session[r]} THEN strayed ELSE strayed \cup {r}

(* _close_all_streams: registered streams are popped, their connections are *)
(* closed and their reader tasks end without a word, for there is no session. *)
CloseAllStreams ==
  /\ streams' = {}
  /\ local' = [r \in Request |-> IF r \in streams THEN "closed" ELSE local[r]]
  /\ phase' = [r \in Request |-> IF r \in streams /\ phase[r] = "copying" THEN "done"
                                 ELSE phase[r]]
  /\ aborted' = aborted \cup {r \in streams : phase[r] = "awaiting"}
  /\ UNCHANGED <<cancelled, session, strayed, givenUp>>

(* async_start, with the access mode as it is now. *)
Starting == main' = "connecting" /\ mode' = gate /\ UNCHANGED <<ws, sessions>>

----------------------------------------------------------------------------
(* The supervisor: _run_forever and _run_once *)

Connected ==
  /\ main = "connecting" /\ sessions < MaxSessions
  /\ main' = "open" /\ sessions' = sessions + 1 /\ ws' = sessions + 1
  /\ reported' = FALSE
  /\ UNCHANGED <<accessVars, reauths, requestVars, unload, mode>>

(* Mutant: every rejection asks for a new reauthentication. *)
RejectedAgain ==
  /\ main = "connecting" /\ main' = "rejected"
  /\ reported' = TRUE /\ reauths' = reauths + 1
  /\ UNCHANGED <<accessVars, requestVars, unload, ws, mode, sessions>>

(* The gateway refuses the credential: the supervisor ends. *)
Rejected ==
  /\ main = "connecting"
  /\ main' = "rejected"
  /\ reported' = TRUE
  /\ reauths' = IF reported THEN reauths ELSE reauths + 1
  /\ UNCHANGED <<accessVars, requestVars, unload, ws, mode, sessions>>

ConnectFails ==
  /\ main = "connecting" /\ main' = "backoff"
  /\ UNCHANGED <<accessVars, authVars, requestVars, unload, ws, mode, sessions>>

BackoffEnds ==
  /\ main = "backoff" /\ Starting
  /\ UNCHANGED <<accessVars, authVars, requestVars, unload>>

(* The gateway closes, an error ends the receiver, or a heartbeat fails: the *)
(* session is no longer current and its handlers are cancelled.              *)
SessionLost ==
  /\ main = "open"
  /\ main' = "closing" /\ ws' = 0 /\ cancelled' = Handlers
  /\ UNCHANGED <<accessVars, authVars, unload, mode, sessions, phase, streams, local,
                 session, strayed, givenUp, aborted>>

(* Mutant: the streams are closed but the handlers are not awaited. *)
SessionClosedEarly ==
  /\ main = "closing"
  /\ main' = IF stopping THEN "none" ELSE "backoff"
  /\ CloseAllStreams
  /\ UNCHANGED <<accessVars, authVars, unload, ws, mode, sessions>>

(* The handlers have ended; the streams follow. *)
SessionClosed ==
  /\ main = "closing" /\ cancelled = {}
  /\ main' = IF stopping THEN "none" ELSE "backoff"
  /\ CloseAllStreams
  /\ UNCHANGED <<accessVars, authVars, unload, ws, mode, sessions>>

----------------------------------------------------------------------------
(* Stopping a session, for a toggle or for good: _async_stop_session *)

(* The handlers and the supervisor are cancelled.  That ends the supervisor  *)
(* where it is; an open session is torn down first, and a teardown under way *)
(* is cut short.                                                             *)
StopSession ==
  /\ cancelled' = Handlers
  /\ main' = IF main = "open" THEN "closing"
             ELSE IF main = "rejected" THEN "rejected" ELSE "none"
  /\ ws' = 0
  /\ UNCHANGED <<authVars, mode, sessions, phase, streams, local, session, strayed,
                 givenUp, aborted>>

(* Mutant: a supervisor that has ended already is waited for. *)
StoppedUnlessRejected == main = "none" /\ cancelled = {}

(* What was cancelled has ended. *)
Stopped == main \in {"none", "rejected"} /\ cancelled = {}

(* Mutant: a toggle is dropped when the client has that mode at the time. *)
ToggleComparedEarly(enabled) ==
  /\ ~closed /\ toggles < MaxToggles
  /\ toggles' = toggles + 1
  /\ option' = enabled
  /\ waiting' = IF gate = enabled THEN waiting ELSE Append(waiting, enabled)
  /\ UNCHANGED <<gate, toggle, authVars, requestVars, unload, main, ws, mode, sessions>>

(* _async_set_enabled of switch.py: the option is stored and a detached task *)
(* queues for the lock.  The entity is gone once the entry is unloading.     *)
Toggle(enabled) ==
  /\ ~closed /\ toggles < MaxToggles
  /\ toggles' = toggles + 1
  /\ option' = enabled
  /\ waiting' = Append(waiting, enabled)
  /\ UNCHANGED <<gate, toggle, authVars, requestVars, unload, main, ws, mode, sessions>>

(* Mutant: the session is kept when the mode changes. *)
ApplyInPlace ==
  /\ toggle = "none" /\ waiting # <<>>
  /\ waiting' = Tail(waiting) /\ gate' = Head(waiting)
  /\ UNCHANGED <<toggle, option, toggles, authVars, requestVars, unload, main, ws, mode,
                 sessions>>

(* _apply_remote_admin takes the lock and compares. *)
Apply ==
  /\ toggle = "none" /\ waiting # <<>>
  /\ waiting' = Tail(waiting) /\ gate' = Head(waiting)
  /\ \/ /\ gate = Head(waiting)
        /\ UNCHANGED <<toggle, authVars, requestVars, main, ws, mode, sessions>>
     \/ gate # Head(waiting) /\ toggle' = "stopping" /\ StopSession
  /\ UNCHANGED <<option, toggles, unload>>

(* Mutant: the task that restarts the tunnel is lost with its caller. *)
RestartLost ==
  /\ toggle = "stopping" /\ Stopped
  /\ toggle' = "none" /\ CloseAllStreams
  /\ main' = "none" /\ UNCHANGED <<ws, mode, sessions>>
  /\ UNCHANGED <<option, gate, waiting, toggles, authVars, unload>>

(* Mutant: the client starts although it was closed meanwhile. *)
RestartWhenClosed ==
  /\ toggle = "stopping" /\ Stopped
  /\ toggle' = "none" /\ CloseAllStreams /\ Starting
  /\ UNCHANGED <<option, gate, waiting, toggles, authVars, unload>>

(* The toggle starts the next session, unless the client was closed. *)
Restart ==
  /\ toggle = "stopping" /\ Stopped
  /\ toggle' = "none"
  /\ CloseAllStreams
  /\ IF closed THEN main' = "none" /\ UNCHANGED <<ws, mode, sessions>> ELSE Starting
  /\ UNCHANGED <<option, gate, waiting, toggles, authVars, unload>>

(* The entry is unloaded, perhaps to be reloaded with another client. *)
Unload ==
  /\ unload = "no" /\ unload' = "stopping"
  /\ StopSession
  /\ UNCHANGED accessVars

Unloaded ==
  /\ unload = "stopping" /\ Stopped
  /\ unload' = "done" /\ main' = "none"
  /\ CloseAllStreams
  /\ UNCHANGED <<accessVars, authVars, ws, mode, sessions>>

----------------------------------------------------------------------------
(* Requests *)

others == <<accessVars, authVars, unload, main, ws, mode, sessions>>

Moves(r, to) == phase' = [phase EXCEPT ![r] = to]

Popped(r) ==
  /\ streams' = streams \ {r}
  /\ local' = [local EXCEPT ![r] = IF @ = "open" THEN "closed" ELSE @]

(* The receiver hands a request to a handler, or it is answered at once: the *)
(* gate is closed, it would reload this entry, or too many streams are open. *)
Open(r) ==
  /\ ws # 0 /\ phase[r] = "new"
  /\ session' = [session EXCEPT ![r] = ws]
  /\ \/ gate /\ Moves(r, "connecting")
     \/ Moves(r, "done")
  /\ UNCHANGED <<others, streams, cancelled, local, strayed, givenUp, aborted>>

(* A stream is registered once its connection is open; an exchange starts *)
(* when one of the eight slots is free.                                   *)
Sent(r) ==
  /\ phase[r] = "connecting" /\ r \notin cancelled
  /\ Moves(r, "awaiting")
  /\ streams' = streams \cup ({r} \cap Stream)
  /\ local' = [local EXCEPT ![r] = "open"]
  /\ UNCHANGED <<others, cancelled, session, strayed, givenUp, aborted>>

(* Home Assistant answers: an exchange is over then, a stream begins. *)
Answered(r) ==
  /\ phase[r] = "awaiting" /\ local[r] = "open" /\ r \notin cancelled
  /\ Moves(r, "answering")
  /\ local' = [local EXCEPT ![r] = IF r \in Stream THEN "open" ELSE "closed"]
  /\ UNCHANGED <<others, streams, cancelled, session, strayed, givenUp, aborted>>

(* The answer is sent.  A stream whose connection was closed meanwhile finds *)
(* nothing to copy.                                                          *)
Accepted(r) ==
  /\ phase[r] = "answering" /\ r \notin cancelled
  /\ Moves(r, IF r \in streams THEN "copying" ELSE "done")
  /\ Replying(r)
  /\ UNCHANGED <<others, streams, cancelled, local, session, givenUp, aborted>>

(* No connection, a timeout or an invalid answer: 502. *)
Failed(r) ==
  /\ phase[r] \in {"connecting", "awaiting"} /\ r \notin cancelled
  /\ Moves(r, "done") /\ Popped(r) /\ Replying(r)
  /\ UNCHANGED <<others, cancelled, session, givenUp, aborted>>

(* Mutant: a cancelled handler closes the connection in any case. *)
CancelledAborts(r) ==
  /\ r \in cancelled /\ cancelled' = cancelled \ {r}
  /\ Popped(r) /\ Moves(r, "done")
  /\ aborted' = aborted \cup {x \in {r} : phase[x] = "awaiting"}
  /\ UNCHANGED <<others, session, strayed, givenUp>>

(* Mutant: a cancelled handler does not close its connection. *)
CancelledLeaks(r) ==
  /\ r \in cancelled /\ cancelled' = cancelled \ {r}
  /\ streams' = streams \ {r}
  /\ Moves(r, IF phase[r] = "awaiting" /\ local[r] = "open" THEN "detached" ELSE "done")
  /\ UNCHANGED <<others, local, session, strayed, givenUp, aborted>>

(* A cancelled handler ends.  What Home Assistant already works on goes on *)
(* in a detached task: the exchange, or a stream without its answer.       *)
Cancelled(r) ==
  /\ r \in cancelled
  /\ cancelled' = cancelled \ {r}
  /\ IF phase[r] = "awaiting" /\ local[r] = "open"
       THEN streams' = streams \ {r} /\ Moves(r, "detached") /\ UNCHANGED local
       ELSE Popped(r) /\ Moves(r, "done")
  /\ UNCHANGED <<others, session, strayed, givenUp, aborted>>

Drained(r) ==
  /\ phase[r] = "detached"
  /\ Moves(r, "done")
  /\ local' = [local EXCEPT ![r] = "closed"]
  /\ UNCHANGED <<others, streams, cancelled, session, strayed, givenUp, aborted>>

(* Mutant: the copy leaves its stream registered. *)
CopyEndsRegistered(r) ==
  /\ phase[r] = "copying"
  /\ Moves(r, "closing")
  /\ local' = [local EXCEPT ![r] = "closed"]
  /\ UNCHANGED <<others, streams, cancelled, session, strayed, givenUp, aborted>>

(* The body ends or fails: the copy closes the connection, which may take *)
(* five seconds, and then tells the gateway.                              *)
CopyEnds(r) ==
  /\ phase[r] = "copying"
  /\ Moves(r, "closing") /\ Popped(r)
  /\ UNCHANGED <<others, cancelled, session, strayed, givenUp, aborted>>

CopyCloses(r) ==
  /\ phase[r] = "closing"
  /\ Moves(r, "done") /\ Replying(r)
  /\ UNCHANGED <<others, streams, cancelled, local, session, givenUp, aborted>>

(* The receiver closes a stream: its caller gave up, or data for it could *)
(* not be written.  A stream that is not registered is not known to it.   *)
ReceiverCloses(r) ==
  /\ ws # 0 /\ ws = session[r] /\ r \in Stream
  /\ \/ phase[r] # "done" /\ givenUp' = givenUp \cup {r}
     \/ r \in streams /\ UNCHANGED givenUp
  /\ IF r \in streams
       THEN /\ Popped(r)
            /\ Moves(r, IF phase[r] = "copying" THEN "done" ELSE phase[r])
            /\ Replying(r)
       ELSE UNCHANGED <<streams, local, phase, strayed>>
  /\ UNCHANGED <<others, cancelled, session, aborted>>

----------------------------------------------------------------------------
Teardown == SessionClosed \/ Restart \/ Unloaded

Ending(r) == Cancelled(r) \/ Drained(r) \/ CopyCloses(r)

Serving(r) ==
  \/ Open(r) \/ Sent(r) \/ Answered(r) \/ Accepted(r) \/ Failed(r)
  \/ CopyEnds(r) \/ ReceiverCloses(r)

Next ==
  \/ Connected \/ Rejected \/ ConnectFails \/ BackoffEnds \/ SessionLost
  \/ Teardown \/ Apply \/ Unload
  \/ \E enabled \in BOOLEAN : Toggle(enabled)
  \/ \E r \in Request : Serving(r) \/ Ending(r)

Spec == Init /\ [][Next]_vars

(* What was cancelled ends, a detached task and a closing connection have a *)
(* timeout, and the event loop runs whoever may go on.  Nothing is assumed  *)
(* of the gateway, of Home Assistant's answers or of the user.              *)
FairSpec ==
  /\ Spec
  /\ WF_vars(SessionClosed) /\ WF_vars(Restart) /\ WF_vars(Unloaded) /\ WF_vars(Apply)
  /\ \A r \in Request : WF_vars(Ending(r))
----------------------------------------------------------------------------
(* Properties *)

(* Every variable has its type, and the registered streams are exactly those *)
(* whose connection is open for a task of the session: one that was closed   *)
(* or left to a detached task is registered no more, and no other is lost.   *)
TypeOK ==
  /\ option \in BOOLEAN /\ gate \in BOOLEAN /\ mode \in BOOLEAN /\ reported \in BOOLEAN
  /\ waiting \in Seq(BOOLEAN) /\ toggle \in {"none", "stopping"}
  /\ unload \in {"no", "stopping", "done"}
  /\ main \in {"none", "connecting", "open", "closing", "backoff", "rejected"}
  /\ sessions \in 0 .. MaxSessions /\ ws \in {0, sessions}
  /\ phase \in [Request -> Handling \cup {"new", "copying", "closing", "detached", "done"}]
  /\ local \in [Request -> {"none", "open", "closed"}]
  /\ streams = {r \in Stream : /\ local[r] = "open"
                               /\ phase[r] \in {"awaiting", "answering", "copying"}}
  /\ cancelled \subseteq Handlers
  /\ session \in [Request -> 0 .. MaxSessions]
  /\ strayed \subseteq Request /\ givenUp \subseteq Stream /\ aborted \subseteq Request
  /\ reauths \in Nat /\ toggles \in 0 .. MaxToggles

Quiet == toggle = "none" /\ waiting = <<>>

(* However the switch is used while earlier uses are applied, the client ends *)
(* in the mode that the config entry stores: a restart changes nothing.       *)
GateFollowsOption == Quiet => gate = option

(* While remote control is off nothing of the gateway's is served: no handler *)
(* and no stream is left, and the session was opened without remote control.  *)
DisabledServesNothing ==
  ~gate /\ toggle = "none" /\ ~closed =>
    /\ Handlers = {} /\ streams = {}
    /\ main \in {"connecting", "open"} => ~mode

(* Once it is unloaded the client neither connects nor serves again, whatever *)
(* toggles and tasks were still under way.                                    *)
UnloadedStaysSilent ==
  unload = "done" => /\ main = "none" /\ ws = 0
                     /\ Handlers = {} /\ streams = {}

(* A toggle never leaves the tunnel stopped: until it is unloaded, a client  *)
(* has a supervisor, unless its credential was rejected.                     *)
SupervisorLives == toggle = "none" /\ ~closed => main # "none"

(* Handlers and streams belong to the current session: those of an earlier   *)
(* one have ended before the next one is opened.                             *)
OwnSessionOnly ==
  ws # 0 => \A r \in Handlers \cup streams : session[r] = ws

(* The end of a session, whatever ends it, never cuts off a request that     *)
(* Home Assistant is working on.                                             *)
LocalWorkGoesOn == aborted = {}

(* A user is asked for new credentials at most once for each session that    *)
(* the gateway accepted, and once more.                                      *)
ReauthOncePerSession == reauths <= sessions + 1

(* The gate catches up with the stored option unless the entry is unloaded.  *)
OptionApplied == option # gate ~> option = gate \/ closed

(* The local connection of a request is closed after its session has ended.  *)
ConnectionsReleased ==
  \A r \in Request : local[r] = "open" /\ session[r] # ws ~> local[r] = "closed"

(* runtime.py:341-342: an old request must never reply on a new session.     *)
RepliesStayOnSession == strayed = {}

(* runtime.py:725-726: a caller that gives up sends stream_close, which      *)
(* still aborts the request.                                                 *)
GivingUpAborts == \A r \in givenUp : local[r] # "open"
=============================================================================
