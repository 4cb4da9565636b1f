-------------------------- MODULE TunnelClient_proofs --------------------------
(***************************************************************************)
(* Proofs about TunnelClient for any requests, sessions and toggles.  The  *)
(* inductive invariant has four parts: the types, the queue of toggles,    *)
(* the session with the requests it carries, and the reauthentications.    *)
(***************************************************************************)
EXTENDS TunnelClient, SequenceTheorems, TLAPS

Busy == Handlers \cup streams
stoppingNow == toggle = "stopping" \/ unload = "stopping"

(* The last use of the switch is the stored option and has yet to be applied. *)
QueueInv ==
  /\ waiting = <<>> => gate = option
  /\ waiting # <<>> => waiting[Len(waiting)] = option

(* Requests are served within a session, or until the teardown that follows. *)
SessionInv ==
  /\ main = "open" <=> ws # 0
  /\ ws = 0 => Handlers = cancelled
  /\ ws # 0 => cancelled = {} /\ \A r \in Busy : session[r] = ws
  /\ Busy # {} => main \in {"open", "closing"} \/ stoppingNow
  /\ stoppingNow => main \in {"none", "rejected", "closing"}
  /\ unload = "done" => main = "none" /\ Busy = {}
  /\ aborted = {}

(* Outside a restart the supervisor runs, and in the mode of the gate. *)
ModeInv ==
  /\ toggle = "none" /\ ~closed => main # "none"
  /\ main \in {"connecting", "open"} => mode = gate
  /\ toggle = "none" /\ ~closed /\ Busy # {} => gate

ReauthInv == reauths <= sessions + (IF reported THEN 1 ELSE 0)

(* The inductive invariant. *)
IInv == TypeOK /\ QueueInv /\ SessionInv /\ ModeInv /\ ReauthInv
----------------------------------------------------------------------------
(* Every step preserves the types. *)
LEMMA TypeStep == IInv /\ [Next]_vars => TypeOK'
<1> SUFFICES ASSUME IInv, [Next]_vars PROVE TypeOK'
  OBVIOUS
<1> USE TunnelAssumption DEF IInv, TypeOK, Handlers, Handling,
       accessVars, authVars, requestVars, others
<1>1. CASE Connected
  <2>1. MaxSessions \in Nat /\ sessions \in 0 .. MaxSessions /\ sessions < MaxSessions
    BY <1>1 DEF Connected
  <2>2. sessions + 1 \in 0 .. MaxSessions
    BY <2>1
  <2>3. sessions' \in 0 .. MaxSessions /\ ws' \in {0, sessions'}
    BY <1>1, <2>2 DEF Connected
  <2> QED
    BY <1>1, <2>3 DEF Connected
<1>2. CASE Rejected
  BY <1>2 DEF Rejected
<1>3. CASE ConnectFails
  BY <1>3 DEF ConnectFails
<1>4. CASE BackoffEnds
  BY <1>4 DEF BackoffEnds, Starting
<1>5. CASE SessionLost
  BY <1>5 DEF SessionLost
<1>6. CASE SessionClosed
  BY <1>6 DEF SessionClosed, CloseAllStreams
<1>7. CASE Restart
  BY <1>7 DEF Restart, CloseAllStreams, Starting, Stopped
<1>8. CASE Unloaded
  BY <1>8 DEF Unloaded, CloseAllStreams, Stopped
<1>9. CASE Apply
  BY <1>9 DEF Apply, StopSession
<1>10. CASE Unload
  BY <1>10 DEF Unload, StopSession
<1>11. CASE \E enabled \in BOOLEAN : Toggle(enabled)
  BY <1>11 DEF Toggle
<1>12. ASSUME NEW r \in Request, Open(r) PROVE TypeOK'
  BY <1>12 DEF Open, Moves
<1>13. ASSUME NEW r \in Request, Sent(r) PROVE TypeOK'
  BY <1>13 DEF Sent, Moves
<1>14. ASSUME NEW r \in Request, Answered(r) PROVE TypeOK'
  BY <1>14 DEF Answered, Moves
<1>15. ASSUME NEW r \in Request, Accepted(r) PROVE TypeOK'
  BY <1>15 DEF Accepted, Moves, Replying
<1>16. ASSUME NEW r \in Request, Failed(r) PROVE TypeOK'
  BY <1>16 DEF Failed, Moves, Popped, Replying
<1>17. ASSUME NEW r \in Request, CopyEnds(r) PROVE TypeOK'
  BY <1>17 DEF CopyEnds, Moves, Popped
<1>18. ASSUME NEW r \in Request, ReceiverCloses(r) PROVE TypeOK'
  BY <1>18 DEF ReceiverCloses, Moves, Popped, Replying
<1>19. ASSUME NEW r \in Request, Cancelled(r) PROVE TypeOK'
  <2>1. CASE phase[r] = "awaiting" /\ local[r] = "open"
    BY <1>19, <2>1 DEF Cancelled, Moves
  <2>2. CASE ~(phase[r] = "awaiting" /\ local[r] = "open")
    <3>1. /\ local'[r] # "open" /\ phase'[r] = "done"
          /\ \A x \in Request : x # r => local'[x] = local[x] /\ phase'[x] = phase[x]
          /\ streams' = streams \ {r} /\ cancelled' = cancelled \ {r}
      BY <1>19, <2>2 DEF Cancelled, Moves, Popped
    <3>2. streams' = {x \in Stream : /\ local'[x] = "open"
                                     /\ phase'[x] \in {"awaiting", "answering", "copying"}}
      BY <3>1
    <3>3. cancelled' \subseteq Handlers'
      BY <3>1
    <3> QED
      BY <1>19, <2>2, <3>2, <3>3 DEF Cancelled, Moves, Popped
  <2> QED
    BY <2>1, <2>2
<1>20. ASSUME NEW r \in Request, Drained(r) PROVE TypeOK'
  BY <1>20 DEF Drained, Moves
<1>21. ASSUME NEW r \in Request, CopyCloses(r) PROVE TypeOK'
  BY <1>21 DEF CopyCloses, Moves, Replying
<1>22. CASE UNCHANGED vars
  BY <1>22 DEF vars
<1> QED
  BY <1>1, <1>2, <1>3, <1>4, <1>5, <1>6, <1>7, <1>8, <1>9, <1>10, <1>11,
     <1>12, <1>13, <1>14, <1>15, <1>16, <1>17, <1>18, <1>19, <1>20, <1>21, <1>22
  DEF Next, Teardown, Serving, Ending

(* A toggle that is taken from the queue was the last, or leaves the last. *)
LEMMA TailEnds ==
  ASSUME NEW q \in Seq(BOOLEAN), q # <<>>
  PROVE  /\ Tail(q) = <<>> => Head(q) = q[Len(q)]
         /\ Tail(q) # <<>> => Tail(q)[Len(Tail(q))] = q[Len(q)]
<1>1. Len(q) \in Nat /\ Len(q) > 0
  BY EmptySeq
<1>2. /\ Tail(q) \in Seq(BOOLEAN) /\ Len(Tail(q)) = Len(q) - 1
      /\ \A i \in 1 .. Len(q) - 1 : Tail(q)[i] = q[i + 1]
  BY <1>1, HeadTailProperties
<1>3. Tail(q) = <<>> <=> Len(q) = 1
  BY <1>1, <1>2, EmptySeq
<1>4. CASE Len(q) = 1
  BY <1>3, <1>4, HeadTailProperties
<1>5. CASE Len(q) # 1
  BY <1>1, <1>2, <1>3, <1>5
<1> QED
  BY <1>4, <1>5

(* Requests leave the rest of the client alone. *)
LEMMA RequestStep == (\E r \in Request : Serving(r) \/ Ending(r)) => UNCHANGED others
<1> SUFFICES ASSUME NEW r \in Request, Serving(r) \/ Ending(r) PROVE UNCHANGED others
  OBVIOUS
<1>1. CASE Serving(r)
  BY <1>1 DEF Serving, Open, Sent, Answered, Accepted, Failed, CopyEnds,
     ReceiverCloses
<1>2. CASE Ending(r)
  BY <1>2 DEF Ending, Cancelled, Drained, CopyCloses
<1> QED
  BY <1>1, <1>2

(* A toggle is queued with the option it stored, and applied in that order;  *)
(* nothing else changes the option, the gate or the queue.                   *)
LEMMA QueueStep == IInv /\ [Next]_vars => QueueInv'
<1> SUFFICES ASSUME IInv, [Next]_vars PROVE QueueInv'
  OBVIOUS
<1> DEFINE Untouched == UNCHANGED <<option, gate, waiting>>
<1>1. waiting \in Seq(BOOLEAN) /\ QueueInv
  BY DEF IInv, TypeOK
<1>2. CASE \E enabled \in BOOLEAN : Toggle(enabled)
  BY <1>1, <1>2 DEF QueueInv, Toggle
<1>3. CASE Apply
  <2>1. /\ waiting # <<>> /\ waiting[Len(waiting)] = option
        /\ waiting' = Tail(waiting) /\ gate' = Head(waiting) /\ option' = option
    BY <1>1, <1>3 DEF QueueInv, Apply
  <2> QED
    BY <1>1, <2>1, TailEnds DEF QueueInv
<1>4. CASE Connected \/ Rejected \/ ConnectFails \/ BackoffEnds \/ SessionLost
  <2>1. Untouched
    BY <1>4 DEF Connected, Rejected, ConnectFails, BackoffEnds, SessionLost,
       accessVars
  <2> QED
    BY <1>1, <2>1 DEF QueueInv
<1>5. CASE Teardown \/ Unload
  <2>1. Untouched
    BY <1>5 DEF Teardown, SessionClosed, Restart, Unloaded, Unload, accessVars
  <2> QED
    BY <1>1, <2>1 DEF QueueInv
<1>6. CASE \E r \in Request : Serving(r) \/ Ending(r)
  <2>1. Untouched
    BY <1>6, RequestStep DEF others, accessVars
  <2> QED
    BY <1>1, <2>1 DEF QueueInv
<1>7. CASE UNCHANGED vars
  BY <1>1, <1>7 DEF QueueInv, vars, accessVars
<1> QED
  BY <1>2, <1>3, <1>4, <1>5, <1>6, <1>7 DEF Next

(* With no handler left, closing the streams cuts off none and leaves none. *)
LEMMA CloseAll ==
  TypeOK /\ CloseAllStreams /\ Handlers = {} => Busy' = {} /\ aborted' = aborted
<1> SUFFICES ASSUME TypeOK, CloseAllStreams, Handlers = {}
    PROVE Busy' = {} /\ aborted' = aborted
  OBVIOUS
<1>1. \A r \in Request : phase[r] \notin Handling
  BY DEF Handlers
<1>2. \A r \in Request : phase'[r] \notin Handling
  BY <1>1 DEF CloseAllStreams, Handling
<1>3. Handlers' = {} /\ streams' = {}
  BY <1>2 DEF Handlers, CloseAllStreams
<1>4. {r \in streams : phase[r] = "awaiting"} = {}
  BY <1>1, TunnelAssumption DEF Handling, TypeOK
<1>5. aborted' = aborted
  BY <1>4 DEF CloseAllStreams
<1> QED
  BY <1>3, <1>5 DEF Busy

(* Requests enter a session that is open; closing one leaves only the       *)
(* handlers it cancelled, and the streams are closed when those have ended.  *)
LEMMA SessionStep == IInv /\ [Next]_vars => SessionInv'
<1> SUFFICES ASSUME IInv, [Next]_vars PROVE SessionInv'
  OBVIOUS
<1> USE DEF IInv, TypeOK, SessionInv, stopping, Busy, Handlers, Handling,
       stoppingNow, closed, accessVars, authVars, requestVars, others
<1>1. CASE Connected
  BY <1>1 DEF Connected
<1>2. CASE Rejected
  BY <1>2 DEF Rejected
<1>3. CASE ConnectFails
  BY <1>3 DEF ConnectFails
<1>4. CASE BackoffEnds
  BY <1>4 DEF BackoffEnds, Starting
<1>5. CASE SessionLost
  BY <1>5 DEF SessionLost
<1>6. CASE SessionClosed
  <2>1. ws = 0 /\ ws' = 0 /\ Handlers = {} /\ cancelled' = {}
    BY <1>6 DEF SessionClosed, CloseAllStreams
  <2>2. Busy' = {} /\ aborted' = {}
    BY <1>6, <2>1, CloseAll DEF SessionClosed
  <2> QED
    BY <1>6, <2>1, <2>2 DEF SessionClosed
<1>7. CASE Restart
  <2>1. ws = 0 /\ ws' = 0 /\ Handlers = {} /\ cancelled' = {}
    BY <1>7 DEF Restart, CloseAllStreams, Starting, Stopped
  <2>2. Busy' = {} /\ aborted' = {}
    BY <1>7, <2>1, CloseAll DEF Restart
  <2> QED
    BY <1>7, <2>1, <2>2 DEF Restart, Starting, Stopped
<1>8. CASE Unloaded
  <2>1. ws = 0 /\ ws' = 0 /\ Handlers = {} /\ cancelled' = {}
    BY <1>8 DEF Unloaded, CloseAllStreams, Stopped
  <2>2. Busy' = {} /\ aborted' = {}
    BY <1>8, <2>1, CloseAll DEF Unloaded
  <2> QED
    BY <1>8, <2>1, <2>2 DEF Unloaded, Stopped
<1>9. CASE Apply
  BY <1>9 DEF Apply, StopSession
<1>10. CASE Unload
  BY <1>10 DEF Unload, StopSession
<1>11. CASE \E enabled \in BOOLEAN : Toggle(enabled)
  BY <1>11 DEF Toggle
<1>12. ASSUME NEW r \in Request, Open(r) PROVE SessionInv'
  BY <1>12 DEF Open, Moves
<1>13. ASSUME NEW r \in Request, Sent(r) PROVE SessionInv'
  BY <1>13 DEF Sent, Moves
<1>14. ASSUME NEW r \in Request, Answered(r) PROVE SessionInv'
  BY <1>14 DEF Answered, Moves
<1>15. ASSUME NEW r \in Request, Accepted(r) PROVE SessionInv'
  BY <1>15 DEF Accepted, Moves, Replying
<1>16. ASSUME NEW r \in Request, Failed(r) PROVE SessionInv'
  BY <1>16 DEF Failed, Moves, Popped, Replying
<1>17. ASSUME NEW r \in Request, CopyEnds(r) PROVE SessionInv'
  BY <1>17 DEF CopyEnds, Moves, Popped
<1>18. ASSUME NEW r \in Request, ReceiverCloses(r) PROVE SessionInv'
  BY <1>18 DEF ReceiverCloses, Moves, Popped, Replying
<1>19. ASSUME NEW r \in Request, Cancelled(r) PROVE SessionInv'
  BY <1>19 DEF Cancelled, Moves, Popped
<1>20. ASSUME NEW r \in Request, Drained(r) PROVE SessionInv'
  BY <1>20 DEF Drained, Moves
<1>21. ASSUME NEW r \in Request, CopyCloses(r) PROVE SessionInv'
  BY <1>21 DEF CopyCloses, Moves, Replying
<1>22. CASE UNCHANGED vars
  BY <1>22 DEF vars
<1> QED
  BY <1>1, <1>2, <1>3, <1>4, <1>5, <1>6, <1>7, <1>8, <1>9, <1>10, <1>11,
     <1>12, <1>13, <1>14, <1>15, <1>16, <1>17, <1>18, <1>19, <1>20, <1>21, <1>22
  DEF Next, Teardown, Serving, Ending

(* The gate changes only with the session stopped, and the session that     *)
(* follows is opened in its mode.                                           *)
LEMMA ModeStep == IInv /\ [Next]_vars => ModeInv'
<1> SUFFICES ASSUME IInv, [Next]_vars PROVE ModeInv'
  OBVIOUS
<1> USE DEF IInv, TypeOK, ModeInv, SessionInv, stopping, Busy, Handlers,
       Handling, stoppingNow, closed, accessVars, authVars, requestVars, others
<1>1. CASE Connected
  BY <1>1 DEF Connected
<1>2. CASE Rejected
  BY <1>2 DEF Rejected
<1>3. CASE ConnectFails
  BY <1>3 DEF ConnectFails
<1>4. CASE BackoffEnds
  BY <1>4 DEF BackoffEnds, Starting
<1>5. CASE SessionLost
  BY <1>5 DEF SessionLost
<1>6. CASE SessionClosed
  BY <1>6 DEF SessionClosed, CloseAllStreams
<1>7. CASE Restart
  BY <1>7 DEF Restart, CloseAllStreams, Starting, Stopped
<1>8. CASE Unloaded
  BY <1>8 DEF Unloaded, CloseAllStreams, Stopped
<1>9. CASE Apply
  BY <1>9 DEF Apply, StopSession
<1>10. CASE Unload
  BY <1>10 DEF Unload, StopSession
<1>11. CASE \E enabled \in BOOLEAN : Toggle(enabled)
  BY <1>11 DEF Toggle
<1>12. ASSUME NEW r \in Request, Open(r) PROVE ModeInv'
  BY <1>12 DEF Open, Moves
<1>13. ASSUME NEW r \in Request, Sent(r) PROVE ModeInv'
  BY <1>13 DEF Sent, Moves
<1>14. ASSUME NEW r \in Request, Answered(r) PROVE ModeInv'
  BY <1>14 DEF Answered, Moves
<1>15. ASSUME NEW r \in Request, Accepted(r) PROVE ModeInv'
  BY <1>15 DEF Accepted, Moves, Replying
<1>16. ASSUME NEW r \in Request, Failed(r) PROVE ModeInv'
  BY <1>16 DEF Failed, Moves, Popped, Replying
<1>17. ASSUME NEW r \in Request, CopyEnds(r) PROVE ModeInv'
  BY <1>17 DEF CopyEnds, Moves, Popped
<1>18. ASSUME NEW r \in Request, ReceiverCloses(r) PROVE ModeInv'
  BY <1>18 DEF ReceiverCloses, Moves, Popped, Replying
<1>19. ASSUME NEW r \in Request, Cancelled(r) PROVE ModeInv'
  BY <1>19 DEF Cancelled, Moves, Popped
<1>20. ASSUME NEW r \in Request, Drained(r) PROVE ModeInv'
  BY <1>20 DEF Drained, Moves
<1>21. ASSUME NEW r \in Request, CopyCloses(r) PROVE ModeInv'
  BY <1>21 DEF CopyCloses, Moves, Replying
<1>22. CASE UNCHANGED vars
  BY <1>22 DEF vars
<1> QED
  BY <1>1, <1>2, <1>3, <1>4, <1>5, <1>6, <1>7, <1>8, <1>9, <1>10, <1>11,
     <1>12, <1>13, <1>14, <1>15, <1>16, <1>17, <1>18, <1>19, <1>20, <1>21, <1>22
  DEF Next, Teardown, Serving, Ending

(* A rejection asks for new credentials once, until a session is accepted;   *)
(* nothing else touches the report or counts sessions.                       *)
LEMMA ReauthStep == IInv /\ [Next]_vars => ReauthInv'
<1> SUFFICES ASSUME IInv, [Next]_vars PROVE ReauthInv'
  OBVIOUS
<1> DEFINE Untouched == UNCHANGED <<reported, reauths, sessions>>
<1>1. reauths \in Nat /\ sessions \in Nat /\ ReauthInv
  BY TunnelAssumption DEF IInv, TypeOK
<1>2. CASE Connected
  BY <1>1, <1>2 DEF ReauthInv, Connected, authVars
<1>3. CASE Rejected
  BY <1>1, <1>3 DEF ReauthInv, Rejected
<1>4. CASE ConnectFails \/ BackoffEnds \/ SessionLost
  <2>1. Untouched
    BY <1>4 DEF ConnectFails, BackoffEnds, Starting, SessionLost, authVars
  <2> QED
    BY <1>1, <2>1 DEF ReauthInv
<1>5. CASE Teardown \/ Apply \/ Unload
  <2>1. Untouched
    BY <1>5 DEF Teardown, SessionClosed, Restart, Starting, Unloaded, Apply,
       Unload,
                StopSession, authVars
  <2> QED
    BY <1>1, <2>1 DEF ReauthInv
<1>6. CASE \E enabled \in BOOLEAN : Toggle(enabled)
  <2>1. Untouched
    BY <1>6 DEF Toggle, authVars
  <2> QED
    BY <1>1, <2>1 DEF ReauthInv
<1>7. CASE \E r \in Request : Serving(r) \/ Ending(r)
  <2>1. Untouched
    BY <1>7, RequestStep DEF others, authVars
  <2> QED
    BY <1>1, <2>1 DEF ReauthInv
<1>8. CASE UNCHANGED vars
  BY <1>1, <1>8 DEF ReauthInv, vars, authVars
<1> QED
  BY <1>2, <1>3, <1>4, <1>5, <1>6, <1>7, <1>8 DEF Next

----------------------------------------------------------------------------
LEMMA Initially == Init => IInv
<1> SUFFICES ASSUME Init PROVE IInv
  OBVIOUS
<1>1. Handlers = {} /\ Busy = {}
  BY DEF Init, Busy, Handlers, Handling
<1>2. TypeOK
  <2>1. <<>> \in Seq(BOOLEAN)
    OBVIOUS
  <2>2. 0 \in 0 .. MaxSessions /\ 0 \in 0 .. MaxToggles
    BY TunnelAssumption
  <2>3. waiting \in Seq(BOOLEAN) /\ sessions \in 0 .. MaxSessions /\ toggles \in 0 .. MaxToggles
    BY <2>1, <2>2 DEF Init
  <2>4. session \in [Request -> 0 .. MaxSessions]
    BY <2>2 DEF Init
  <2>5. streams = {r \in Stream : /\ local[r] = "open"
                                  /\ phase[r] \in {"awaiting", "answering", "copying"}}
    BY TunnelAssumption DEF Init, TunnelAssumption
  <2>6. ws \in {0, sessions} /\ toggles \in 0 .. MaxToggles /\ reauths \in Nat
    BY <2>2, TunnelAssumption DEF Init
  <2> QED
    BY <1>1, <2>3, <2>4, <2>5, <2>6 DEF Init, TypeOK, Handling
<1>3. QueueInv /\ SessionInv /\ ModeInv /\ ReauthInv
  BY <1>1 DEF Init, QueueInv, SessionInv, ModeInv, ReauthInv, stoppingNow,
     closed
<1> QED
  BY <1>2, <1>3 DEF IInv

(* The strengthened invariant, on which the theorems below rest. *)
LEMMA Inductive == Spec => []IInv
<1>1. IInv /\ [Next]_vars => IInv'
  BY TypeStep, QueueStep, SessionStep, ModeStep, ReauthStep DEF IInv
<1> QED
  BY Initially, <1>1, PTL DEF Spec

(* Every variable of the tunnel client has its type, and the registered      *)
(* streams are those whose connection is open for a task of the session.     *)
THEOREM TypeCorrect == Spec => []TypeOK
<1>1. IInv => TypeOK
  BY DEF IInv
<1> QED
  BY <1>1, Inductive, PTL

(* However many uses of the switch overtake each other, the gate ends up as   *)
(* the config entry says (_apply_remote_admin).                               *)
THEOREM GateCorrect == Spec => []GateFollowsOption
<1>1. IInv => GateFollowsOption
  BY DEF IInv, GateFollowsOption, QueueInv, Quiet
<1> QED
  BY <1>1, Inductive, PTL

(* With remote control off no handler and no stream is left, for any requests *)
(* and any use of the switch (async_set_remote_admin_enabled).                *)
THEOREM DisabledCorrect == Spec => []DisabledServesNothing
<1>1. IInv => DisabledServesNothing
  BY DEF IInv, DisabledServesNothing, ModeInv, Busy
<1> QED
  BY <1>1, Inductive, PTL

(* After async_stop nothing connects or serves, whatever was under way.       *)
THEOREM UnloadCorrect == Spec => []UnloadedStaysSilent
<1>1. IInv => UnloadedStaysSilent
  BY DEF IInv, UnloadedStaysSilent, SessionInv, Busy
<1> QED
  BY <1>1, Inductive, PTL

(* A toggle never leaves a client without its supervisor.                     *)
THEOREM SupervisorCorrect == Spec => []SupervisorLives
<1>1. IInv => SupervisorLives
  BY DEF IInv, SupervisorLives, ModeInv
<1> QED
  BY <1>1, Inductive, PTL

(* No handler and no stream outlives its session into the next one            *)
(* (the teardown at the end of _run_once).                                    *)
THEOREM SessionsCorrect == Spec => []OwnSessionOnly
<1>1. IInv => OwnSessionOnly
  BY DEF IInv, OwnSessionOnly, SessionInv, Busy
<1> QED
  BY <1>1, Inductive, PTL

(* No teardown cuts off what Home Assistant is working on.                    *)
THEOREM LocalWorkCorrect == Spec => []LocalWorkGoesOn
<1>1. IInv => LocalWorkGoesOn
  BY DEF IInv, LocalWorkGoesOn, SessionInv
<1> QED
  BY <1>1, Inductive, PTL

(* The credential is asked for at most once for each accepted session, and    *)
(* once more (_auth_failure_reported).                                        *)
THEOREM ReauthCorrect == Spec => []ReauthOncePerSession
<1>1. IInv => ReauthOncePerSession
  BY TunnelAssumption DEF IInv, ReauthOncePerSession, ReauthInv, TypeOK
<1> QED
  BY <1>1, Inductive, PTL
=============================================================================
