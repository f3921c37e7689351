---------------------------- MODULE SocketSender ----------------------------
(***************************************************************************)
(* How the socket server's datagrams leave: SocketServer::StartUp, Stop,   *)
(* Send and SendDataHandler (src/cppLib/code/Network/Socket) around one    *)
(* WriteBufferQueue and one ConditionNotifier.                             *)
(*                                                                         *)
(* Send pushes under _sendLock and notifies.  SendDataHandler is a task of *)
(* the thread pool: it looks at the queue ONCE, sends at most one datagram *)
(* and waits once; StartUp submits it before the socket is open, and       *)
(* nothing submits it again.  It takes no lock on the queue, so it is      *)
(* modelled with one step per queue operation, interleaved with Send.      *)
(*                                                                         *)
(* A datagram is never larger than GetMTU() (KcpSession gives its KCP      *)
(* object the same MTU), so one SendTo drains its buffer.                  *)
(***************************************************************************)
EXTENDS WriteBufferQueue

CONSTANTS
    Senders,   \* the threads that call SocketServer::Send
    NoItem

ASSUME SenderAssumption == NoItem \notin Items

VARIABLES
    connected,  \* m_pSocket->Connected()
    notifier,   \* m_pSendNotifier: "none", "live" or "deleted"
    handler,    \* where SendDataHandler is
    front,      \* the buffer SendDataHandler took from Front()
    sender,     \* where each sending thread is in Send
    datagram,   \* the datagram each sending thread sends
    stopper,    \* where the thread that calls Stop is
    sent,       \* history: the datagrams handed to the socket
    failed      \* history: the datagrams Send returned -1 for

vars == <<writeList, activepos, pushed, popped, connected, notifier, handler,
          front, sender, datagram, stopper, sent, failed>>

senderVars == <<sender, datagram>>

SenderInit ==
    /\ Init
    /\ connected = FALSE
    /\ notifier = "none"
    /\ handler = "none"
    /\ front = NoItem
    /\ sender = [c \in Senders |-> "idle"]
    /\ datagram = [c \in Senders |-> NoItem]
    /\ stopper = "idle"
    /\ sent = {}
    /\ failed = {}

-----------------------------------------------------------------------------
(* StartUp: create the notifier, submit the handler, open the socket. *)

CreateNotifier ==
    /\ notifier = "none"
    /\ notifier' = "live"
    /\ UNCHANGED <<queueVars, connected, handler, front, senderVars, stopper, sent, failed>>

AddHandlerTask ==
    /\ notifier = "live"
    /\ handler = "none"
    /\ handler' = "queued"
    /\ UNCHANGED <<queueVars, connected, notifier, front, senderVars, stopper, sent, failed>>

Listen ==
    /\ handler # "none"
    /\ ~connected
    /\ stopper = "idle"
    /\ connected' = TRUE
    /\ UNCHANGED <<queueVars, notifier, handler, front, senderVars, stopper, sent, failed>>

-----------------------------------------------------------------------------
(* Send *)

Unsent == Items \ (pushed \cup failed \cup {datagram[c] : c \in Senders})

\* the unlocked test of Connected()
SendCheck(c, m) ==
    /\ sender[c] = "idle"
    /\ connected
    /\ sender' = [sender EXCEPT ![c] = "checked"]
    /\ datagram' = [datagram EXCEPT ![c] = m]
    /\ UNCHANGED <<queueVars, connected, notifier, handler, front, stopper, sent, failed>>

SendNotConnected(c, m) ==
    /\ sender[c] = "idle"
    /\ ~connected
    /\ failed' = failed \cup {m}
    /\ UNCHANGED <<queueVars, connected, notifier, handler, front, senderVars, stopper, sent>>

\* Mutant: _sendLock is not taken.
LockIgnored == TRUE

SendLockFree == \A c \in Senders : sender[c] # "locked"

\* lock_guard on _sendLock, and Push
SendPush(c) ==
    /\ sender[c] = "checked"
    /\ SendLockFree
    /\ Push(datagram[c])
    /\ sender' = [sender EXCEPT ![c] = "locked"]
    /\ UNCHANGED <<datagram, connected, notifier, handler, front, stopper, sent, failed>>

SendPushRefused(c) ==
    /\ sender[c] = "checked"
    /\ SendLockFree
    /\ PushRefused
    /\ failed' = failed \cup {datagram[c]}
    /\ sender' = [sender EXCEPT ![c] = "idle"]
    /\ datagram' = [datagram EXCEPT ![c] = NoItem]
    /\ UNCHANGED <<connected, notifier, handler, front, stopper, sent>>

WakeHandler == handler' = IF handler = "blocked" THEN "wait" ELSE handler

\* NotifyOne, still under _sendLock; on a notifier Stop has deleted it is undefined: the thread faults
SendNotify(c) ==
    /\ sender[c] = "locked"
    /\ IF notifier = "live"
       THEN /\ WakeHandler
            /\ sender' = [sender EXCEPT ![c] = "idle"]
            /\ datagram' = [datagram EXCEPT ![c] = NoItem]
       ELSE /\ sender' = [sender EXCEPT ![c] = "fault"]
            /\ UNCHANGED <<handler, datagram>>
    /\ UNCHANGED <<queueVars, connected, notifier, front, stopper, sent, failed>>

-----------------------------------------------------------------------------
(* SendDataHandler *)

HandlerStart ==
    /\ handler = "queued"
    /\ IF activepos > 0
       THEN /\ front' = writeList[1].item
            /\ handler' = "send"
       ELSE /\ handler' = "done"
            /\ UNCHANGED front
    /\ UNCHANGED <<queueVars, connected, notifier, senderVars, stopper, sent, failed>>

\* Mutant: SendTo's result is not looked at.
HandlerSendUnchecked ==
    /\ handler = "send"
    /\ \/ sent' = sent \cup {front}
       \/ UNCHANGED sent
    /\ handler' = "pop"
    /\ UNCHANGED <<queueVars, connected, notifier, front, senderVars, stopper, failed>>

\* SendTo succeeds and ReadCompleted drains the buffer, or it fails
HandlerSend ==
    /\ handler = "send"
    /\ \/ /\ sent' = sent \cup {front}
          /\ handler' = "pop"
       \/ /\ handler' = "wait"
          /\ UNCHANGED sent
    /\ UNCHANGED <<queueVars, connected, notifier, front, senderVars, stopper, failed>>

\* Mutant: SendDataHandler sends the next datagram without asking for the size again.
HandlerPopsOn ==
    /\ handler = "pop"
    /\ Pop
    /\ handler' = "send"
    /\ front' = writeList'[1].item
    /\ UNCHANGED <<connected, notifier, senderVars, stopper, sent, failed>>

HandlerPop ==
    /\ handler = "pop"
    /\ Pop
    /\ handler' = "wait"
    /\ UNCHANGED <<connected, notifier, front, senderVars, stopper, sent, failed>>

\* IsSendQueueNotEmpty: in fact true when the queue reports NO active slot
IsSendQueueNotEmpty == connected /\ activepos = 0

HandlerWait ==
    /\ handler = "wait"
    /\ handler' = IF notifier # "live" THEN "fault"
                  ELSE IF IsSendQueueNotEmpty THEN "done" ELSE "blocked"
    /\ UNCHANGED <<queueVars, connected, notifier, front, senderVars, stopper, sent, failed>>

HandlerSpuriousWakeup ==
    /\ handler = "blocked"
    /\ notifier = "live"
    /\ handler' = "wait"
    /\ UNCHANGED <<queueVars, connected, notifier, front, senderVars, stopper, sent, failed>>

-----------------------------------------------------------------------------
(* Stop: close the socket, notify, delete the notifier. *)

StopClose ==
    /\ connected
    /\ stopper = "idle"
    /\ connected' = FALSE
    /\ stopper' = "notify"
    /\ UNCHANGED <<queueVars, notifier, handler, front, senderVars, sent, failed>>

StopNotify ==
    /\ stopper = "notify"
    /\ WakeHandler
    /\ stopper' = "delete"
    /\ UNCHANGED <<queueVars, connected, notifier, front, senderVars, sent, failed>>

StopDelete ==
    /\ stopper = "delete"
    /\ notifier' = "deleted"
    /\ stopper' = "done"
    /\ UNCHANGED <<queueVars, connected, handler, front, senderVars, sent, failed>>

-----------------------------------------------------------------------------
StartUpStep == CreateNotifier \/ AddHandlerTask \/ Listen
SendStep(c) == SendPush(c) \/ SendPushRefused(c) \/ SendNotify(c)
HandlerStep == HandlerStart \/ HandlerSend \/ HandlerPop \/ HandlerWait
StopStep    == StopNotify \/ StopDelete

SenderNext ==
    \/ StartUpStep
    \/ \E c \in Senders, m \in Unsent : SendCheck(c, m) \/ SendNotConnected(c, m)
    \/ \E c \in Senders : SendStep(c)
    \/ HandlerStep
    \/ HandlerSpuriousWakeup
    \/ StopClose
    \/ StopStep

SenderSpec == SenderInit /\ [][SenderNext]_vars

(***************************************************************************)
(* Threads that can run do run.  A sender waiting for _sendLock competes   *)
(* with the other senders, and a mutex hands over eventually: strong       *)
(* fairness.  Whether Send or Stop is called is up to the program.         *)
(***************************************************************************)
SenderFairness ==
    /\ WF_vars(StartUpStep)
    /\ WF_vars(HandlerStep)
    /\ WF_vars(StopStep)
    /\ \A c \in Senders : SF_vars(SendStep(c))

SenderFairSpec == SenderSpec /\ SenderFairness

-----------------------------------------------------------------------------
\* Every variable keeps its type, and at most one thread holds _sendLock (SocketServer.cpp:116-128).
SenderTypeOK ==
    /\ TypeOK
    /\ connected \in BOOLEAN
    /\ notifier \in {"none", "live", "deleted"}
    /\ handler \in {"none", "queued", "send", "pop", "wait", "blocked", "done", "fault"}
    /\ front \in Items \cup {NoItem}
    /\ sender \in [Senders -> {"idle", "checked", "locked", "fault"}]
    /\ datagram \in [Senders -> Items \cup {NoItem}]
    /\ stopper \in {"idle", "notify", "delete", "done"}
    /\ sent \subseteq Items
    /\ failed \subseteq Items
    /\ \A c, d \in Senders : sender[c] = "locked" /\ sender[d] = "locked" => c = d

\* Although SendDataHandler touches the queue without _sendLock, the datagram it releases is one it handed to
\* the socket successfully: no push slips another datagram into slot 0 between Front and Pop
\* (SocketServer.cpp:184-215).
PoppedWasSent == popped \subseteq sent

\* Senders and handler use the queue as its specification asks: SendDataHandler, which asks for the size once
\* and pops after SendTo has come back, with pushes in between, releases only from a queue
\* that reports a datagram by then, and nobody pushes what was pushed before (SocketServer.cpp:187-207).
UsesQueue == Spec

\* A datagram Send accepted is eventually handed to the socket while the socket stays open.
AcceptedIsSent == \A m \in Items : m \in pushed ~> m \in sent \/ ~connected
=============================================================================
